----------------------------- MODULE AuthProofs -----------------------------
(***************************************************************************)
(* Proofs about accounts, for any names, passwords, ids and requests in    *)
(* flight.  The invariant says what a request that was interrupted may     *)
(* still rely on: it is made of facts about one row, one session, one      *)
(* entry and one request against the tables u (the users) and l (the last  *)
(* id), each of which outlives every change the tables can undergo.        *)
(*                                                                         *)
(* Then the limiter that stands before sign-in, for every limit, window    *)
(* and number of attempts in flight: the bound on the failures of one      *)
(* window, and the bound on those of any stretch of that length.           *)
(***************************************************************************)
EXTENDS Accounts, LoginLimiter, FiniteSetTheorems, TLAPS

Row0 == Row \cup {NoRow}

\* Ids number the accounts, so the serial of a row is its id.
UsersGood(u, l) ==
  /\ u \in [Ids -> Row0] /\ l \in Ids \cup {0}
  /\ \A id \in Ids : u[id] # NoRow => id <= l /\ u[id].serial = id
  /\ \A id, other \in Ids :
       u[id] # NoRow /\ u[other] # NoRow /\ u[id].name = u[other].name => id = other

\* A session, or an entry of the cache.
MadeFor(x, u, l) ==
  /\ x.user <= l /\ x.serial = x.user
  /\ u[x.user] # NoRow => x.epoch <= u[x.user].epoch

SessionGood(x, u, l) ==
  x \in Session \cup {NoSession} /\ (x # NoSession => MadeFor(x, u, l))

\* The password p was that of the account in the epoch of x, which is an entry or a
\* request that has verified it.
OfPassword(x, p, u) ==
  u[x.user] # NoRow /\ x.epoch = u[x.user].epoch => u[x.user].pass = p

\* OldPasswordFades for one entry.
Fades(e, u) ==
  e.left > 0 /\ u[e.user] # NoRow /\ ~e.late /\ e.epoch < u[e.user].epoch
    => e.left + u[e.user].since <= TTL

\* e is what the cache has under the password p.
EntryGood(e, p, u, l) ==
  /\ e \in Entry \cup {NoEntry}
  /\ e # NoEntry => MadeFor(e, u, l) /\ OfPassword(e, p, u) /\ Fades(e, u)

\* What a request has read is of its type, and its user has not become another one.
HasUser == {"lookup", "target", "revoke", "delete", "drop", "put", "login", "hit", "insert"}

RequestGood(q, u, l) ==
  /\ q \in Request /\ q.user <= l
  /\ q.at \in HasUser => q.user \in Ids
  /\ q.at \in {"lookup", "ready"} => q.sid \in SessionIds
  /\ q.at \in {"ready", "in"} => q.who \in Ids /\ q.who <= l
  /\ q.at = "ready" => q.role \in Roles /\ q.pass \in Passwords
  /\ q.at = "target" => q.sid = 0 /\ q.epoch = 0
  /\ q.at = "target" /\ ~q.cli => (u[q.user] # NoRow => u[q.user].role = q.role)
  /\ q.at = "put" => q.name \in Names
  /\ q.at \in {"miss", "insert"} => q.name \in Names /\ q.pass \in Passwords
  /\ q.at \in {"login", "insert"} => q.serial = q.user
  /\ q.at \in {"revoke", "insert"} /\ u[q.user] # NoRow => q.epoch <= u[q.user].epoch
  /\ q.at = "insert" => OfPassword(q, q.pass, u)

\* Who was shut out when the request began and stays so is shut out now, and the
\* request acts for none of them.
OutGood(q, u) ==
  /\ \A id \in q.out : u[id] # NoRow => u[id].disabled
  /\ q.who \notin q.out
  /\ q.at = "insert" => q.user \notin q.out

AdminsOf(u) == {id \in Ids : u[id] # NoRow /\ ~u[id].disabled /\ u[id].role = "admin"}

Doomed(q) == q.at \in {"delete", "drop"} \/ (q.at = "put" /\ q.off)

\* A request that has counted the administrators leaves another one, unless one has
\* gone since.
Counted(q, u) ==
  Doomed(q) /\ u[q.user] # NoRow /\ u[q.user].role = "admin" /\ ~q.outdated
    => \E other \in AdminsOf(u) : other # q.user

\* Some request is about to revoke session s of the user, or has seen the last change
\* of its password and keeps the session.
Pending(s, id, p, u) ==
  \E r \in Requests : /\ p[r].at = "revoke" /\ p[r].user = id
                      /\ p[r].sid # s \/ p[r].epoch = u[id].epoch

Covered(s, x, p, u, failed) ==
  x # NoSession /\ u[x.user] # NoRow =>
    x.epoch = u[x.user].epoch \/ Pending(s, x.user, p, u) \/ x.user \in failed

UsersInv == UsersGood(users, lastId) /\ accounts = lastId

SessionsInv ==
  /\ sessions \in [SessionIds -> Session \cup {NoSession}] /\ drawn \in SessionIds \cup {0}
  /\ \A s \in SessionIds : SessionGood(sessions[s], users, lastId)

CacheInv ==
  /\ cache \in [Keys -> Entry \cup {NoEntry}]
  /\ \A k \in Keys : EntryGood(cache[k], k[2], users, lastId)

RequestsInv ==
  /\ proc \in [Requests -> Request] /\ starts \in 0 .. MaxStarts /\ unrevoked \in SUBSET Ids
  /\ \A r \in Requests : RequestGood(proc[r], users, lastId)

OutInv == \A r \in Requests : OutGood(proc[r], users)

CountedInv == \A r \in Requests : Counted(proc[r], users)

CoveredInv == \A s \in SessionIds : Covered(s, sessions[s], proc, users, unrevoked)

Inv == UsersInv /\ SessionsInv /\ CacheInv /\ RequestsInv /\ OutInv /\ CountedInv /\ CoveredInv

-----------------------------------------------------------------------------
(* How the table of users may change.                                      *)

\* From u to v: rows keep their roles, passwords have no fewer epochs and none changes
\* without a new one, ids are never given twice.
Grows(u, l, v, m) ==
  /\ UsersGood(u, l) /\ UsersGood(v, m) /\ l <= m
  /\ \A id \in Ids : id <= l /\ v[id] # NoRow =>
       /\ u[id] # NoRow /\ v[id].role = u[id].role /\ u[id].epoch <= v[id].epoch
       /\ v[id].epoch = u[id].epoch => v[id].pass = u[id].pass

\* Ids and session ids are numbers from 1, 0 is none of them.
LEMMA IdsAreNumbers ==
  /\ Ids \subseteq Nat \ {0} /\ SessionIds \subseteq Nat \ {0}
  /\ \A id \in Ids \cup {0} : id \in Nat
  /\ {1, 2} \subseteq Ids /\ {1, 2} \subseteq SessionIds
  /\ TTL \in Nat \ {0} /\ SessionIdle \in Nat /\ MaxStarts \in Nat
<1>1. Cardinality(Ids) \in Nat /\ Cardinality(SessionIds) \in Nat
  BY AccountsAssumption, FS_CardinalityType
<1> QED BY <1>1, AccountsAssumption

\* What is absent is no row, session or entry.
LEMMA NoneIsNone ==
  /\ NoRow \notin Row /\ NoSession \notin Session /\ NoEntry \notin Entry
  /\ \A row \in Row0 : row # NoRow => row \in Row
<1>1. NoRow \notin Row
  BY DEF NoRow, Row, Roles
<1> QED BY <1>1, IdsAreNumbers DEF NoSession, Session, NoEntry, Entry, Row0

\* What a session or an entry of the cache was made for stays what it is for: its id is
\* not given to another account, and the epoch of its user does not fall.
LEMMA MadeForKept ==
  ASSUME NEW u, NEW l, NEW v, NEW m, Grows(u, l, v, m),
         NEW x, x.user \in Ids, x.epoch \in Nat, MadeFor(x, u, l)
  PROVE  MadeFor(x, v, m)
<1>1. l \in Nat /\ m \in Nat /\ x.user \in Nat /\ l <= m
  <2>1. l \in Ids \cup {0} /\ m \in Ids \cup {0} /\ x.user \in Ids \cup {0}
    BY DEF Grows, UsersGood
  <2> QED BY <2>1, IdsAreNumbers DEF Grows
<1>2. x.user <= l /\ x.user <= m
  BY <1>1 DEF MadeFor
<1>3. CASE v[x.user] # NoRow
  <2>1. u[x.user] # NoRow /\ u[x.user].epoch <= v[x.user].epoch
    BY <1>2, <1>3 DEF Grows
  <2>2. u[x.user] \in Row /\ v[x.user] \in Row
    BY <1>3, <2>1, NoneIsNone DEF Grows, UsersGood
  <2>3. u[x.user].epoch \in Nat /\ v[x.user].epoch \in Nat
    BY <2>2 DEF Row
  <2> QED BY <1>2, <2>1, <2>3 DEF MadeFor
<1> QED BY <1>2, <1>3 DEF MadeFor

\* What was the password of an epoch stays what it was.
LEMMA OfPasswordKept ==
  ASSUME NEW u, NEW l, NEW v, NEW m, Grows(u, l, v, m), NEW p,
         NEW x, x.user \in Ids, x.user <= l, x.epoch \in Nat,
         u[x.user] # NoRow => x.epoch <= u[x.user].epoch, OfPassword(x, p, u)
  PROVE  OfPassword(x, p, v)
<1> SUFFICES ASSUME v[x.user] # NoRow, x.epoch = v[x.user].epoch
             PROVE  v[x.user].pass = p
  BY DEF OfPassword
<1>1. /\ u[x.user] # NoRow /\ u[x.user].epoch <= v[x.user].epoch
      /\ v[x.user].epoch = u[x.user].epoch => v[x.user].pass = u[x.user].pass
  BY DEF Grows
<1>2. u[x.user] \in Row
  BY <1>1, NoneIsNone DEF Grows, UsersGood
<1>3. u[x.user].epoch \in Nat
  BY <1>2 DEF Row
<1>4. u[x.user].epoch = x.epoch
  BY <1>1, <1>3
<1> QED BY <1>1, <1>4 DEF OfPassword

\* A good session outlives every change of the users.
LEMMA SessionKept ==
  ASSUME NEW u, NEW l, NEW v, NEW m, Grows(u, l, v, m), NEW x, SessionGood(x, u, l)
  PROVE  SessionGood(x, v, m)
BY MadeForKept DEF SessionGood, Session

\* An entry fades as long as no row gets younger but with a new epoch.
LEMMA EntryKept ==
  ASSUME NEW u, NEW l, NEW v, NEW m, Grows(u, l, v, m),
         \A id \in Ids : id <= l /\ v[id] # NoRow =>
           v[id].since = 0 \/ (v[id].since = u[id].since /\ v[id].epoch = u[id].epoch),
         NEW e, NEW p, EntryGood(e, p, u, l)
  PROVE  EntryGood(e, p, v, m)
<1> SUFFICES ASSUME e # NoEntry PROVE MadeFor(e, v, m) /\ OfPassword(e, p, v) /\ Fades(e, v)
  BY DEF EntryGood
<1>1. e \in Entry /\ e.user \in Ids /\ e.epoch \in Nat /\ e.left \in 0 .. TTL
  BY DEF EntryGood, Entry
<1>2. MadeFor(e, v, m)
  BY <1>1, MadeForKept DEF EntryGood
<1>3. ASSUME e.left > 0, v[e.user] # NoRow, ~e.late, e.epoch < v[e.user].epoch
      PROVE  e.left + v[e.user].since <= TTL
  <2>1. e.user <= l
    BY DEF EntryGood, MadeFor
  <2>2. u[e.user] # NoRow
    BY <1>1, <1>3, <2>1 DEF Grows
  <2>3. CASE v[e.user].since = 0
    BY <1>1, <2>3, IdsAreNumbers
  <2>4. CASE v[e.user].since = u[e.user].since /\ v[e.user].epoch = u[e.user].epoch
    BY <1>3, <2>2, <2>4 DEF EntryGood, Fades
  <2> QED BY <1>1, <1>3, <2>1, <2>3, <2>4
<1>4. OfPassword(e, p, v)
  BY <1>1, OfPasswordKept DEF EntryGood, MadeFor
<1> QED BY <1>2, <1>3, <1>4 DEF Fades

\* What a request has read stays as good as it was: roles do not change, ids are not
\* given again, the epoch it read is no more than that of the row, and what it verified
\* was the password of that epoch.
LEMMA RequestKept ==
  ASSUME NEW u, NEW l, NEW v, NEW m, Grows(u, l, v, m), NEW q, RequestGood(q, u, l)
  PROVE  RequestGood(q, v, m)
<1>1. l \in Nat /\ m \in Nat /\ l <= m
  BY IdsAreNumbers DEF Grows, UsersGood
<1>2. q \in Request /\ q.user \in Nat /\ q.who \in Nat /\ q.epoch \in Nat
  <2>1. q \in Request
    BY DEF RequestGood
  <2>2. q.user \in Ids \cup {0} /\ q.who \in Ids \cup {0} /\ q.epoch \in Nat
    BY <2>1 DEF Request
  <2> QED BY <2>1, <2>2, IdsAreNumbers
<1>3. q.user <= l
  BY DEF RequestGood
<1>4. q.user <= m /\ (q.who <= l => q.who <= m)
  BY <1>1, <1>2, <1>3
<1>5. ASSUME q.at \in {"target", "revoke", "insert"}, v[q.user] # NoRow
      PROVE  /\ u[q.user] # NoRow /\ v[q.user].role = u[q.user].role
             /\ q.epoch <= u[q.user].epoch => q.epoch <= v[q.user].epoch
  <2>1. q.user \in Ids
    BY <1>5 DEF RequestGood, HasUser
  <2>2. u[q.user] # NoRow /\ v[q.user].role = u[q.user].role /\ u[q.user].epoch <= v[q.user].epoch
    BY <1>3, <1>5, <2>1 DEF Grows
  <2>3. u[q.user].epoch \in Nat /\ v[q.user].epoch \in Nat
    BY <1>5, <2>1, <2>2, NoneIsNone DEF Grows, UsersGood, Row
  <2> QED BY <1>2, <2>2, <2>3
<1>6. q.at = "insert" => OfPassword(q, q.pass, v)
  BY <1>2, <1>3, OfPasswordKept DEF RequestGood, HasUser
<1> QED BY <1>4, <1>5, <1>6 DEF RequestGood

\* No row becomes younger but with a new epoch.
Ages(u, l, v) ==
  \A id \in Ids : id <= l /\ v[id] # NoRow =>
    v[id].since = 0 \/ (v[id].since = u[id].since /\ v[id].epoch = u[id].epoch)

\* A row is written or removed.
LEMMA WriteGrows ==
  ASSUME NEW u, NEW l, UsersGood(u, l), NEW id \in Ids, NEW row \in Row0,
         row # NoRow =>
           /\ u[id] # NoRow
           /\ row.serial = u[id].serial /\ row.role = u[id].role /\ u[id].epoch <= row.epoch
           /\ row.epoch = u[id].epoch => row.pass = u[id].pass
           /\ row.since = 0 \/ (row.since = u[id].since /\ row.epoch = u[id].epoch)
           /\ \A other \in Ids \ {id} : u[other] # NoRow => u[other].name # row.name
  PROVE  LET v == [u EXCEPT ![id] = row] IN Grows(u, l, v, l) /\ Ages(u, l, v)
<1> DEFINE v == [u EXCEPT ![id] = row]
<1>1. v \in [Ids -> Row0] /\ v[id] = row /\ \A other \in Ids \ {id} : v[other] = u[other]
  BY DEF UsersGood
<1>2. l \in Nat /\ \A other \in Ids : u[other] # NoRow => u[other].epoch \in Nat
  BY IdsAreNumbers, NoneIsNone DEF UsersGood, Row
<1> HIDE DEF v
<1>3. UsersGood(v, l)
  BY <1>1 DEF UsersGood
<1>4. Grows(u, l, v, l)
  BY <1>1, <1>2, <1>3 DEF Grows
<1>5. Ages(u, l, v)
  BY <1>1 DEF Ages
<1> QED BY <1>4, <1>5 DEF v

\* A row is added: no id above the last one was ever used.
LEMMA InsertGrows ==
  ASSUME UsersInv, NEW n \in Names, NEW p \in Passwords, NEW role \in Roles, Insert(n, p, role)
  PROVE  /\ Grows(users, lastId, users', lastId') /\ Ages(users, lastId, users') /\ UsersInv'
         /\ lastId' = NextId /\ NextId \in Ids /\ lastId < NextId /\ lastId \in Nat
         /\ users'[NextId] = NewRow(n, p, role, NextId)
         /\ \A id \in Ids \ {NextId} : users'[id] = users[id]
<1>1. lastId \in Nat /\ NextId \in Nat /\ NextId \in Ids /\ lastId < NextId /\ accounts + 1 = NextId
  BY IdsAreNumbers DEF UsersInv, UsersGood, Insert, NextId
<1>2. NewRow(n, p, role, NextId) \in Row
  BY <1>1, IdsAreNumbers DEF NewRow, Row
<1> DEFINE row == NewRow(n, p, role, NextId)
<1>3. row.serial = NextId /\ row.name = n /\ row \in Row0
  BY <1>2 DEF NewRow, Row0
<1> HIDE DEF row
<1>4. users' = [users EXCEPT ![NextId] = row] /\ lastId' = NextId /\ accounts' = NextId
  BY <1>1 DEF Insert, row
<1>5. users'[NextId] = row /\ (\A id \in Ids \ {NextId} : users'[id] = users[id])
      /\ users' \in [Ids -> Row0]
  BY <1>1, <1>3, <1>4 DEF UsersInv, UsersGood
<1>6. \A id \in Ids : users[id] # NoRow => id <= lastId /\ users[id].name # n
  BY <1>1, IdsAreNumbers DEF Insert, Taken, Named, Exists, UsersInv, UsersGood
<1>7. UsersGood(users', lastId')
  <2>1. \A id \in Ids : users'[id] # NoRow => id <= NextId /\ users'[id].serial = id
    BY <1>1, <1>3, <1>5, IdsAreNumbers DEF UsersInv, UsersGood
  <2>2. \A id, other \in Ids :
          users'[id] # NoRow /\ users'[other] # NoRow /\ users'[id].name = users'[other].name
            => id = other
    BY <1>3, <1>5, <1>6 DEF UsersInv, UsersGood
  <2> QED BY <1>1, <1>4, <1>5, <2>1, <2>2 DEF UsersGood
<1>8. ASSUME NEW id \in Ids, id <= lastId PROVE id # NextId /\ users'[id] = users[id]
  BY <1>1, <1>5, <1>8, IdsAreNumbers
<1>9. Grows(users, lastId, users', lastId')
  <2>1. \A id \in Ids : users[id] # NoRow => users[id].epoch \in Nat
    BY NoneIsNone DEF UsersInv, UsersGood, Row
  <2> QED BY <1>1, <1>4, <1>7, <1>8, <2>1 DEF Grows, UsersInv
<1>10. Ages(users, lastId, users')
  BY <1>8 DEF Ages
<1> QED BY <1>1, <1>4, <1>5, <1>7, <1>9, <1>10 DEF UsersInv, row

\* A step that leaves the users alone changes them as little as any.
LEMMA SameGrows ==
  ASSUME UsersInv, UNCHANGED <<users, lastId>>
  PROVE  Grows(users, lastId, users', lastId') /\ Ages(users, lastId, users')
<1>1. \A id \in Ids : users[id] # NoRow => users[id].epoch \in Nat
  BY NoneIsNone DEF UsersInv, UsersGood, Row
<1>2. lastId \in Nat
  BY IdsAreNumbers DEF UsersInv, UsersGood
<1> QED BY <1>1, <1>2 DEF Grows, Ages, UsersInv

-----------------------------------------------------------------------------
(* How the requests may change.                                            *)

\* The same request, with fewer users shut out all along, or told that an administrator
\* has gone.
Follows(q, r) ==
  /\ r \in Request /\ r.out \subseteq q.out /\ (q.outdated => r.outdated)
  /\ r.at = q.at /\ r.cli = q.cli /\ r.who = q.who /\ r.role = q.role /\ r.sid = q.sid
  /\ r.user = q.user /\ r.name = q.name /\ r.pass = q.pass /\ r.off = q.off
  /\ r.serial = q.serial /\ r.epoch = q.epoch

OthersFollow(r) == \A q \in Requests \ {r} : Follows(proc[q], proc'[q])

UsersGrow == Grows(users, lastId, users', lastId')

\* A step of one request keeps all of them good, if it leaves its own so and the others
\* only move as Follows says.
LEMMA RequestsKept ==
  ASSUME RequestsInv, UsersGrow, NEW r, OthersFollow(r),
         proc' \in [Requests -> Request], starts' \in 0 .. MaxStarts, unrevoked' \in SUBSET Ids,
         r \in Requests => RequestGood(proc'[r], users', lastId')
  PROVE  RequestsInv'
<1>1. ASSUME NEW q \in Requests \ {r} PROVE RequestGood(proc'[q], users', lastId')
  <2>1. RequestGood(proc[q], users', lastId')
    BY RequestKept DEF RequestsInv, UsersGrow
  <2>2. Follows(proc[q], proc'[q])
    BY DEF OthersFollow
  <2> QED BY <2>1, <2>2 DEF Follows, RequestGood, OfPassword
<1> QED BY <1>1 DEF RequestsInv

\* In the next three, r is the request that takes the step, if one does.  Who is let in
\* anew is struck from the users shut out all along.
LEMMA OutKept ==
  ASSUME OutInv, NEW r, OthersFollow(r), r \in Requests => OutGood(proc'[r], users'),
         \A q \in Requests \ {r} : \A id \in proc'[q].out :
           users'[id] # NoRow /\ ~users'[id].disabled => users[id] # NoRow /\ ~users[id].disabled
  PROVE  OutInv'
<1>1. ASSUME NEW q \in Requests \ {r} PROVE OutGood(proc'[q], users')
  <2>1. Follows(proc[q], proc'[q]) /\ OutGood(proc[q], users)
    BY DEF OthersFollow, OutInv
  <2> QED BY <2>1 DEF Follows, OutGood
<1> QED BY <1>1 DEF OutInv

\* An administrator that goes is told to all that have counted.
LEMMA CountedKept ==
  ASSUME CountedInv, RequestsInv, UsersGrow, NEW r, OthersFollow(r),
         r \in Requests => Counted(proc'[r], users'),
         \A q \in Requests \ {r} : Doomed(proc[q]) =>
           proc'[q].outdated \/ AdminsOf(users) \subseteq AdminsOf(users')
  PROVE  CountedInv'
<1>1. ASSUME NEW q \in Requests \ {r} PROVE Counted(proc'[q], users')
  <2>1. Follows(proc[q], proc'[q]) /\ Counted(proc[q], users) /\ RequestGood(proc[q], users, lastId)
    BY DEF OthersFollow, CountedInv, RequestsInv
  <2>2. Doomed(proc'[q]) => Doomed(proc[q]) /\ proc[q].user \in Ids /\ proc[q].user <= lastId
    BY <2>1 DEF Follows, Doomed, RequestGood, HasUser
  <2>3. ASSUME Doomed(proc'[q]), users'[proc[q].user] # NoRow
        PROVE  users[proc[q].user] # NoRow /\ users'[proc[q].user].role = users[proc[q].user].role
    BY <2>2, <2>3 DEF UsersGrow, Grows
  <2> QED BY <2>1, <2>2, <2>3 DEF Follows, Counted
<1> QED BY <1>1 DEF CountedInv

\* A session stays covered while its epoch and that of its user stay, unless the request
\* that was to revoke it gives up unnoticed.
LEMMA CoveredKept ==
  ASSUME SessionsInv, RequestsInv, CoveredInv, UsersGrow, NEW r, OthersFollow(r), NEW s \in SessionIds,
         sessions[s] # NoSession, sessions'[s].user = sessions[s].user,
         sessions'[s].epoch = sessions[s].epoch,
         users'[sessions[s].user] # NoRow =>
           users'[sessions[s].user].epoch = users[sessions[s].user].epoch,
         sessions[s].user \in unrevoked => sessions[s].user \in unrevoked',
         r \in Requests =>
           \/ proc[r].at # "revoke" \/ proc[r].user # sessions[s].user
           \/ sessions[s].user \in unrevoked'
  PROVE  Covered(s, sessions'[s], proc', users', unrevoked')
<1> DEFINE id == sessions[s].user
<1> SUFFICES ASSUME users'[id] # NoRow, sessions[s].epoch # users[id].epoch, id \notin unrevoked'
             PROVE  Pending(s, id, proc', users')
  BY DEF Covered
<1>1. id \in Ids /\ id <= lastId
  BY NoneIsNone DEF SessionsInv, SessionGood, MadeFor, Session
<1>2. users[id] # NoRow
  BY <1>1 DEF UsersGrow, Grows
<1>3. Pending(s, id, proc, users)
  BY <1>2 DEF CoveredInv, Covered
<1>4. PICK q \in Requests : /\ proc[q].at = "revoke" /\ proc[q].user = id
                            /\ proc[q].sid # s \/ proc[q].epoch = users[id].epoch
  BY <1>3 DEF Pending
<1>5. q # r
  BY <1>4
<1>6. Follows(proc[q], proc'[q])
  BY <1>5 DEF OthersFollow
<1> QED BY <1>4, <1>6 DEF Follows, Pending

\* The requests that a step leaves alone.
LEMMA OneMoves ==
  ASSUME RequestsInv, NEW r \in Requests, NEW req, proc' = [proc EXCEPT ![r] = req]
  PROVE  /\ OthersFollow(r) /\ proc'[r] = req
         /\ \A q \in Requests \ {r} : proc'[q] = proc[q]
         /\ req \in Request => proc' \in [Requests -> Request]
BY DEF RequestsInv, OthersFollow, Follows

\* Sessions a step does not touch stay good, whatever it does to the users.
LEMMA SessionsSame ==
  ASSUME SessionsInv, UsersGrow, UNCHANGED <<sessions, drawn>>
  PROVE  SessionsInv'
BY SessionKept DEF SessionsInv, UsersGrow

\* And so do the entries of the cache, unless a row got younger.
LEMMA CacheSame ==
  ASSUME CacheInv, UsersGrow, Ages(users, lastId, users'), UNCHANGED cache
  PROVE  CacheInv'
BY EntryKept DEF CacheInv, UsersGrow, Ages

\* Sessions stay covered by a step that changes no epoch and ends no revocation.
LEMMA CoveredSame ==
  ASSUME SessionsInv, RequestsInv, CoveredInv, UsersGrow, NEW r, OthersFollow(r),
         UNCHANGED <<sessions, unrevoked>>,
         \A id \in Ids : id <= lastId /\ users'[id] # NoRow => users'[id].epoch = users[id].epoch,
         r \in Requests => proc[r].at # "revoke"
  PROVE  CoveredInv'
<1>1. ASSUME NEW s \in SessionIds PROVE Covered(s, sessions'[s], proc', users', unrevoked')
  <2>1. CASE sessions[s] = NoSession
    BY <2>1 DEF Covered
  <2>2. CASE sessions[s] # NoSession
    <3>1. sessions[s].user \in Ids /\ sessions[s].user <= lastId
      BY <2>2, NoneIsNone DEF SessionsInv, SessionGood, MadeFor, Session
    <3> QED BY <2>2, <3>1, CoveredKept
  <2> QED BY <2>1, <2>2
<1> QED BY <1>1 DEF CoveredInv

\* A step of a request that changes nothing but the request.
LEMMA QuietStep ==
  ASSUME Inv, NEW r \in Requests, NEW req, proc' = [proc EXCEPT ![r] = req],
         UNCHANGED <<users, lastId, accounts, sessions, drawn, cache, unrevoked>>,
         starts' \in 0 .. MaxStarts, proc[r].at # "revoke",
         RequestGood(req, users, lastId), OutGood(req, users), Counted(req, users)
  PROVE  Inv'
<1> USE DEF Inv
<1>1. UsersInv' /\ UsersGrow /\ Ages(users, lastId, users')
  BY SameGrows DEF UsersInv, UsersGrow
<1>2. OthersFollow(r) /\ proc'[r] = req /\ proc' \in [Requests -> Request]
  BY OneMoves DEF RequestGood
<1>3. SessionsInv' /\ CacheInv'
  BY <1>1, SessionsSame, CacheSame
<1>4. RequestsInv'
  <2>1. unrevoked' \in SUBSET Ids
    BY DEF RequestsInv
  <2> QED BY <1>1, <1>2, <2>1, RequestsKept
<1>5. OutInv'
  BY <1>2, OutKept
<1>6. CountedInv'
  BY <1>1, <1>2, CountedKept
<1>7. CoveredInv'
  BY <1>1, <1>2, CoveredSame
<1> QED BY <1>1, <1>3, <1>4, <1>5, <1>6, <1>7

-----------------------------------------------------------------------------
(* The steps that change nothing but a request.                            *)

\* A request that is over owes nothing to any of the parts.
LEMMA IdleGood ==
  ASSUME NEW u, NEW l \in Nat
  PROVE  Idle \in Request /\ RequestGood(Idle, u, l) /\ OutGood(Idle, u) /\ Counted(Idle, u)
<1>1. Idle \in Request
  BY DEF Idle, Request, Steps
<1>2. Idle.at = "idle" /\ Idle.user = 0 /\ Idle.who = 0 /\ Idle.out = {}
  BY DEF Idle
<1> QED BY <1>1, <1>2 DEF RequestGood, OutGood, Counted, Doomed, HasUser

\* The last id is a number.
LEMMA LastIdNat == UsersInv => lastId \in Nat
BY IdsAreNumbers DEF UsersInv, UsersGood

\* Nobody is shut out by mistake.
LEMMA ShutGood ==
  /\ Shut \subseteq Ids /\ 0 \notin Shut
  /\ \A id \in Shut : users[id] # NoRow => users[id].disabled
BY IdsAreNumbers DEF Shut, Exists

\* The counter of requests stays in its range, whatever the request does.
LEMMA StartsKept ==
  ASSUME RequestsInv, NEW r, NEW req, Begins(r, req) \/ Goes(r, req) \/ Ends(r)
  PROVE  starts' \in 0 .. MaxStarts
BY IdsAreNumbers DEF RequestsInv, Begins, Goes, Ends

\* A request that only reads, or begins, keeps the invariant if what it has read is good.
LEMMA MoveStep ==
  ASSUME Inv, NEW r \in Requests, NEW req,
         Begins(r, req) \/ (Goes(r, req) /\ proc[r].at # "revoke"),
         UNCHANGED <<users, lastId, accounts, sessions, drawn, cache, unrevoked>>,
         RequestGood(req, users, lastId), OutGood(req, users), Counted(req, users)
  PROVE  Inv'
<1>1. starts' \in 0 .. MaxStarts
  BY StartsKept DEF Inv
<1>2. proc[r].at # "revoke"
  <2>1. Idle.at = "idle"
    BY DEF Idle
  <2> QED BY <2>1 DEF Begins
<1>3. proc' = [proc EXCEPT ![r] = req]
  BY DEF Begins, Goes
<1> QED BY <1>1, <1>2, <1>3, QuietStep

\* So does one that ends, other than by revoking.
LEMMA EndStep ==
  ASSUME Inv, NEW r \in Requests, Ends(r), proc[r].at # "revoke",
         UNCHANGED <<users, lastId, accounts, sessions, drawn, cache, unrevoked>>
  PROVE  Inv'
<1>1. RequestGood(Idle, users, lastId) /\ OutGood(Idle, users) /\ Counted(Idle, users)
  BY LastIdNat, IdleGood DEF Inv
<1>2. Goes(r, Idle)
  BY DEF Ends
<1> QED BY <1>1, <1>2, MoveStep

\* A cookie is read: its session is of a user there was.
LEMMA PanelRequestStep ==
  ASSUME Inv, NEW r \in Requests, NEW s \in SessionIds, PanelRequest(r, s)
  PROVE  Inv'
<1> DEFINE req == [Idle EXCEPT !.at = "lookup", !.sid = s, !.user = sessions[s].user, !.out = Shut]
<1>1. sessions[s].user \in Ids /\ sessions[s].user <= lastId
  BY NoneIsNone DEF PanelRequest, Inv, SessionsInv, SessionGood, MadeFor, Session
<1>2. /\ req.at = "lookup" /\ req.sid = s /\ req.user = sessions[s].user /\ req.out = Shut
      /\ req.who = 0 /\ req \in Request
  BY <1>1, ShutGood DEF Idle, Request, Steps
<1>3. Begins(r, req)
  BY DEF PanelRequest
<1> HIDE DEF req
<1>4. RequestGood(req, users, lastId) /\ OutGood(req, users) /\ Counted(req, users)
  BY <1>1, <1>2, ShutGood DEF RequestGood, OutGood, Counted, Doomed, HasUser
<1>5. UNCHANGED <<users, lastId, accounts, sessions, drawn, cache, unrevoked>>
  BY DEF PanelRequest
<1> QED BY <1>3, <1>4, <1>5, MoveStep

\* An administrator reads the user it is about to change: its role is the one read.
LEMMA ReadTargetStep ==
  ASSUME Inv, NEW r \in Requests, NEW id \in Ids, ReadTarget(r, id)
  PROVE  Inv'
<1> DEFINE req == [Idle EXCEPT !.at = "target", !.user = id, !.role = users[id].role]
<1>1. users[id] \in Row /\ id <= lastId
  BY NoneIsNone DEF ReadTarget, Exists, Inv, UsersInv, UsersGood
<1>2. /\ req.at = "target" /\ req.user = id /\ req.role = users[id].role /\ req.out = {}
      /\ req.sid = 0 /\ req.epoch = 0 /\ req \in Request
  BY <1>1 DEF Idle, Request, Steps, Row
<1>3. Goes(r, req)
  BY DEF ReadTarget
<1> HIDE DEF req
<1>4. RequestGood(req, users, lastId) /\ OutGood(req, users) /\ Counted(req, users)
  BY <1>1, <1>2 DEF RequestGood, OutGood, Counted, Doomed, HasUser
<1>5. /\ proc[r].at # "revoke"
      /\ UNCHANGED <<users, lastId, accounts, sessions, drawn, cache, unrevoked>>
  BY DEF At, ReadTarget
<1> QED BY <1>3, <1>4, <1>5, MoveStep

\* The command reset-password finds its user.
LEMMA CliResetStep ==
  ASSUME Inv, NEW r \in Requests, NEW id \in Ids, CliReset(r, id)
  PROVE  Inv'
<1> DEFINE req == [Idle EXCEPT !.at = "target", !.cli = TRUE, !.user = id]
<1>1. id <= lastId
  BY DEF CliReset, Exists, Inv, UsersInv, UsersGood
<1>2. /\ req.at = "target" /\ req.user = id /\ req.cli /\ req.out = {}
      /\ req.sid = 0 /\ req.epoch = 0 /\ req \in Request
  BY <1>1 DEF Idle, Request, Steps, Row
<1>3. Begins(r, req)
  BY DEF CliReset
<1> HIDE DEF req
<1>4. RequestGood(req, users, lastId) /\ OutGood(req, users) /\ Counted(req, users)
  BY <1>1, <1>2 DEF RequestGood, OutGood, Counted, Doomed, HasUser
<1>5. UNCHANGED <<users, lastId, accounts, sessions, drawn, cache, unrevoked>>
  BY DEF CliReset
<1> QED BY <1>3, <1>4, <1>5, MoveStep

\* More than one administrator is enabled when the last one is not.
LEMMA AnotherAdmin ==
  ASSUME ~LastAdmin, NEW id
  PROVE  \E other \in AdminsOf(users) : other # id
<1>1. EnabledAdmins = AdminsOf(users) /\ IsFiniteSet(EnabledAdmins)
  BY AccountsAssumption, FS_Subset DEF EnabledAdmins, AdminsOf, Exists
<1> SUFFICES ASSUME AdminsOf(users) \subseteq {id} PROVE FALSE
  OBVIOUS
<1>2. IsFiniteSet({id}) /\ Cardinality({id}) = 1
  BY FS_Singleton
<1>3. Cardinality(EnabledAdmins) <= 1
  BY <1>1, <1>2, FS_Subset
<1> QED BY <1>3 DEF LastAdmin

\* DELETE and PUT have seen another administrator when they go on.
LEMMA CheckedSteps ==
  ASSUME Inv, NEW r \in Requests,
         DeleteChecked(r) \/ \E n \in Names, off \in BOOLEAN : PutChecked(r, n, off)
  PROVE  Inv'
<1> DEFINE q == proc[r]
<1>1. q \in Request /\ RequestGood(q, users, lastId) /\ OutGood(q, users)
  BY DEF Inv, RequestsInv, OutInv
<1>2. /\ q.at = "target" /\ ~q.cli
      /\ UNCHANGED <<users, lastId, accounts, sessions, drawn, cache, unrevoked>>
  BY DEF DeleteChecked, PutChecked, At
<1>3. q.user \in Ids /\ q.user <= lastId /\ (users[q.user] # NoRow => users[q.user].role = q.role)
  BY <1>1, <1>2 DEF RequestGood, HasUser
<1>4. CASE Ends(r)
  BY <1>2, <1>4, EndStep
<1>5. ASSUME NEW req \in Request, Goes(r, req), req.at \in {"delete", "put"},
             req.user = q.user, req.out = q.out, req.who = q.who,
             req.at = "put" => req.name \in Names,
             (req.at = "put" /\ ~req.off) \/ q.role # "admin" \/ ~LastAdmin
      PROVE  Inv'
  <2>1. RequestGood(req, users, lastId)
    BY <1>1, <1>3, <1>5 DEF RequestGood, HasUser
  <2>3. OutGood(req, users)
    BY <1>1, <1>5 DEF OutGood
  <2>2. Counted(req, users)
    <3>1. CASE req.at = "put" /\ ~req.off
      BY <3>1 DEF Counted, Doomed
    <3>2. CASE q.role # "admin"
      BY <1>3, <1>5, <3>2 DEF Counted
    <3>3. CASE ~LastAdmin
      BY <3>3, AnotherAdmin DEF Counted
    <3> QED BY <1>5, <3>1, <3>2, <3>3
  <2>4. /\ Goes(r, req) /\ proc[r].at # "revoke"
        /\ UNCHANGED <<users, lastId, accounts, sessions, drawn, cache, unrevoked>>
    BY <1>2, <1>5
  <2> QED BY ONLY Inv, <2>1, <2>2, <2>3, <2>4, MoveStep
<1>6. CASE DeleteChecked(r) /\ ~Ends(r)
  <2> DEFINE req == [q EXCEPT !.at = "delete", !.role = ""]
  <2>1. Goes(r, req) /\ (q.role # "admin" \/ ~LastAdmin)
    BY <1>6 DEF DeleteChecked
  <2>2. /\ req \in Request /\ req.at = "delete" /\ req.user = q.user
        /\ req.out = q.out /\ req.who = q.who
    BY <1>1 DEF Request, Steps
  <2> HIDE DEF req, q
  <2> QED BY <1>5, <2>1, <2>2
<1>7. ASSUME NEW n \in Names, NEW off \in BOOLEAN, PutChecked(r, n, off), ~Ends(r) PROVE Inv'
  <2> DEFINE req == [q EXCEPT !.at = "put", !.role = "", !.name = n, !.off = off]
  <2>1. Goes(r, req) /\ (~off \/ q.role # "admin" \/ ~LastAdmin)
    BY <1>7 DEF PutChecked
  <2>2. /\ req \in Request /\ req.at = "put" /\ req.user = q.user
        /\ req.out = q.out /\ req.who = q.who /\ req.name = n /\ req.off = off
    <3>1. q \in Request /\ "put" \in Steps /\ "" \in Roles \cup {""}
      BY <1>1 DEF Steps
    <3> HIDE DEF q
    <3> QED BY <3>1 DEF Request
  <2> HIDE DEF req, q
  <2> QED BY <1>5, <2>1, <2>2
<1> QED BY <1>4, <1>6, <1>7

\* A password is right for an enabled user, which the request then has.
LEMMA LoginStep ==
  ASSUME Inv, NEW r \in Requests, NEW n \in Names, NEW p \in Passwords, Login(r, n, p)
  PROVE  Inv'
<1> PICK id \in Named(n) :
      /\ Verified(id, p)
      /\ Begins(r, [Idle EXCEPT !.at = "login", !.user = id, !.serial = users[id].serial])
  BY DEF Login
<1> DEFINE req == [Idle EXCEPT !.at = "login", !.user = id, !.serial = users[id].serial]
<1>1. id \in Ids /\ id <= lastId /\ users[id].serial = id /\ id \in Nat
  BY IdsAreNumbers DEF Named, Exists, Inv, UsersInv, UsersGood
<1>2. /\ req.at = "login" /\ req.user = id /\ req.serial = id /\ req.out = {} /\ req.who = 0
      /\ req \in Request
  BY <1>1 DEF Idle, Request, Steps
<1>3. Begins(r, req)
  OBVIOUS
<1> HIDE DEF req
<1>4. RequestGood(req, users, lastId) /\ OutGood(req, users) /\ Counted(req, users)
  BY <1>1, <1>2 DEF RequestGood, OutGood, Counted, Doomed, HasUser
<1>5. UNCHANGED <<users, lastId, accounts, sessions, drawn, cache, unrevoked>>
  BY DEF Login
<1> QED BY <1>3, <1>4, <1>5, MoveStep

\* Setup has found no enabled administrator.
LEMMA SetupCheckedStep ==
  ASSUME Inv, NEW r \in Requests, SetupChecked(r)
  PROVE  Inv'
<1> DEFINE req == [Idle EXCEPT !.at = "setup"]
<1>1. req.at = "setup" /\ req.user = 0 /\ req.out = {} /\ req.who = 0 /\ req \in Request
  BY DEF Idle, Request, Steps
<1>2. Begins(r, req)
  BY DEF SetupChecked
<1> HIDE DEF req
<1>3. RequestGood(req, users, lastId) /\ OutGood(req, users) /\ Counted(req, users)
  BY <1>1, LastIdNat DEF RequestGood, OutGood, Counted, Doomed, HasUser, Inv
<1>4. UNCHANGED <<users, lastId, accounts, sessions, drawn, cache, unrevoked>>
  BY DEF SetupChecked
<1> QED BY <1>2, <1>3, <1>4, MoveStep

\* A verification in the cache lets in an enabled user only, so none that was shut out
\* all along.
LEMMA DavHitStep ==
  ASSUME Inv, NEW r \in Requests, DavHit(r)
  PROVE  Inv'
<1> DEFINE q == proc[r]
           req == [Idle EXCEPT !.at = "in", !.who = q.user, !.out = q.out]
<1>1. q \in Request /\ RequestGood(q, users, lastId) /\ OutGood(q, users) /\ q.at = "hit"
  BY DEF Inv, RequestsInv, OutInv, DavHit, At
<1>2. UNCHANGED <<users, lastId, accounts, sessions, drawn, cache, unrevoked>>
  BY DEF DavHit
<1>3. q.user \in Ids /\ q.user <= lastId /\ q.out \subseteq Ids
  BY <1>1 DEF RequestGood, HasUser, Request
<1>4. CASE Enabled(q.user)
  <2>1. /\ req.at = "in" /\ req.user = 0 /\ req.who = q.user /\ req.out = q.out /\ req \in Request
    BY <1>3 DEF Idle, Request, Steps
  <2>2. Goes(r, req)
    BY <1>4 DEF DavHit
  <2> HIDE DEF req
  <2>3. RequestGood(req, users, lastId) /\ Counted(req, users)
    BY <1>3, <2>1, LastIdNat DEF RequestGood, Counted, Doomed, HasUser, Inv
  <2>4. OutGood(req, users)
    BY <1>1, <1>4, <2>1 DEF OutGood, Enabled, Exists
  <2> QED BY <1>1, <1>2, <2>2, <2>3, <2>4, MoveStep
<1>5. CASE ~Enabled(q.user)
  <2>1. Ends(r)
    BY <1>5 DEF DavHit
  <2> QED BY <1>1, <1>2, <2>1, EndStep
<1> QED BY <1>4, <1>5

\* A password is right for the one user of the name.
LEMMA DavMissStep ==
  ASSUME Inv, NEW r \in Requests, DavMiss(r)
  PROVE  Inv'
<1> DEFINE q == proc[r]
<1>1. q \in Request /\ RequestGood(q, users, lastId) /\ OutGood(q, users) /\ q.at = "miss"
  BY DEF Inv, RequestsInv, OutInv, DavMiss, At
<1>2. UNCHANGED <<users, lastId, accounts, sessions, drawn, cache, unrevoked>>
  BY DEF DavMiss
<1>3. ASSUME NEW id \in Named(q.name), Verified(id, q.pass),
             Goes(r, [q EXCEPT !.at = "insert", !.user = id, !.serial = users[id].serial,
                               !.epoch = users[id].epoch])
      PROVE  Inv'
  <2> DEFINE req == [q EXCEPT !.at = "insert", !.user = id, !.serial = users[id].serial,
                              !.epoch = users[id].epoch]
  <2>1. id \in Ids /\ id <= lastId /\ users[id].serial = id /\ id \in Nat
    BY IdsAreNumbers DEF Named, Exists, Inv, UsersInv, UsersGood
  <2>0. users[id].epoch \in Nat /\ users[id].pass = q.pass
    BY <1>3, <2>1, NoneIsNone DEF Verified, Enabled, Exists, Inv, UsersInv, UsersGood, Row
  <2>2. /\ req.at = "insert" /\ req.user = id /\ req.serial = id /\ req.out = q.out
        /\ req.who = q.who /\ req.name = q.name /\ req.pass = q.pass /\ req \in Request
        /\ req.epoch = users[id].epoch
    BY <1>1, <2>0, <2>1 DEF Request, Steps
  <2>3. Goes(r, req)
    BY <1>3
  <2> HIDE DEF req
  <2>4. RequestGood(req, users, lastId) /\ Counted(req, users)
    BY <1>1, <2>0, <2>1, <2>2 DEF RequestGood, OfPassword, Counted, Doomed, HasUser
  <2>5. OutGood(req, users)
    BY <1>1, <1>3, <2>2 DEF OutGood, Verified, Enabled, Exists
  <2>6. Goes(r, req) /\ proc[r].at # "revoke"
    BY <1>1, <2>3
  <2> QED BY ONLY Inv, <1>2, <2>4, <2>5, <2>6, MoveStep
<1>4. CASE Ends(r)
  BY <1>1, <1>2, <1>4, EndStep
<1>5. \A id, other \in Named(q.name) : id = other
  BY DEF Named, Exists, Inv, UsersInv, UsersGood
<1> QED BY <1>3, <1>4, <1>5 DEF DavMiss

-----------------------------------------------------------------------------
(* The steps that change sessions.                                         *)

\* What is left to show of a step that changes no user and no entry.
LEMMA SessionsStep ==
  ASSUME Inv, NEW r \in Requests, NEW req, Goes(r, req),
         UNCHANGED <<users, lastId, accounts, cache>>, unrevoked' \in SUBSET Ids,
         RequestGood(req, users, lastId), OutGood(req, users), Counted(req, users),
         SessionsInv', CoveredInv'
  PROVE  Inv'
<1> USE DEF Inv
<1>1. UsersInv' /\ UsersGrow /\ Ages(users, lastId, users')
  BY SameGrows DEF UsersInv, UsersGrow
<1>2. OthersFollow(r) /\ proc'[r] = req /\ proc' \in [Requests -> Request]
  BY OneMoves DEF RequestGood, Goes
<1>3. CacheInv'
  BY <1>1, CacheSame
<1>4. RequestsInv'
  <2>1. starts' \in 0 .. MaxStarts
    BY StartsKept
  <2> QED BY <1>1, <1>2, <2>1, RequestsKept
<1>5. OutInv'
  BY <1>2, OutKept
<1>6. CountedInv'
  BY <1>1, <1>2, CountedKept
<1> QED BY <1>1, <1>3, <1>4, <1>5, <1>6

\* Sessions whose ages alone change.
LEMMA AgesOnly ==
  ASSUME SessionsInv, RequestsInv, CoveredInv, UsersGrow, NEW r, OthersFollow(r),
         r \in Requests => proc[r].at # "revoke", UNCHANGED <<drawn, unrevoked>>,
         \A id \in Ids : id <= lastId /\ users'[id] # NoRow => users'[id].epoch = users[id].epoch,
         sessions' \in [SessionIds -> Session \cup {NoSession}],
         \A s \in SessionIds : sessions'[s] = NoSession \/
           /\ sessions[s] # NoSession
           /\ sessions'[s].user = sessions[s].user /\ sessions'[s].serial = sessions[s].serial
           /\ sessions'[s].epoch = sessions[s].epoch
  PROVE  SessionsInv' /\ CoveredInv'
<1>1. ASSUME NEW s \in SessionIds, sessions'[s] # NoSession
      PROVE  /\ MadeFor(sessions'[s], users', lastId')
             /\ Covered(s, sessions'[s], proc', users', unrevoked')
  <2>1. /\ sessions[s] # NoSession
        /\ sessions'[s].user = sessions[s].user /\ sessions'[s].serial = sessions[s].serial
        /\ sessions'[s].epoch = sessions[s].epoch
    BY <1>1
  <2>2. sessions[s].user \in Ids /\ sessions[s].epoch \in Nat /\ MadeFor(sessions[s], users, lastId)
    BY <2>1, NoneIsNone DEF SessionsInv, SessionGood, Session
  <2>3. MadeFor(sessions[s], users', lastId')
    BY <2>2, MadeForKept DEF UsersGrow
  <2>4. MadeFor(sessions'[s], users', lastId')
    BY <2>1, <2>3 DEF MadeFor
  <2>5. users'[sessions[s].user] # NoRow =>
          users'[sessions[s].user].epoch = users[sessions[s].user].epoch
    BY <2>2 DEF MadeFor
  <2>6. Covered(s, sessions'[s], proc', users', unrevoked')
    BY <2>1, <2>5, CoveredKept
  <2> QED BY <2>4, <2>6
<1>2. ASSUME NEW s \in SessionIds
      PROVE  /\ SessionGood(sessions'[s], users', lastId')
             /\ Covered(s, sessions'[s], proc', users', unrevoked')
  <2>1. CASE sessions'[s] = NoSession
    BY <2>1 DEF SessionGood, Covered
  <2>2. CASE sessions'[s] # NoSession
    BY <1>1, <2>2 DEF SessionGood
  <2> QED BY <2>1, <2>2
<1>3. drawn' \in SessionIds \cup {0}
  BY DEF SessionsInv
<1> QED BY <1>2, <1>3 DEF SessionsInv, CoveredInv

\* A session touched by a request that goes on as its user.
LEMMA PanelLookupStep ==
  ASSUME Inv, NEW r \in Requests, PanelLookup(r)
  PROVE  Inv'
<1> DEFINE q == proc[r]
           req == [q EXCEPT !.at = "ready", !.who = q.user, !.role = users[q.user].role,
                            !.pass = users[q.user].pass]
<1>1. q \in Request /\ RequestGood(q, users, lastId) /\ OutGood(q, users) /\ q.at = "lookup"
  BY DEF Inv, RequestsInv, OutInv, PanelLookup, At
<1>2. UNCHANGED <<users, lastId, accounts, drawn, cache, unrevoked>>
  BY DEF PanelLookup
<1>3. q.user \in Ids /\ q.user <= lastId /\ q.sid \in SessionIds
  BY <1>1 DEF RequestGood, HasUser
<1>4. CASE Enabled(q.user)
  <2>1. users[q.user] \in Row
    BY <1>3, <1>4, NoneIsNone DEF Enabled, Exists, Inv, UsersInv, UsersGood
  <2>2. /\ req.at = "ready" /\ req.user = q.user /\ req.who = q.user /\ req.out = q.out
        /\ req.role \in Roles /\ req.pass \in Passwords /\ req.sid = q.sid /\ req \in Request
    BY <1>1, <1>3, <2>1 DEF Request, Steps, Row
  <2>3. Goes(r, req)
    BY <1>4 DEF PanelLookup
  <2> HIDE DEF req
  <2>4. RequestGood(req, users, lastId) /\ Counted(req, users)
    BY <1>3, <2>2 DEF RequestGood, Counted, Doomed, HasUser
  <2>5. OutGood(req, users)
    BY <1>1, <1>4, <2>2 DEF OutGood, Enabled, Exists
  <2>6. sessions' = [sessions EXCEPT ![q.sid] =
                       IF sessions[q.sid] = NoSession THEN sessions[q.sid]
                       ELSE [sessions[q.sid] EXCEPT !.age = 0]]
    BY <1>4 DEF PanelLookup
  <2>7. \A x \in Session : /\ [x EXCEPT !.age = 0] \in Session
                           /\ [x EXCEPT !.age = 0].user = x.user
                           /\ [x EXCEPT !.age = 0].serial = x.serial
                           /\ [x EXCEPT !.age = 0].epoch = x.epoch
    BY IdsAreNumbers DEF Session
  <2> HIDE DEF q
  <2>8. /\ sessions' \in [SessionIds -> Session \cup {NoSession}]
        /\ \A s \in SessionIds : sessions'[s] = NoSession \/
             /\ sessions[s] # NoSession
             /\ sessions'[s].user = sessions[s].user /\ sessions'[s].serial = sessions[s].serial
             /\ sessions'[s].epoch = sessions[s].epoch
    BY <1>3, <2>6, <2>7 DEF Inv, SessionsInv
  <2>9. UsersGrow /\ OthersFollow(r)
    BY <1>2, <2>3, SameGrows, OneMoves DEF Inv, UsersGrow, UsersInv, Goes
  <2>10. SessionsInv' /\ CoveredInv'
    BY <1>1, <1>2, <2>8, <2>9, AgesOnly DEF Inv, q
  <2>11. unrevoked' \in SUBSET Ids
    BY <1>2 DEF Inv, RequestsInv
  <2> QED BY <1>2, <2>3, <2>4, <2>5, <2>10, <2>11, SessionsStep
<1>5. CASE ~Enabled(q.user)
  <2>1. Ends(r) /\ UNCHANGED sessions
    BY <1>5 DEF PanelLookup
  <2> QED BY <1>1, <1>2, <2>1, EndStep
<1> QED BY <1>4, <1>5

\* A login draws a session for the user as it is by now.
LEMMA LoginDrawsStep ==
  ASSUME Inv, NEW r \in Requests, LoginDraws(r)
  PROVE  Inv'
<1> DEFINE q == proc[r]  s0 == drawn + 1
           x == [user |-> q.user, age |-> 0, serial |-> q.serial,
                 epoch |-> IF users[q.user] # NoRow THEN users[q.user].epoch ELSE 0]
<1>1. q \in Request /\ RequestGood(q, users, lastId) /\ q.at = "login"
  BY DEF Inv, RequestsInv, LoginDraws, At
<1>2. UNCHANGED <<users, lastId, accounts, cache, unrevoked>> /\ Ends(r)
  BY DEF LoginDraws
<1>3. q.user \in Ids /\ q.user <= lastId /\ q.serial = q.user /\ q.user \in Nat
  BY <1>1, IdsAreNumbers DEF RequestGood, HasUser
<1>4. s0 \in SessionIds /\ drawn' = s0 /\ sessions' = [sessions EXCEPT ![s0] = x]
  BY DEF LoginDraws, DrawSession, Exists
<1>5. users[q.user] # NoRow => users[q.user].epoch \in Nat
  BY <1>3, NoneIsNone DEF Inv, UsersInv, UsersGood, Row
<1>6. /\ x \in Session /\ x.user = q.user /\ x.serial = q.serial
      /\ users[q.user] # NoRow => x.epoch = users[q.user].epoch
  BY <1>3, <1>5, IdsAreNumbers DEF Session
<1> HIDE DEF x, s0, q
<1>7. UsersGrow /\ OthersFollow(r)
  BY <1>2, SameGrows, OneMoves DEF Inv, UsersGrow, UsersInv, Goes, Ends
<1>8. /\ sessions'[s0] = x /\ sessions' \in [SessionIds -> Session \cup {NoSession}]
      /\ \A s \in SessionIds \ {s0} : sessions'[s] = sessions[s]
  BY <1>4, <1>6 DEF Inv, SessionsInv
<1>9. SessionsInv'
  <2>1. SessionGood(x, users, lastId)
    BY <1>3, <1>5, <1>6 DEF SessionGood, MadeFor
  <2>2. \A s \in SessionIds : SessionGood(sessions'[s], users', lastId')
    BY <1>2, <1>8, <2>1 DEF Inv, SessionsInv
  <2> QED BY <1>4, <1>8, <2>2 DEF SessionsInv
<1>10. CoveredInv'
  <2>1. Covered(s0, x, proc', users', unrevoked')
    BY <1>2, <1>6 DEF Covered
  <2>2. ASSUME NEW s \in SessionIds \ {s0} PROVE Covered(s, sessions'[s], proc', users', unrevoked')
    <3>1. CASE sessions[s] = NoSession
      BY <1>8, <3>1 DEF Covered
    <3>2. CASE sessions[s] # NoSession
      <4>1. sessions'[s].user = sessions[s].user /\ sessions'[s].epoch = sessions[s].epoch
        BY <1>8
      <4> QED BY <1>1, <1>2, <1>7, <3>2, <4>1, CoveredKept DEF Inv, q
    <3> QED BY <3>1, <3>2
  <2> QED BY <1>8, <2>1, <2>2 DEF CoveredInv
<1>11. RequestGood(Idle, users, lastId) /\ OutGood(Idle, users) /\ Counted(Idle, users)
  BY LastIdNat, IdleGood DEF Inv
<1>12. unrevoked' \in SUBSET Ids
  BY <1>2 DEF Inv, RequestsInv
<1> QED BY <1>2, <1>9, <1>10, <1>11, <1>12, SessionsStep DEF Ends

\* A logout takes a session away, which leaves less to be good and to be covered.
LEMMA LogoutStep ==
  ASSUME Inv, NEW s \in SessionIds, Logout(s)
  PROVE  Inv'
<1> PICK r : r \notin Requests
  BY NoSetContainsEverything
<1>1. UNCHANGED <<users, lastId, drawn, cache, proc, accounts, unrevoked>>
      /\ sessions' = [sessions EXCEPT ![s] = NoSession]
  BY DEF Logout
<1>2. UsersInv' /\ UsersGrow /\ Ages(users, lastId, users')
  BY <1>1, SameGrows DEF Inv, UsersInv, UsersGrow
<1>3. OthersFollow(r)
  BY <1>1 DEF OthersFollow, Follows, Inv, RequestsInv
<1>4. /\ sessions' \in [SessionIds -> Session \cup {NoSession}]
      /\ \A t \in SessionIds : sessions'[t] = NoSession \/ (sessions[t] # NoSession /\ sessions'[t] = sessions[t])
  BY <1>1 DEF Inv, SessionsInv
<1>5. SessionsInv' /\ CoveredInv'
  BY <1>1, <1>2, <1>3, <1>4, AgesOnly DEF Inv
<1>6. RequestsInv' /\ OutInv' /\ CountedInv'
  <2>1. starts' \in 0 .. MaxStarts
    BY IdsAreNumbers DEF Logout, Inv, RequestsInv
  <2> QED BY <1>1, <2>1 DEF Inv, RequestsInv, OutInv, CountedInv
<1>7. CacheInv'
  BY <1>1, <1>2, CacheSame DEF Inv
<1> QED BY <1>2, <1>5, <1>6, <1>7 DEF Inv

\* The sessions that a revocation leaves are those of others and the one it keeps, which
\* is of the epoch of the request from then on.
LEMMA RevokedMeans ==
  ASSUME Inv, NEW id \in Ids, NEW keep, NEW epoch \in Nat, sessions' = Revoked(id, keep, epoch)
  PROVE  /\ sessions' \in [SessionIds -> Session \cup {NoSession}]
         /\ \A s \in SessionIds : sessions[s].user # id => sessions'[s] = sessions[s]
         /\ \A s \in SessionIds \ {keep} : sessions[s].user = id => sessions'[s] = NoSession
         /\ \A s \in SessionIds : s = keep /\ sessions[s].user = id =>
              /\ sessions[s] \in Session /\ sessions'[s] \in Session
              /\ sessions'[s].user = id /\ sessions'[s].serial = sessions[s].serial
              /\ sessions'[s].epoch = IF epoch > sessions[s].epoch THEN epoch ELSE sessions[s].epoch
<1>1. ASSUME NEW s \in SessionIds, sessions[s].user = id
      PROVE  /\ sessions[s] \in Session
             /\ LET e == IF epoch > sessions[s].epoch THEN epoch ELSE sessions[s].epoch
                    x == [sessions[s] EXCEPT !.epoch = e]
                IN  x \in Session /\ x.user = id /\ x.serial = sessions[s].serial /\ x.epoch = e
  <2>1. sessions[s] \in Session
    BY <1>1, IdsAreNumbers DEF Inv, SessionsInv, NoSession
  <2> QED BY <1>1, <2>1 DEF Session
<1>2. \A s \in SessionIds : sessions[s] \in Session \cup {NoSession}
  BY DEF Inv, SessionsInv
<1>3. \A s \in SessionIds : sessions'[s] =
        IF sessions[s].user # id THEN sessions[s]
        ELSE IF s = keep
             THEN [sessions[s] EXCEPT !.epoch = IF epoch > sessions[s].epoch THEN epoch
                                                ELSE sessions[s].epoch]
             ELSE NoSession
  BY DEF Revoked
<1>4. \A s \in SessionIds : sessions'[s] \in Session \cup {NoSession}
  BY <1>1, <1>2, <1>3
<1>5. sessions' \in [SessionIds -> Session \cup {NoSession}]
  BY <1>4 DEF Revoked
<1> QED BY <1>1, <1>3, <1>5

\* A revocation: nothing that it leaves of its user is from before the last change, unless
\* another request is about to revoke it or failed to.
LEMMA RevokeStep ==
  ASSUME Inv, NEW r \in Requests, Revoke(r)
  PROVE  Inv'
<1> DEFINE q == proc[r]
<1>1. q \in Request /\ RequestGood(q, users, lastId) /\ q.at = "revoke"
  BY DEF Inv, RequestsInv, Revoke, At
<1>2. /\ UNCHANGED <<users, lastId, accounts, drawn, cache>> /\ Goes(r, Idle)
      /\ sessions' = Revoked(q.user, q.sid, q.epoch)
      /\ unrevoked' = IF q.sid = 0 THEN unrevoked \ {q.user} ELSE unrevoked
  BY DEF Revoke, ClearUser, Ends
<1>3. /\ q.user \in Ids /\ q.user <= lastId /\ q.epoch \in Nat
      /\ users[q.user] # NoRow => q.epoch <= users[q.user].epoch
  BY <1>1 DEF RequestGood, HasUser, Request
<1>4. UsersGrow /\ OthersFollow(r)
  BY <1>2, SameGrows, OneMoves DEF Inv, UsersGrow, UsersInv, Goes
<1> HIDE DEF q
<1>5. /\ sessions' \in [SessionIds -> Session \cup {NoSession}]
      /\ \A s \in SessionIds : sessions[s].user # q.user => sessions'[s] = sessions[s]
      /\ \A s \in SessionIds \ {q.sid} : sessions[s].user = q.user => sessions'[s] = NoSession
      /\ \A s \in SessionIds : s = q.sid /\ sessions[s].user = q.user =>
           /\ sessions[s] \in Session /\ sessions'[s] \in Session
           /\ sessions'[s].user = q.user /\ sessions'[s].serial = sessions[s].serial
           /\ sessions'[s].epoch = IF q.epoch > sessions[s].epoch THEN q.epoch ELSE sessions[s].epoch
  BY <1>2, <1>3, RevokedMeans
<1>6. ASSUME NEW s \in SessionIds, s = q.sid, sessions[s].user = q.user
      PROVE  /\ SessionGood(sessions'[s], users, lastId)
             /\ Covered(s, sessions'[s], proc', users', unrevoked')
  <2>1. sessions[s] \in Session /\ MadeFor(sessions[s], users, lastId)
    BY <1>5, <1>6, NoneIsNone DEF Inv, SessionsInv, SessionGood
  <2>2. sessions[s].epoch \in Nat /\ sessions'[s].epoch \in Nat
    BY <1>3, <1>5, <1>6, <2>1 DEF Session
  <2>3. users[q.user] # NoRow => users[q.user].epoch \in Nat
    BY <1>3, NoneIsNone DEF Inv, UsersInv, UsersGood, Row
  <2>4. SessionGood(sessions'[s], users, lastId)
    BY <1>3, <1>5, <1>6, <2>1, <2>2, <2>3 DEF SessionGood, MadeFor
  <2>5. q.sid # 0 /\ unrevoked' = unrevoked
    BY <1>2, <1>6, IdsAreNumbers
  <2>6. ASSUME users[q.user] # NoRow, sessions'[s].epoch # users[q.user].epoch,
               q.user \notin unrevoked
        PROVE  Pending(s, q.user, proc', users)
    <3>1. sessions[s].epoch # users[q.user].epoch
      BY <1>3, <1>5, <1>6, <2>1, <2>2, <2>3, <2>6 DEF MadeFor
    <3>2. Pending(s, q.user, proc, users)
      BY <1>6, <2>1, <2>6, <3>1, NoneIsNone DEF Inv, CoveredInv, Covered
    <3>3. PICK x \in Requests : /\ proc[x].at = "revoke" /\ proc[x].user = q.user
                                /\ proc[x].sid # s \/ proc[x].epoch = users[q.user].epoch
      BY <3>2 DEF Pending
    <3>4. x # r
      <4>1. CASE x = r
        <5>1. q.epoch = users[q.user].epoch
          BY <1>6, <3>3, <4>1 DEF q
        <5> QED BY <1>5, <1>6, <2>1, <2>2, <2>3, <2>6, <5>1 DEF MadeFor
      <4> QED BY <4>1
    <3>5. Follows(proc[x], proc'[x])
      BY <1>4, <3>4 DEF OthersFollow
    <3> QED BY <3>3, <3>5 DEF Follows, Pending
  <2>7. sessions'[s].user = q.user
    BY <1>5, <1>6
  <2>8. Covered(s, sessions'[s], proc', users, unrevoked)
    BY <2>6, <2>7 DEF Covered
  <2> QED BY <1>2, <2>4, <2>5, <2>8
<1>7. ASSUME NEW s \in SessionIds, sessions[s].user # q.user, sessions[s] # NoSession
      PROVE  Covered(s, sessions'[s], proc', users', unrevoked')
  <2>1. sessions'[s] = sessions[s]
    BY <1>5, <1>7
  <2>2. sessions[s].user \in unrevoked => sessions[s].user \in unrevoked'
    BY <1>2, <1>7
  <2> QED BY <1>2, <1>4, <1>7, <2>1, <2>2, CoveredKept DEF Inv, q
<1>8. ASSUME NEW s \in SessionIds
      PROVE  /\ SessionGood(sessions'[s], users, lastId)
             /\ Covered(s, sessions'[s], proc', users', unrevoked')
  <2>1. CASE sessions'[s] = NoSession
    BY <2>1 DEF SessionGood, Covered
  <2>2. CASE sessions'[s] # NoSession /\ sessions[s].user = q.user
    BY <1>5, <1>6, <2>2
  <2>3. CASE sessions'[s] # NoSession /\ sessions[s].user # q.user
    <3>1. sessions'[s] = sessions[s]
      BY <1>5, <2>3
    <3> QED BY <1>7, <2>3, <3>1 DEF Inv, SessionsInv
  <2> QED BY <2>1, <2>2, <2>3
<1>9. SessionsInv' /\ CoveredInv'
  BY <1>2, <1>5, <1>8 DEF Inv, SessionsInv, CoveredInv
<1>10. RequestGood(Idle, users, lastId) /\ OutGood(Idle, users) /\ Counted(Idle, users)
  BY LastIdNat, IdleGood DEF Inv
<1>11. unrevoked' \in SUBSET Ids
  BY <1>2 DEF Inv, RequestsInv
<1> QED BY <1>2, <1>9, <1>10, <1>11, SessionsStep

\* A user that is deleted loses its sessions first.
LEMMA DeleteRevokesStep ==
  ASSUME Inv, NEW r \in Requests, DeleteRevokes(r)
  PROVE  Inv'
<1> DEFINE q == proc[r]  req == [q EXCEPT !.at = "drop"]
<1>1. /\ q \in Request /\ RequestGood(q, users, lastId) /\ OutGood(q, users)
      /\ Counted(q, users) /\ q.at = "delete"
  BY DEF Inv, RequestsInv, OutInv, CountedInv, DeleteRevokes, At
<1>2. /\ UNCHANGED <<users, lastId, accounts, drawn, cache>> /\ Goes(r, req)
      /\ sessions' = Revoked(q.user, 0, 0) /\ unrevoked' = unrevoked \ {q.user}
  BY DEF DeleteRevokes
<1>3. q.user \in Ids /\ q.user <= lastId
  BY <1>1 DEF RequestGood, HasUser
<1>4. /\ req.at = "drop" /\ req.user = q.user /\ req.out = q.out /\ req.who = q.who
      /\ req.outdated = q.outdated /\ req \in Request
  BY <1>1 DEF Request, Steps
<1> HIDE DEF req
<1>5. RequestGood(req, users, lastId) /\ OutGood(req, users) /\ Counted(req, users)
  BY <1>1, <1>3, <1>4 DEF RequestGood, OutGood, Counted, Doomed, HasUser
<1>6. UsersGrow /\ OthersFollow(r)
  BY <1>2, SameGrows, OneMoves DEF Inv, UsersGrow, UsersInv, Goes
<1> HIDE DEF q
<1>7. /\ sessions' \in [SessionIds -> Session \cup {NoSession}]
      /\ \A s \in SessionIds : sessions[s].user # q.user => sessions'[s] = sessions[s]
      /\ \A s \in SessionIds : sessions[s].user = q.user => sessions'[s] = NoSession
  <2>1. 0 \in Nat /\ SessionIds \ {0} = SessionIds
    BY IdsAreNumbers
  <2> QED BY <1>2, <1>3, <2>1, RevokedMeans
<1>8. ASSUME NEW s \in SessionIds
      PROVE  /\ SessionGood(sessions'[s], users, lastId)
             /\ Covered(s, sessions'[s], proc', users', unrevoked')
  <2>1. CASE sessions'[s] = NoSession
    BY <2>1 DEF SessionGood, Covered
  <2>2. CASE sessions'[s] # NoSession
    <3>1. sessions'[s] = sessions[s] /\ sessions[s].user # q.user
      BY <1>7, <2>2
    <3>2. sessions[s].user \in unrevoked => sessions[s].user \in unrevoked'
      BY <1>2, <3>1
    <3>3. Covered(s, sessions'[s], proc', users', unrevoked')
      BY <1>1, <1>2, <1>6, <2>2, <3>1, <3>2, CoveredKept DEF Inv, q
    <3> QED BY <3>1, <3>3 DEF Inv, SessionsInv
  <2> QED BY <2>1, <2>2
<1>9. SessionsInv' /\ CoveredInv'
  BY <1>2, <1>7, <1>8 DEF Inv, SessionsInv, CoveredInv
<1>10. unrevoked' \in SUBSET Ids
  BY <1>2 DEF Inv, RequestsInv
<1> QED BY <1>2, <1>5, <1>9, <1>10, SessionsStep

\* A revocation that fails is counted among those that did.
LEMMA StatementFailsStep ==
  ASSUME Inv, NEW r \in Requests, StatementFails(r)
  PROVE  Inv'
<1> DEFINE q == proc[r]
<1>1. /\ q \in Request /\ RequestGood(q, users, lastId) /\ OutGood(q, users) /\ Counted(q, users)
  BY DEF Inv, RequestsInv, OutInv, CountedInv
<1>2. /\ UNCHANGED <<users, lastId, accounts, sessions, drawn, cache>>
      /\ unrevoked' = IF q.at = "revoke" THEN unrevoked \cup {q.user} ELSE unrevoked
  BY DEF StatementFails, ClearUser
<1>3. PICK req : Goes(r, req) /\ RequestGood(req, users, lastId) /\ OutGood(req, users)
                 /\ Counted(req, users)
  <2>1. CASE q.at = "delete"
    <3> DEFINE req == [q EXCEPT !.at = "drop"]
    <3>1. /\ req.at = "drop" /\ req.user = q.user /\ req.out = q.out /\ req.who = q.who
          /\ req.outdated = q.outdated /\ req \in Request
      BY <1>1 DEF Request, Steps
    <3>2. Goes(r, req)
      BY <2>1 DEF StatementFails
    <3>3. q.user \in Ids /\ q.user <= lastId
      BY <1>1, <2>1 DEF RequestGood, HasUser
    <3> HIDE DEF req
    <3>4. RequestGood(req, users, lastId) /\ OutGood(req, users) /\ Counted(req, users)
      BY <1>1, <2>1, <3>1, <3>3 DEF RequestGood, OutGood, Counted, Doomed, HasUser
    <3> QED BY <3>2, <3>4
  <2>2. CASE q.at # "delete"
    <3>1. Goes(r, Idle)
      BY <2>2 DEF StatementFails, Ends
    <3>2. RequestGood(Idle, users, lastId) /\ OutGood(Idle, users) /\ Counted(Idle, users)
      BY LastIdNat, IdleGood DEF Inv
    <3> QED BY <3>1, <3>2
  <2> QED BY <2>1, <2>2
<1>4. UsersGrow /\ OthersFollow(r)
  BY <1>2, <1>3, SameGrows, OneMoves DEF Inv, UsersGrow, UsersInv, Goes
<1>5. SessionsInv'
  BY <1>2, <1>4, SessionsSame DEF Inv
<1>6. CoveredInv'
  <2>1. ASSUME NEW s \in SessionIds, sessions[s] # NoSession
        PROVE  Covered(s, sessions'[s], proc', users', unrevoked')
    <3>1. /\ sessions[s].user \in unrevoked => sessions[s].user \in unrevoked'
          /\ proc[r].at # "revoke" \/ proc[r].user # sessions[s].user
             \/ sessions[s].user \in unrevoked'
      BY <1>2
    <3> QED BY <1>2, <1>4, <2>1, <3>1, CoveredKept DEF Inv
  <2>2. ASSUME NEW s \in SessionIds, sessions[s] = NoSession
        PROVE  Covered(s, sessions'[s], proc', users', unrevoked')
    BY <1>2, <2>2 DEF Covered
  <2> QED BY <2>1, <2>2 DEF CoveredInv
<1>7. unrevoked' \in SUBSET Ids
  <2>1. unrevoked \in SUBSET Ids
    BY DEF Inv, RequestsInv
  <2>2. q.at = "revoke" => q.user \in Ids
    BY <1>1 DEF RequestGood, HasUser
  <2> QED BY <1>2, <2>1, <2>2
<1> QED BY <1>2, <1>3, <1>5, <1>6, <1>7, SessionsStep

-----------------------------------------------------------------------------
(* The steps that change a row.                                            *)

\* The row stays that of the same account, with a name of its own.
Replaces(id, row) ==
  row # NoRow =>
    /\ users[id] # NoRow
    /\ row.serial = users[id].serial /\ row.role = users[id].role
    /\ users[id].epoch <= row.epoch
    /\ row.epoch = users[id].epoch => row.pass = users[id].pass
    /\ row.since = 0 \/ (row.since = users[id].since /\ row.epoch = users[id].epoch)
    /\ \A other \in Ids \ {id} : users[other] # NoRow => users[other].name # row.name

\* What is left to show of a step that changes a row and a request.
LEMMA RowStep ==
  ASSUME Inv, NEW r \in Requests, NEW id \in Ids, NEW row \in Row0,
         users' = [users EXCEPT ![id] = row], Replaces(id, row),
         UNCHANGED <<lastId, sessions, drawn, cache, accounts, unrevoked>>,
         OthersFollow(r), proc' \in [Requests -> Request], starts' \in 0 .. MaxStarts,
         UsersGrow => /\ RequestGood(proc'[r], users', lastId') /\ OutInv' /\ CountedInv'
                      /\ CoveredInv'
  PROVE  Inv'
<1>1. UsersGrow /\ Ages(users, lastId, users')
  BY WriteGrows DEF Inv, UsersInv, UsersGrow, Replaces
<1>2. UsersInv'
  BY <1>1 DEF Inv, UsersInv, UsersGrow, Grows
<1>3. SessionsInv' /\ CacheInv'
  BY <1>1, SessionsSame, CacheSame DEF Inv
<1>4. RequestsInv'
  <2>1. unrevoked' \in SUBSET Ids
    BY DEF Inv, RequestsInv
  <2> QED BY <1>1, <2>1, RequestsKept DEF Inv
<1> QED BY <1>1, <1>2, <1>3, <1>4 DEF Inv

\* What a row keeps when it gets a password or is edited.
LEMMA PasswordTypes ==
  ASSUME NEW row \in Row, NEW p \in Passwords
  PROVE  LET new == WithPassword(row, p)
         IN  /\ new \in Row /\ new # NoRow /\ new.epoch = row.epoch + 1 /\ new.since = 0
             /\ new.role = row.role /\ new.serial = row.serial
             /\ new.name = row.name /\ new.disabled = row.disabled
<1>1. row.epoch + 1 \in Nat /\ 0 \in 0 .. TTL
  BY IdsAreNumbers DEF Row
<1>2. WithPassword(row, p) = [row EXCEPT !.pass = p, !.epoch = row.epoch + 1, !.since = 0]
  BY DEF WithPassword
<1>3. WithPassword(row, p) \in Row
  BY <1>1, <1>2 DEF Row
<1> QED BY <1>2, <1>3, NoneIsNone DEF Row

\* What a PUT makes of a row: disabling begins a new epoch, and renaming does not.
LEMMA EditTypes ==
  ASSUME NEW row \in Row, NEW n \in Names, NEW off \in BOOLEAN
  PROVE  LET new == Edited(row, n, off)
         IN  /\ new \in Row /\ new # NoRow
             /\ new.epoch = IF off THEN row.epoch + 1 ELSE row.epoch
             /\ new.since = IF off THEN 0 ELSE row.since
             /\ new.pass = row.pass /\ new.role = row.role /\ new.serial = row.serial
             /\ new.name = n /\ new.disabled = off
<1> DEFINE epoch == IF off THEN row.epoch + 1 ELSE row.epoch
           since == IF off THEN 0 ELSE row.since
<1>1. epoch \in Nat /\ since \in 0 .. TTL
  BY IdsAreNumbers DEF Row
<1>2. Edited(row, n, off) = [row EXCEPT !.name = n, !.disabled = off, !.epoch = epoch, !.since = since]
  BY DEF Edited
<1> HIDE DEF epoch, since
<1>3. Edited(row, n, off) \in Row
  BY <1>1, <1>2 DEF Row
<1> QED BY <1>2, <1>3, NoneIsNone DEF Row, epoch, since

\* The covering of a user whose sessions are about to be revoked by a request that has
\* seen its last change.
LEMMA CoveredByRequest ==
  ASSUME Inv, UsersGrow, NEW r \in Requests, NEW id \in Ids, OthersFollow(r),
         UNCHANGED <<sessions, unrevoked>>, proc[r].at # "revoke",
         \A other \in Ids \ {id} : users'[other] = users[other],
         proc'[r].at = "revoke", proc'[r].user = id,
         users'[id] # NoRow => proc'[r].sid = 0 \/ proc'[r].epoch = users'[id].epoch
  PROVE  CoveredInv'
<1>1. ASSUME NEW s \in SessionIds, sessions[s] # NoSession, sessions[s].user # id
      PROVE  Covered(s, sessions'[s], proc', users', unrevoked')
  <2>1. sessions[s].user \in Ids
    BY <1>1, NoneIsNone DEF Inv, SessionsInv, SessionGood, MadeFor, Session
  <2> QED BY <1>1, <2>1, CoveredKept DEF Inv
<1>2. ASSUME NEW s \in SessionIds, sessions[s] # NoSession, sessions[s].user = id
      PROVE  Covered(s, sessions'[s], proc', users', unrevoked')
  <2>1. s # 0
    BY IdsAreNumbers
  <2> QED BY <1>2, <2>1 DEF Covered, Pending
<1>3. ASSUME NEW s \in SessionIds, sessions[s] = NoSession
      PROVE  Covered(s, sessions'[s], proc', users', unrevoked')
  BY <1>3 DEF Covered
<1> QED BY <1>1, <1>2, <1>3 DEF CoveredInv

\* A password is changed, and a request that revokes the sessions follows.
LEMMA PasswordStep ==
  ASSUME Inv, NEW r \in Requests, NEW id \in Ids, NEW p \in Passwords, id <= lastId,
         users' = [users EXCEPT ![id] = IF users[id] = NoRow THEN users[id]
                                        ELSE WithPassword(users[id], p)],
         UNCHANGED <<lastId, sessions, drawn, cache, accounts, unrevoked>>,
         NEW req \in Request, Goes(r, req), proc[r].at # "revoke",
         req.at = "revoke", req.user = id, OutGood(req, users),
         \/ req.sid = 0 /\ req.epoch = 0
         \/ users[id] # NoRow => req.epoch = users[id].epoch + 1
  PROVE  Inv'
<1> DEFINE row == IF users[id] = NoRow THEN users[id] ELSE WithPassword(users[id], p)
<1>1. users[id] # NoRow => users[id] \in Row
  BY NoneIsNone DEF Inv, UsersInv, UsersGood
<1>3. /\ row \in Row0
      /\ users[id] = NoRow => row = NoRow
      /\ row # NoRow => /\ users[id] # NoRow
                        /\ row.serial = users[id].serial /\ row.role = users[id].role
                        /\ row.epoch = users[id].epoch + 1 /\ row.since = 0
                        /\ row.name = users[id].name /\ row.disabled = users[id].disabled
  <2>1. CASE users[id] = NoRow
    BY <2>1 DEF Row0
  <2>2. CASE users[id] # NoRow
    BY <1>1, <2>2, PasswordTypes DEF Row0
  <2> QED BY <2>1, <2>2
<1>4. users[id] # NoRow => users[id].epoch \in Nat
  BY <1>1 DEF Row
<1>5. users' = [users EXCEPT ![id] = row]
  OBVIOUS
<1> HIDE DEF row
<1>6. users'[id] = row /\ \A other \in Ids \ {id} : users'[other] = users[other]
  BY <1>5 DEF Inv, UsersInv, UsersGood
<1>7. \A other \in Ids \ {id} : users[other] # NoRow /\ row # NoRow => users[other].name # row.name
  BY <1>3 DEF Inv, UsersInv, UsersGood
<1>8. OthersFollow(r) /\ proc'[r] = req /\ proc' \in [Requests -> Request]
  BY OneMoves DEF Inv, Goes
<1>9. starts' \in 0 .. MaxStarts
  BY StartsKept DEF Inv
<1>10. AdminsOf(users') = AdminsOf(users)
  <2>1. row # NoRow <=> users[id] # NoRow
    BY <1>1, <1>3, PasswordTypes DEF row
  <2>2. \A other \in Ids : other \in AdminsOf(users') <=> other \in AdminsOf(users)
    BY <1>3, <1>6, <2>1 DEF AdminsOf
  <2> QED BY <2>2 DEF AdminsOf
<1>11. OutInv'
  <2>1. \A other \in Ids : users'[other] # NoRow =>
          users[other] # NoRow /\ users'[other].disabled = users[other].disabled
    BY <1>3, <1>6
  <2>2. OutGood(req, users')
    <3>1. req.out \subseteq Ids /\ req.at # "insert"
      BY DEF Request
    <3>2. req.who \notin req.out /\ \A other \in req.out : users[other] # NoRow => users[other].disabled
      BY DEF OutGood
    <3>3. \A other \in req.out : users'[other] # NoRow => users'[other].disabled
      BY <2>1, <3>1, <3>2
    <3> QED BY <3>1, <3>2, <3>3 DEF OutGood
  <2>3. \A q \in Requests : proc'[q].out \subseteq Ids
    BY <1>8 DEF Request
  <2> QED BY <1>8, <2>1, <2>2, <2>3, OutKept DEF Inv
<1>12. ASSUME UsersGrow PROVE RequestGood(req, users', lastId') /\ CountedInv' /\ CoveredInv'
  <2>1. RequestGood(req, users', lastId')
    BY <1>3, <1>4, <1>6 DEF RequestGood
  <2>2. Counted(req, users')
    BY DEF Counted, Doomed
  <2>3. CountedInv'
    BY <1>8, <1>10, <1>12, <2>2, CountedKept DEF Inv
  <2>4. CoveredInv'
    BY <1>3, <1>6, <1>8, <1>12, CoveredByRequest
  <2> QED BY <2>1, <2>3, <2>4
<1>13. Replaces(id, row)
  BY <1>3, <1>4, <1>7 DEF Replaces
<1>14. UsersGrow => /\ RequestGood(proc'[r], users', lastId') /\ OutInv' /\ CountedInv'
                    /\ CoveredInv'
  BY <1>8, <1>11, <1>12
<1> QED BY <1>3, <1>5, <1>8, <1>9, <1>13, <1>14, RowStep

\* A user's own change of the password, which spares the session that made it.
LEMMA OwnPasswordStep ==
  ASSUME Inv, NEW r \in Requests, NEW current \in Passwords, NEW p \in Passwords,
         OwnPassword(r, current, p)
  PROVE  Inv'
<1> DEFINE q == proc[r]
           epoch == IF users[q.who] # NoRow THEN users[q.who].epoch + 1 ELSE 0
           req == [Idle EXCEPT !.at = "revoke", !.user = q.who, !.sid = q.sid, !.epoch = epoch]
<1>1. q \in Request /\ RequestGood(q, users, lastId) /\ q.at = "ready"
  BY DEF Inv, RequestsInv, OwnPassword, At
<1>2. q.who \in Ids /\ q.who <= lastId /\ q.sid \in SessionIds
  BY <1>1 DEF RequestGood
<1>3. epoch \in Nat
  BY <1>2, NoneIsNone DEF Inv, UsersInv, UsersGood, Row
<1>4. Goes(r, req)
  BY DEF OwnPassword, Exists
<1>5. /\ users' = [users EXCEPT ![q.who] = IF users[q.who] = NoRow THEN users[q.who]
                                           ELSE WithPassword(users[q.who], p)]
      /\ UNCHANGED <<lastId, sessions, drawn, cache, accounts, unrevoked>>
  BY DEF OwnPassword
<1> HIDE DEF epoch
<1>6. /\ req.at = "revoke" /\ req.user = q.who /\ req.epoch = epoch /\ req.out = {}
      /\ req \in Request
  BY <1>2, <1>3 DEF Idle, Request, Steps
<1> HIDE DEF req
<1>7. OutGood(req, users)
  BY <1>6 DEF OutGood
<1>8. users[q.who] # NoRow => req.epoch = users[q.who].epoch + 1
  BY <1>6 DEF epoch
<1> QED BY <1>1, <1>2, <1>4, <1>5, <1>6, <1>7, <1>8, PasswordStep

\* A password set by an administrator or the command, which spares none.
LEMMA ResetPasswordStep ==
  ASSUME Inv, NEW r \in Requests, NEW p \in Passwords, ResetPassword(r, p)
  PROVE  Inv'
<1> DEFINE q == proc[r]
           req == [q EXCEPT !.at = "revoke", !.role = ""]
<1>1. q \in Request /\ RequestGood(q, users, lastId) /\ OutGood(q, users) /\ q.at = "target"
  BY DEF Inv, RequestsInv, OutInv, ResetPassword, At
<1>2. q.user \in Ids /\ q.user <= lastId /\ q.sid = 0 /\ q.epoch = 0
  BY <1>1 DEF RequestGood, HasUser
<1>3. Goes(r, req)
  BY DEF ResetPassword
<1>4. /\ users' = [users EXCEPT ![q.user] = IF users[q.user] = NoRow THEN users[q.user]
                                            ELSE WithPassword(users[q.user], p)]
      /\ UNCHANGED <<lastId, sessions, drawn, cache, accounts, unrevoked>>
  BY DEF ResetPassword
<1>5. /\ req.at = "revoke" /\ req.user = q.user /\ req.epoch = 0 /\ req.sid = 0
      /\ req.out = q.out /\ req.who = q.who /\ req \in Request
  BY <1>1, <1>2 DEF Request, Steps
<1> HIDE DEF req
<1>6. OutGood(req, users)
  BY <1>1, <1>5 DEF OutGood
<1> QED BY <1>1, <1>2, <1>3, <1>4, <1>5, <1>6, PasswordStep

\* The two ways in which others move.
LEMMA MovesFollow ==
  ASSUME NEW q \in Request, NEW b \in BOOLEAN, NEW s \in SUBSET q.out
  PROVE  /\ (q.outdated => b) => Follows(q, [q EXCEPT !.outdated = b])
         /\ [q EXCEPT !.outdated = b].outdated = b
         /\ Follows(q, [q EXCEPT !.out = s]) /\ [q EXCEPT !.out = s].out = s
<1>1. q.outdated \in BOOLEAN /\ q.out \in SUBSET Ids
  BY DEF Request
<1>2. [q EXCEPT !.outdated = b] \in Request /\ [q EXCEPT !.out = s] \in Request
  BY <1>1 DEF Request
<1>3. /\ [q EXCEPT !.outdated = b].outdated = b /\ [q EXCEPT !.outdated = b].out = q.out
      /\ [q EXCEPT !.out = s].out = s /\ [q EXCEPT !.out = s].outdated = q.outdated
  BY DEF Request
<1>4. (q.outdated => b) => Follows(q, [q EXCEPT !.outdated = b])
  BY <1>2, <1>3 DEF Follows
<1>5. Follows(q, [q EXCEPT !.out = s])
  BY <1>2, <1>3 DEF Follows
<1> QED BY <1>3, <1>4, <1>5

\* All that have counted the administrators are told that one goes.
LEMMA WithoutAdminMoves ==
  ASSUME RequestsInv, NEW r \in Requests, NEW next \in Request, WithoutAdmin(r, next)
  PROVE  /\ OthersFollow(r) /\ proc'[r] = next /\ proc' \in [Requests -> Request]
         /\ starts' \in 0 .. MaxStarts
         /\ \A q \in Requests \ {r} : Doomed(proc[q]) => proc'[q].outdated
<1>1. ASSUME NEW q \in Requests \ {r}
      PROVE  Follows(proc[q], proc'[q]) /\ (Doomed(proc[q]) => proc'[q].outdated)
  <2> DEFINE b == proc[q].outdated \/ proc[q].at \in {"delete", "drop", "put"}
  <2>1. proc'[q] = [proc[q] EXCEPT !.outdated = b] /\ b \in BOOLEAN /\ proc[q] \in Request
    BY DEF WithoutAdmin, RequestsInv, Request
  <2>2. (proc[q].outdated => b) /\ (Doomed(proc[q]) => b)
    BY DEF Doomed
  <2> HIDE DEF b
  <2>3. proc[q].out \in SUBSET proc[q].out
    OBVIOUS
  <2>4. /\ Follows(proc[q], [proc[q] EXCEPT !.outdated = b])
        /\ [proc[q] EXCEPT !.outdated = b].outdated = b
    <3>1. b \in BOOLEAN /\ proc[q] \in Request /\ proc[q].out \in SUBSET proc[q].out
      BY <2>1, <2>3
    <3>2. proc[q].outdated => b
      BY <2>2
    <3> QED BY ONLY <3>1, <3>2, MovesFollow
  <2> QED BY <2>1, <2>2, <2>4
<1>2. proc'[r] = next /\ DOMAIN proc' = Requests /\ proc' = [q \in Requests |-> proc'[q]]
  BY DEF WithoutAdmin
<1>3. proc' \in [Requests -> Request]
  BY <1>1, <1>2 DEF Follows
<1>4. starts' \in 0 .. MaxStarts
  BY DEF WithoutAdmin, RequestsInv
<1> QED BY <1>1, <1>2, <1>3, <1>4 DEF OthersFollow

\* All that began while a user was shut out are told that it is let in.
LEMMA LettingInMoves ==
  ASSUME RequestsInv, NEW r, NEW id,
         proc' = [q \in Requests |-> IF q = r THEN proc'[r]
                                     ELSE [proc[q] EXCEPT !.out = proc[q].out \ {id}]],
         r \in Requests => proc'[r] \in Request
  PROVE  /\ OthersFollow(r) /\ proc' \in [Requests -> Request]
         /\ \A q \in Requests \ {r} : id \notin proc'[q].out
<1>1. ASSUME NEW q \in Requests \ {r}
      PROVE  Follows(proc[q], proc'[q]) /\ id \notin proc'[q].out
  <2>1. proc'[q] = [proc[q] EXCEPT !.out = proc[q].out \ {id}] /\ proc[q] \in Request
    BY DEF RequestsInv
  <2> DEFINE s == proc[q].out \ {id}
  <2>2. s \in SUBSET proc[q].out /\ id \notin s
    OBVIOUS
  <2>3. proc'[q] = [proc[q] EXCEPT !.out = s]
    BY <2>1
  <2> HIDE DEF s
  <2>4. /\ Follows(proc[q], [proc[q] EXCEPT !.out = s])
        /\ [proc[q] EXCEPT !.out = s].out = s
    <3>1. proc[q] \in Request /\ s \in SUBSET proc[q].out /\ TRUE \in BOOLEAN
      BY <2>1, <2>2
    <3> QED BY ONLY <3>1, MovesFollow
  <2> QED BY <2>2, <2>3, <2>4
<1>2. \A q \in Requests : proc'[q] \in Request
  BY <1>1 DEF Follows
<1>3. proc' \in [Requests -> Request]
  BY <1>2
<1> QED BY <1>1, <1>3 DEF OthersFollow

\* What the request does when its row is gone or the name is taken.
LEMMA PutNothing ==
  ASSUME Inv, NEW r \in Requests, At(r, "put"), Goes(r, AfterPut(proc[r])) \/ Ends(r),
         UNCHANGED <<users, lastId, accounts, sessions, drawn, cache, unrevoked>>,
         users[proc[r].user] = NoRow \/ Ends(r)
  PROVE  Inv'
<1> DEFINE q == proc[r]  req == [Idle EXCEPT !.at = "revoke", !.user = q.user]
<1>1. q \in Request /\ RequestGood(q, users, lastId) /\ q.at = "put"
  BY DEF Inv, RequestsInv, At
<1>2. q.user \in Ids /\ q.user <= lastId
  BY <1>1 DEF RequestGood, HasUser
<1>3. CASE Ends(r)
  BY <1>1, <1>3, EndStep
<1>4. CASE ~Ends(r)
  <2>1. Goes(r, req) /\ users[q.user] = NoRow
    BY <1>4 DEF AfterPut, Ends
  <2>2. req.at = "revoke" /\ req.user = q.user /\ req.out = {} /\ req \in Request
    BY <1>2 DEF Idle, Request, Steps
  <2> HIDE DEF req
  <2>3. RequestGood(req, users, lastId) /\ OutGood(req, users) /\ Counted(req, users)
    BY <1>2, <2>1, <2>2 DEF RequestGood, OutGood, Counted, Doomed, HasUser
  <2> QED BY <1>1, <2>1, <2>3, MoveStep
<1> QED BY <1>3, <1>4

\* A row is edited under a name that no other row has.
LEMMA PutWrites ==
  ASSUME Inv, NEW r \in Requests, At(r, "put"), Exists(proc[r].user),
         ~Taken(proc[r].name, proc[r].user),
         users' = [users EXCEPT ![proc[r].user] = Edited(@, proc[r].name, proc[r].off)],
         IF proc[r].off /\ proc[r].user \in EnabledAdmins
         THEN WithoutAdmin(r, AfterPut(proc[r]))
         ELSE IF proc[r].off THEN Goes(r, AfterPut(proc[r]))
                             ELSE LettingIn(r, AfterPut(proc[r]), proc[r].user),
         UNCHANGED <<lastId, sessions, drawn, cache, accounts, unrevoked>>
  PROVE  Inv'
<1> DEFINE q == proc[r]  id == q.user  row == Edited(users[id], q.name, q.off)
           req == AfterPut(q)
<1>1. q \in Request /\ RequestGood(q, users, lastId) /\ q.at = "put"
  BY DEF Inv, RequestsInv, At
<1>2. id \in Ids /\ id <= lastId /\ q.name \in Names /\ q.off \in BOOLEAN
  BY <1>1 DEF RequestGood, HasUser, Request
<1>3. users[id] \in Row /\ users[id] # NoRow /\ users[id].epoch \in Nat
  BY <1>2, NoneIsNone DEF Exists, Inv, UsersInv, UsersGood, Row
<1>4. /\ row \in Row /\ row # NoRow
      /\ row.epoch = IF q.off THEN users[id].epoch + 1 ELSE users[id].epoch
      /\ row.since = IF q.off THEN 0 ELSE users[id].since
      /\ row.pass = users[id].pass /\ row.role = users[id].role /\ row.serial = users[id].serial
      /\ row.name = q.name /\ row.disabled = q.off
  BY <1>2, <1>3, EditTypes
<1>5. users' = [users EXCEPT ![id] = row]
  OBVIOUS
<1>6. req \in Request /\ req.out = {} /\ req.who = 0
      /\ (q.off => req.at = "revoke" /\ req.user = id /\ req.sid = 0 /\ req.epoch = 0)
      /\ (~q.off => req = Idle /\ req.at = "idle")
  <2>1. CASE q.off
    BY <1>2, <2>1 DEF AfterPut, Idle, Request, Steps
  <2>2. CASE ~q.off
    BY <2>2 DEF AfterPut, Idle, Request, Steps
  <2> QED BY <2>1, <2>2
<1>7. ~Doomed(req) /\ req.at # "insert"
  BY <1>2, <1>6 DEF Doomed
<1>8. IF q.off /\ id \in EnabledAdmins THEN WithoutAdmin(r, req)
      ELSE IF q.off THEN Goes(r, req) ELSE LettingIn(r, req, id)
  OBVIOUS
<1>9. Exists(id) /\ ~Taken(q.name, id)
  OBVIOUS
<1> HIDE DEF row, req, id, q
<1>10. users'[id] = row /\ \A other \in Ids \ {id} : users'[other] = users[other]
  BY <1>2, <1>5 DEF Inv, UsersInv, UsersGood
<1>11. Replaces(id, row)
  <2>1. \A other \in Ids \ {id} : users[other] # NoRow => users[other].name # row.name
    BY <1>4, <1>9 DEF Taken, Named, Exists
  <2> QED BY <1>3, <1>4, <1>9, <2>1 DEF Replaces, Exists
<1>12. EnabledAdmins = AdminsOf(users)
  BY DEF EnabledAdmins, AdminsOf, Exists
<1>13. id \notin AdminsOf(users) \/ ~q.off => AdminsOf(users) \subseteq AdminsOf(users')
  BY <1>3, <1>4, <1>10 DEF AdminsOf
<1>14. /\ OthersFollow(r) /\ proc'[r] = req /\ proc' \in [Requests -> Request]
       /\ starts' \in 0 .. MaxStarts
       /\ \A p \in Requests \ {r} : Doomed(proc[p]) =>
            proc'[p].outdated \/ AdminsOf(users) \subseteq AdminsOf(users')
       /\ \A p \in Requests \ {r} : ~q.off => id \notin proc'[p].out
  <2>1. CASE q.off /\ id \in EnabledAdmins
    <3>1. WithoutAdmin(r, req)
      BY <1>8, <2>1
    <3> QED BY <1>6, <2>1, <3>1, WithoutAdminMoves DEF Inv
  <2>2. CASE q.off /\ id \notin EnabledAdmins
    <3>1. Goes(r, req)
      BY <1>8, <2>2
    <3>2. starts' \in 0 .. MaxStarts
      BY <3>1, StartsKept DEF Inv
    <3> QED BY <1>6, <1>12, <1>13, <2>2, <3>1, <3>2, OneMoves DEF Inv, Goes
  <2>3. CASE ~q.off
    <3>1. LettingIn(r, req, id)
      BY <1>8, <2>3
    <3>2. proc'[r] = req
      BY <3>1 DEF LettingIn
    <3>3. proc' = [p \in Requests |-> IF p = r THEN proc'[r]
                                      ELSE [proc[p] EXCEPT !.out = proc[p].out \ {id}]]
      BY <3>1, <3>2 DEF LettingIn
    <3>4. starts' \in 0 .. MaxStarts
      BY <3>1 DEF LettingIn, Inv, RequestsInv
    <3>5. /\ OthersFollow(r) /\ proc' \in [Requests -> Request]
          /\ \A p \in Requests \ {r} : id \notin proc'[p].out
      <4>1. RequestsInv /\ proc'[r] \in Request
        BY <1>6, <3>2 DEF Inv
      <4> HIDE DEF Inv
      <4> QED BY <3>3, <4>1, LettingInMoves
    <3> QED BY <1>13, <2>3, <3>2, <3>4, <3>5
  <2> QED BY <2>1, <2>2, <2>3
<1>15. OutInv'
  <2>1. OutGood(req, users')
    BY <1>6, <1>7 DEF OutGood
  <2>2. \A p \in Requests : proc'[p].out \subseteq Ids
    BY <1>14 DEF Request
  <2>3. \A p \in Requests \ {r} : \A other \in proc'[p].out :
          users'[other] # NoRow /\ ~users'[other].disabled => users[other] # NoRow /\ ~users[other].disabled
    BY <1>4, <1>10, <1>14, <2>2
  <2> QED BY <1>14, <2>1, <2>3, OutKept DEF Inv
<1>16. ASSUME UsersGrow
       PROVE  RequestGood(proc'[r], users', lastId') /\ CountedInv' /\ CoveredInv'
  <2>1. RequestGood(req, users', lastId')
    <3>1. CASE q.off
      BY <1>2, <1>3, <1>4, <1>6, <1>10, <3>1 DEF RequestGood, HasUser
    <3>2. CASE ~q.off
      BY <1>6, <3>2, LastIdNat, IdleGood DEF Inv
    <3> QED BY <3>1, <3>2
  <2>2. CountedInv'
    BY <1>7, <1>14, <1>16, CountedKept DEF Inv, Counted
  <2>3. CASE q.off
    <3>1. CoveredInv'
      BY <1>1, <1>2, <1>6, <1>10, <1>14, <1>16, <2>3, CoveredByRequest DEF q
    <3> QED BY <1>14, <2>1, <2>2, <3>1
  <2>4. CASE ~q.off
    <3>1. \A other \in Ids : users'[other] # NoRow => users'[other].epoch = users[other].epoch
      BY <1>4, <1>10, <2>4
    <3>2. CoveredInv'
      BY <1>1, <1>14, <1>16, <3>1, CoveredSame DEF Inv, q
    <3> QED BY <1>14, <2>1, <2>2, <3>2
  <2> QED BY <1>2, <2>3, <2>4
<1>17. row \in Row0
  BY <1>4 DEF Row0
<1> QED BY <1>2, <1>5, <1>11, <1>14, <1>15, <1>16, <1>17, RowStep

\* PUT, whether it disables the user, lets him in again or writes nothing.
LEMMA PutStep ==
  ASSUME Inv, NEW r \in Requests, Put(r)
  PROVE  Inv'
<1>1. At(r, "put") /\ UNCHANGED <<lastId, sessions, drawn, cache, accounts, unrevoked>>
  BY DEF Put
<1>2. CASE Exists(proc[r].user) /\ ~Taken(proc[r].name, proc[r].user)
  BY <1>1, <1>2, PutWrites DEF Put
<1>3. CASE ~Exists(proc[r].user)
  BY <1>1, <1>3, PutNothing DEF Put, Exists
<1>4. CASE Exists(proc[r].user) /\ Taken(proc[r].name, proc[r].user)
  BY <1>1, <1>4, PutNothing DEF Put
<1> QED BY <1>2, <1>3, <1>4

\* A row goes; the request has told its likes when it was that of an administrator.
LEMMA DeleteDropsStep ==
  ASSUME Inv, NEW r \in Requests, DeleteDrops(r)
  PROVE  Inv'
<1> DEFINE q == proc[r]  id == q.user
<1>1. q \in Request /\ RequestGood(q, users, lastId) /\ q.at = "drop"
  BY DEF Inv, RequestsInv, DeleteDrops, At
<1>2. id \in Ids
  BY <1>1 DEF RequestGood, HasUser
<1>3. /\ users' = [users EXCEPT ![id] = NoRow]
      /\ IF id \in EnabledAdmins THEN WithoutAdmin(r, Idle) ELSE Ends(r)
      /\ UNCHANGED <<lastId, sessions, drawn, cache, accounts, unrevoked>>
  BY DEF DeleteDrops
<1>4. proc[r].at # "revoke"
  BY <1>1
<1> HIDE DEF id, q
<1>5. users'[id] = NoRow /\ \A other \in Ids \ {id} : users'[other] = users[other]
  BY <1>2, <1>3 DEF Inv, UsersInv, UsersGood
<1>6. Replaces(id, NoRow) /\ NoRow \in Row0
  BY DEF Replaces, Row0
<1>7. EnabledAdmins = AdminsOf(users)
  BY DEF EnabledAdmins, AdminsOf, Exists
<1>8. id \notin AdminsOf(users) => AdminsOf(users) \subseteq AdminsOf(users')
  BY <1>5 DEF AdminsOf
<1>9. Idle \in Request /\ OutGood(Idle, users') /\ RequestGood(Idle, users', lastId')
      /\ Counted(Idle, users')
  <2>1. lastId' \in Nat
    BY <1>3, LastIdNat DEF Inv
  <2> QED BY <2>1, IdleGood
<1>10. /\ OthersFollow(r) /\ proc'[r] = Idle /\ proc' \in [Requests -> Request]
       /\ starts' \in 0 .. MaxStarts
       /\ \A p \in Requests \ {r} : Doomed(proc[p]) =>
            proc'[p].outdated \/ AdminsOf(users) \subseteq AdminsOf(users')
  <2>1. CASE id \in EnabledAdmins
    BY <1>3, <1>9, <2>1, WithoutAdminMoves DEF Inv
  <2>2. CASE id \notin EnabledAdmins
    <3>1. Goes(r, Idle)
      BY <1>3, <2>2 DEF Ends
    <3>2. starts' \in 0 .. MaxStarts
      BY <3>1, StartsKept DEF Inv
    <3> QED BY <1>7, <1>8, <1>9, <2>2, <3>1, <3>2, OneMoves DEF Inv, Goes
  <2> QED BY <2>1, <2>2
<1>11. OutInv'
  <2>1. \A p \in Requests : proc'[p].out \subseteq Ids
    BY <1>10 DEF Request
  <2>2. \A p \in Requests \ {r} : \A other \in proc'[p].out :
          users'[other] # NoRow /\ ~users'[other].disabled => users[other] # NoRow /\ ~users[other].disabled
    BY <1>5, <2>1
  <2> QED BY <1>9, <1>10, <2>2, OutKept DEF Inv
<1>12. ASSUME UsersGrow PROVE CountedInv' /\ CoveredInv'
  <2>1. CountedInv'
    BY <1>9, <1>10, <1>12, CountedKept DEF Inv
  <2>2. \A other \in Ids : users'[other] # NoRow => users'[other].epoch = users[other].epoch
    BY <1>5
  <2>3. CoveredInv'
    BY <1>3, <1>4, <1>10, <1>12, <2>2, CoveredSame DEF Inv
  <2> QED BY <2>1, <2>3
<1> QED BY <1>2, <1>3, <1>6, <1>9, <1>10, <1>11, <1>12, RowStep

-----------------------------------------------------------------------------
(* The steps that add a row.                                               *)

\* What is left to show of such a step; r is the request that takes it, if one does.
LEMMA InsertStep ==
  ASSUME Inv, NEW n \in Names, NEW p \in Passwords, NEW role \in Roles, Insert(n, p, role),
         UNCHANGED <<sessions, drawn, cache, unrevoked>>,
         NEW r, OthersFollow(r), proc' \in [Requests -> Request], starts' \in 0 .. MaxStarts,
         \A q \in Requests \ {r} : NextId \notin proc'[q].out,
         r \in Requests => /\ proc[r].at # "revoke" /\ RequestGood(proc'[r], users', lastId')
                           /\ OutGood(proc'[r], users') /\ Counted(proc'[r], users')
  PROVE  Inv'
<1>1. /\ Grows(users, lastId, users', lastId') /\ Ages(users, lastId, users') /\ UsersInv'
      /\ lastId' = NextId /\ NextId \in Ids /\ lastId < NextId /\ lastId \in Nat
      /\ users'[NextId] = NewRow(n, p, role, NextId)
      /\ \A id \in Ids \ {NextId} : users'[id] = users[id]
  BY InsertGrows DEF Inv
<1>2. UsersGrow
  BY <1>1 DEF UsersGrow
<1>3. \A id \in Ids : id <= lastId => users'[id] = users[id]
  BY <1>1, IdsAreNumbers
<1>4. users[NextId] = NoRow
  BY <1>1, IdsAreNumbers DEF Inv, UsersInv, UsersGood
<1>5. SessionsInv' /\ CacheInv'
  BY <1>1, <1>2, SessionsSame, CacheSame DEF Inv
<1>6. RequestsInv'
  <2>1. unrevoked' \in SUBSET Ids
    BY DEF Inv, RequestsInv
  <2> QED BY <1>2, <2>1, RequestsKept DEF Inv
<1>7. OutInv'
  <2>1. \A q \in Requests : proc'[q].out \subseteq Ids
    BY DEF Request
  <2>2. \A q \in Requests \ {r} : \A id \in proc'[q].out :
          users'[id] # NoRow /\ ~users'[id].disabled => users[id] # NoRow /\ ~users[id].disabled
    BY <1>1, <2>1
  <2> QED BY <2>2, OutKept DEF Inv
<1>8. CountedInv'
  <2>1. AdminsOf(users) \subseteq AdminsOf(users')
    BY <1>1, <1>4 DEF AdminsOf
  <2> QED BY <1>2, <2>1, CountedKept DEF Inv
<1>9. CoveredInv'
  <2>1. \A id \in Ids : id <= lastId /\ users'[id] # NoRow => users'[id].epoch = users[id].epoch
    BY <1>3
  <2> QED BY <1>2, <2>1, CoveredSame DEF Inv
<1> QED BY <1>1, <1>5, <1>6, <1>7, <1>8, <1>9 DEF Inv

\* A request that adds a row tells the others who is let in.
LEMMA InsertAndMove ==
  ASSUME Inv, NEW n \in Names, NEW p \in Passwords, NEW role \in Roles, Insert(n, p, role),
         UNCHANGED <<sessions, drawn, cache, unrevoked>>,
         NEW r \in Requests, NEW req, LettingIn(r, req, NextId), proc[r].at # "revoke",
         RequestGood(req, users', lastId'), OutGood(req, users'), Counted(req, users')
  PROVE  Inv'
<1>1. proc'[r] = req /\ req \in Request
  BY DEF LettingIn, RequestGood
<1>2. proc' = [q \in Requests |-> IF q = r THEN proc'[r]
                                  ELSE [proc[q] EXCEPT !.out = proc[q].out \ {NextId}]]
  BY <1>1 DEF LettingIn
<1>3. /\ OthersFollow(r) /\ proc' \in [Requests -> Request]
      /\ \A q \in Requests \ {r} : NextId \notin proc'[q].out
  <2>1. RequestsInv
    BY DEF Inv
  <2> QED BY <1>1, <1>2, <2>1, LettingInMoves
<1>4. starts' \in 0 .. MaxStarts
  BY DEF LettingIn, Inv, RequestsInv
<1> QED BY <1>1, <1>3, <1>4, InsertStep

\* An administrator creates a user.
LEMMA CreateUserStep ==
  ASSUME Inv, NEW r \in Requests, NEW n \in Names, NEW p \in Passwords, CreateUser(r, n, p)
  PROVE  Inv'
<1>1. /\ "user" \in Roles /\ Insert(n, p, "user") /\ LettingIn(r, Idle, NextId)
      /\ proc[r].at # "revoke" /\ UNCHANGED <<sessions, drawn, cache, unrevoked>>
  BY DEF CreateUser, At, Roles
<1>2. lastId' \in Nat
  <2>1. NextId \in Ids /\ lastId' = NextId
    BY <1>1, InsertGrows DEF Inv
  <2> QED BY <2>1, IdsAreNumbers
<1> QED BY <1>1, <1>2, IdleGood, InsertAndMove

\* Setup logs the user in that it has created.
LEMMA SetupCreatesStep ==
  ASSUME Inv, NEW r \in Requests, NEW n \in Names, NEW p \in Passwords, SetupCreates(r, n, p)
  PROVE  Inv'
<1> DEFINE req == [Idle EXCEPT !.at = "login", !.user = NextId, !.serial = accounts + 1]
<1>1. /\ "admin" \in Roles /\ Insert(n, p, "admin") /\ LettingIn(r, req, NextId)
      /\ proc[r].at # "revoke" /\ UNCHANGED <<sessions, drawn, cache, unrevoked>>
  BY DEF SetupCreates, At, Roles
<1>2. NextId \in Ids /\ NextId \in Nat /\ lastId' = NextId /\ accounts + 1 = NextId
  <2>1. NextId \in Ids /\ lastId' = NextId
    BY <1>1, InsertGrows DEF Inv
  <2> QED BY <2>1, IdsAreNumbers DEF Inv, UsersInv, NextId
<1>3. /\ req.at = "login" /\ req.user = NextId /\ req.serial = NextId /\ req.out = {}
      /\ req \in Request
  BY <1>2 DEF Idle, Request, Steps
<1> HIDE DEF req
<1>4. RequestGood(req, users', lastId') /\ OutGood(req, users') /\ Counted(req, users')
  BY <1>2, <1>3 DEF RequestGood, OutGood, Counted, Doomed, HasUser
<1> QED BY <1>1, <1>4, InsertAndMove

\* The command create inserts a user beside the running server.
LEMMA CliCreateStep ==
  ASSUME Inv, NEW n \in Names, NEW p \in Passwords, NEW role \in Roles, CliCreate(n, p, role)
  PROVE  Inv'
<1> PICK r : r \notin Requests
  BY NoSetContainsEverything
<1>1. Insert(n, p, role) /\ UNCHANGED <<sessions, drawn, cache, unrevoked>>
  BY DEF CliCreate
<1>2. starts' \in 0 .. MaxStarts
  BY IdsAreNumbers DEF CliCreate, Inv, RequestsInv
<1>3. proc' = [q \in Requests |-> IF q = r THEN proc'[r]
                                  ELSE [proc[q] EXCEPT !.out = proc[q].out \ {NextId}]]
  BY DEF CliCreate
<1>4. /\ OthersFollow(r) /\ proc' \in [Requests -> Request]
      /\ \A q \in Requests \ {r} : NextId \notin proc'[q].out
  <2>1. RequestsInv
    BY DEF Inv
  <2> QED BY <1>3, <2>1, LettingInMoves
<1> QED BY <1>1, <1>2, <1>4, InsertStep

\* A start with credentials configured inserts the first administrator.
LEMMA BootstrapStep ==
  ASSUME Inv, NEW n \in Names, NEW p \in Passwords, Bootstrap(n, p)
  PROVE  Inv'
<1> PICK r : r \notin Requests
  BY NoSetContainsEverything
<1>1. /\ "admin" \in Roles /\ Insert(n, p, "admin") /\ UNCHANGED <<sessions, drawn, cache, unrevoked>>
      /\ proc' = proc /\ starts' = starts /\ \A q \in Requests : proc[q] = Idle
  BY DEF Bootstrap, Roles
<1>2. OthersFollow(r) /\ proc' \in [Requests -> Request] /\ starts' \in 0 .. MaxStarts
  BY <1>1 DEF OthersFollow, Follows, Inv, RequestsInv
<1>3. \A q \in Requests \ {r} : NextId \notin proc'[q].out
  <2>1. Idle.out = {}
    BY DEF Idle
  <2> QED BY <1>1, <2>1
<1> QED BY <1>1, <1>2, <1>3, InsertStep

-----------------------------------------------------------------------------
(* The steps that change the cache.                                        *)

\* MoveStep for a step that changes the cache as well.
LEMMA CacheStep ==
  ASSUME Inv, NEW r \in Requests, NEW req,
         Begins(r, req) \/ (Goes(r, req) /\ proc[r].at # "revoke"),
         UNCHANGED <<users, lastId, accounts, sessions, drawn, unrevoked>>, CacheInv',
         RequestGood(req, users, lastId), OutGood(req, users), Counted(req, users)
  PROVE  Inv'
<1> USE DEF Inv
<1>1. UsersInv' /\ UsersGrow
  BY SameGrows DEF UsersInv, UsersGrow
<1>2. proc' = [proc EXCEPT ![r] = req]
  BY DEF Begins, Goes
<1>3. OthersFollow(r) /\ proc'[r] = req /\ proc' \in [Requests -> Request]
  BY <1>2, OneMoves DEF RequestGood
<1>4. proc[r].at # "revoke"
  <2>1. Idle.at = "idle"
    BY DEF Idle
  <2> QED BY <2>1 DEF Begins
<1>5. SessionsInv'
  BY <1>1, SessionsSame
<1>6. RequestsInv'
  <2>1. unrevoked' \in SUBSET Ids
    BY DEF RequestsInv
  <2>2. starts' \in 0 .. MaxStarts
    BY StartsKept
  <2> QED BY <1>1, <1>3, <2>1, <2>2, RequestsKept
<1>7. OutInv'
  BY <1>3, OutKept
<1>8. CountedInv'
  BY <1>1, <1>3, CountedKept
<1>9. CoveredInv'
  BY <1>1, <1>3, <1>4, CoveredSame
<1> QED BY <1>1, <1>5, <1>6, <1>7, <1>8, <1>9

\* The cache is read; an entry that is too old goes.
LEMMA DavLookupStep ==
  ASSUME Inv, NEW r \in Requests, NEW n \in Names, NEW p \in Passwords, DavLookup(r, n, p)
  PROVE  Inv'
<1> DEFINE k == <<n, p>>  e == cache[k]
           hit == [Idle EXCEPT !.at = "hit", !.user = e.user, !.out = Shut]
           miss == [Idle EXCEPT !.at = "miss", !.name = n, !.pass = p, !.out = Shut]
<1>1. k \in Keys /\ UNCHANGED <<users, lastId, accounts, sessions, drawn, unrevoked>>
  BY DEF DavLookup, Keys
<1>2. EntryGood(e, p, users, lastId)
  BY <1>1 DEF Inv, CacheInv
<1>3. CASE Live(e)
  <2>1. e.user \in Ids /\ e.user <= lastId
    BY <1>2, <1>3, NoneIsNone DEF Live, EntryGood, MadeFor, Entry
  <2>2. /\ hit.at = "hit" /\ hit.user = e.user /\ hit.out = Shut /\ hit.who = 0
        /\ hit \in Request
    BY <2>1, ShutGood DEF Idle, Request, Steps
  <2>3. Begins(r, hit) /\ cache' = [cache EXCEPT ![k] = cache[k]]
    BY <1>3 DEF DavLookup, AfterHit
  <2>4. cache' = cache
    BY <1>1, <2>3 DEF Inv, CacheInv
  <2>5. CacheInv'
    BY <1>1, <2>4 DEF Inv, CacheInv
  <2> HIDE DEF hit
  <2>6. RequestGood(hit, users, lastId) /\ OutGood(hit, users) /\ Counted(hit, users)
    BY <2>1, <2>2, ShutGood DEF RequestGood, OutGood, Counted, Doomed, HasUser
  <2> QED BY <1>1, <2>3, <2>5, <2>6, CacheStep
<1>4. CASE ~Live(e)
  <2>1. /\ miss.at = "miss" /\ miss.user = 0 /\ miss.out = Shut /\ miss.who = 0
        /\ miss.name = n /\ miss.pass = p /\ miss \in Request
    BY ShutGood DEF Idle, Request, Steps
  <2>2. Begins(r, miss) /\ cache' = [cache EXCEPT ![k] = NoEntry]
    BY <1>4 DEF DavLookup
  <2>3. CacheInv'
    BY <1>1, <2>2 DEF Inv, CacheInv, EntryGood
  <2> HIDE DEF miss
  <2>4. RequestGood(miss, users, lastId) /\ OutGood(miss, users) /\ Counted(miss, users)
    BY <2>1, ShutGood, LastIdNat DEF Inv, RequestGood, OutGood, Counted, Doomed, HasUser
  <2> QED BY <1>1, <2>2, <2>3, <2>4, CacheStep
<1> QED BY <1>3, <1>4

\* An entry is made for a user as it was when its password was verified.
LEMMA DavInsertStep ==
  ASSUME Inv, NEW r \in Requests, DavInsert(r)
  PROVE  Inv'
<1> DEFINE q == proc[r]  k == <<q.name, q.pass>>
           e == [user |-> q.user, left |-> TTL, serial |-> q.serial, epoch |-> q.epoch,
                 late |-> users[q.user] # NoRow /\ q.epoch < users[q.user].epoch]
           req == [Idle EXCEPT !.at = "in", !.who = q.user, !.out = q.out]
<1>1. q \in Request /\ RequestGood(q, users, lastId) /\ OutGood(q, users) /\ q.at = "insert"
  BY DEF Inv, RequestsInv, OutInv, DavInsert, At
<1>2. UNCHANGED <<users, lastId, accounts, sessions, drawn, unrevoked>>
      /\ Goes(r, req) /\ cache' = [cache EXCEPT ![k] = e]
  BY DEF DavInsert, Exists
<1>3. /\ q.user \in Ids /\ q.user <= lastId /\ q.serial = q.user /\ q.user \in Nat
      /\ k \in Keys /\ q.out \subseteq Ids /\ q.user \notin q.out /\ k[2] = q.pass
      /\ q.epoch \in Nat
  BY <1>1, IdsAreNumbers DEF RequestGood, OutGood, HasUser, Request, Keys
<1>4. /\ users[q.user] # NoRow => q.epoch <= users[q.user].epoch
      /\ OfPassword(q, q.pass, users)
  BY <1>1 DEF RequestGood
<1>5. /\ e \in Entry /\ e.user = q.user /\ e.serial = q.serial /\ e.epoch = q.epoch
      /\ users[q.user] # NoRow /\ ~e.late => ~(q.epoch < users[q.user].epoch)
  <2> DEFINE late == users[q.user] # NoRow /\ q.epoch < users[q.user].epoch
  <2>1. late \in BOOLEAN /\ TTL \in 0 .. TTL
    BY IdsAreNumbers
  <2>2. users[q.user] # NoRow /\ ~late => ~(q.epoch < users[q.user].epoch)
    OBVIOUS
  <2>3. e = [user |-> q.user, left |-> TTL, serial |-> q.serial, epoch |-> q.epoch, late |-> late]
    OBVIOUS
  <2> HIDE DEF e, late
  <2>4. /\ e \in Entry /\ e.user = q.user /\ e.serial = q.serial /\ e.epoch = q.epoch
        /\ e.late = late
    BY <1>3, <2>1, <2>3 DEF Entry
  <2> QED BY <2>2, <2>4
<1>6. /\ req.at = "in" /\ req.user = 0 /\ req.who = q.user /\ req.out = q.out
      /\ req \in Request
  BY <1>3 DEF Idle, Request, Steps
<1> HIDE DEF e, req, k
<1>7. EntryGood(e, k[2], users, lastId)
  BY <1>3, <1>4, <1>5 DEF EntryGood, MadeFor, OfPassword, Fades
<1>8. CacheInv'
  BY <1>2, <1>3, <1>5, <1>7 DEF Inv, CacheInv
<1>9. RequestGood(req, users, lastId) /\ OutGood(req, users) /\ Counted(req, users)
  BY <1>1, <1>3, <1>6, LastIdNat DEF Inv, RequestGood, OutGood, Counted, Doomed, HasUser
<1> QED BY <1>1, <1>2, <1>8, <1>9, CacheStep

-----------------------------------------------------------------------------
(* Restarts and time.                                                      *)

\* A revocation that a restart cuts is accounted for.
LEMMA RestartStep ==
  ASSUME Inv, Restart
  PROVE  Inv'
<1> USE DEF Inv
<1>1. /\ proc' = [r \in Requests |-> IF proc[r].cli THEN proc[r] ELSE Idle]
      /\ UNCHANGED <<users, lastId, sessions, drawn, starts, accounts>>
  BY DEF Restart
<1>2. UsersInv' /\ UsersGrow
  BY <1>1, SameGrows DEF UsersInv, UsersGrow
<1>3. SessionsInv'
  BY <1>1, <1>2, SessionsSame
<1>4. CacheInv'
  BY DEF Restart, CacheInv, EntryGood
<1>5. ASSUME NEW r \in Requests
      PROVE  /\ RequestGood(proc'[r], users', lastId') /\ OutGood(proc'[r], users')
             /\ Counted(proc'[r], users') /\ proc'[r] \in Request
  <2>1. CASE proc[r].cli
    BY <1>1, <2>1 DEF RequestsInv, OutInv, CountedInv
  <2>2. CASE ~proc[r].cli
    BY <1>1, <2>2, LastIdNat, IdleGood
  <2> QED BY <2>1, <2>2
<1>6. unrevoked' \in SUBSET Ids
  <2>1. \A r \in Requests : proc[r].at = "revoke" => proc[r].user \in Ids
    BY DEF RequestsInv, RequestGood, HasUser
  <2> QED BY <2>1 DEF Restart, At, RequestsInv
<1>7. RequestsInv'
  BY <1>1, <1>5, <1>6 DEF RequestsInv
<1>8. OutInv' /\ CountedInv'
  BY <1>5 DEF OutInv, CountedInv
<1>9. ASSUME NEW s \in SessionIds, NEW id, Pending(s, id, proc, users)
      PROVE  Pending(s, id, proc', users') \/ id \in unrevoked'
  <2>1. PICK r \in Requests : /\ proc[r].at = "revoke" /\ proc[r].user = id
                              /\ proc[r].sid # s \/ proc[r].epoch = users[id].epoch
    BY <1>9 DEF Pending
  <2>2. CASE proc[r].cli
    BY <1>1, <2>1, <2>2 DEF Pending
  <2>3. CASE ~proc[r].cli
    BY <2>1, <2>3 DEF Restart, At
  <2> QED BY <2>2, <2>3
<1>10. unrevoked \subseteq unrevoked'
  BY DEF Restart
<1>11. CoveredInv'
  BY <1>1, <1>9, <1>10 DEF CoveredInv, Covered
<1> QED BY <1>2, <1>3, <1>4, <1>7, <1>8, <1>11

\* Rows and sessions age, entries fade as fast as the rows do.
LEMMA TickStep ==
  ASSUME Inv, Tick
  PROVE  Inv'
<1> PICK r : r \notin Requests
  BY NoSetContainsEverything
<1>1. UNCHANGED <<lastId, drawn, proc, starts, accounts, unrevoked>>
  BY DEF Tick
<1> DEFINE row(id) == [users[id] EXCEPT !.since = AtMost(TTL, @ + 1)]
           touched(s) == [sessions[s] EXCEPT !.age = AtMost(SessionIdle + 1, @ + 1)]
           faded(k) == [cache[k] EXCEPT !.left = @ - 1]
<1>2. ASSUME NEW id \in Ids, users[id] # NoRow
      PROVE  /\ row(id) \in Row /\ row(id) # NoRow
             /\ row(id).role = users[id].role /\ row(id).name = users[id].name
             /\ row(id).serial = users[id].serial /\ row(id).epoch = users[id].epoch
             /\ row(id).disabled = users[id].disabled /\ row(id).pass = users[id].pass
             /\ row(id).since <= users[id].since + 1 /\ users[id].epoch \in Nat
  <2>1. users[id] \in Row
    BY <1>2, NoneIsNone DEF Inv, UsersInv, UsersGood
  <2>2. users[id].since \in 0 .. TTL
    BY <2>1 DEF Row
  <2> DEFINE m == AtMost(TTL, users[id].since + 1)
  <2>3. m \in 0 .. TTL /\ m <= users[id].since + 1
    BY <2>2, IdsAreNumbers DEF AtMost
  <2>4. row(id) = [users[id] EXCEPT !.since = m]
    OBVIOUS
  <2> HIDE DEF m
  <2>5. row(id) \in Row /\ row(id).since = m
    BY <2>1, <2>3, <2>4 DEF Row
  <2> QED BY <2>1, <2>3, <2>4, <2>5, NoneIsNone DEF Row
<1>3. ASSUME NEW s \in SessionIds, sessions[s] # NoSession
      PROVE  /\ touched(s) \in Session /\ touched(s).user = sessions[s].user
             /\ touched(s).serial = sessions[s].serial /\ touched(s).epoch = sessions[s].epoch
  <2>1. sessions[s] \in Session
    BY <1>3 DEF Inv, SessionsInv
  <2>2. sessions[s].age \in 0 .. SessionIdle + 1
    BY <2>1 DEF Session
  <2> DEFINE m == AtMost(SessionIdle + 1, sessions[s].age + 1)
  <2>3. m \in 0 .. SessionIdle + 1
    BY <2>2, IdsAreNumbers DEF AtMost
  <2>4. touched(s) = [sessions[s] EXCEPT !.age = m]
    OBVIOUS
  <2> HIDE DEF m
  <2> QED BY <2>1, <2>3, <2>4 DEF Session
<1>4. ASSUME NEW k \in Keys, Live(cache[k])
      PROVE  /\ faded(k) \in Entry /\ faded(k).user = cache[k].user
             /\ faded(k).serial = cache[k].serial /\ faded(k).epoch = cache[k].epoch
             /\ faded(k).late = cache[k].late
             /\ faded(k).left + 1 = cache[k].left /\ cache[k].left \in Nat /\ cache[k] \in Entry
  <2>1. cache[k] \in Entry
    BY <1>4 DEF Inv, CacheInv, Live
  <2>2. cache[k].left \in 0 .. TTL /\ cache[k].left > 0
    BY <1>4, <2>1 DEF Entry, Live
  <2>3. cache[k].left - 1 \in 0 .. TTL /\ cache[k].left - 1 + 1 = cache[k].left
    BY <2>2, IdsAreNumbers
  <2> DEFINE m == cache[k].left - 1
  <2>4. faded(k) = [cache[k] EXCEPT !.left = m]
    OBVIOUS
  <2>5. m \in 0 .. TTL /\ m + 1 = cache[k].left /\ cache[k].left \in Nat
    BY <2>2, <2>3
  <2> HIDE DEF m
  <2> QED BY <2>1, <2>4, <2>5 DEF Entry
<1>5. /\ users' = [id \in Ids |-> IF users[id] # NoRow THEN row(id) ELSE NoRow]
      /\ sessions' = [s \in SessionIds |-> IF sessions[s] # NoSession THEN touched(s) ELSE NoSession]
      /\ cache' = [k \in Keys |-> IF Live(cache[k]) THEN faded(k) ELSE cache[k]]
  BY DEF Tick, Exists
<1> HIDE DEF row, touched, faded
<1>6. users' \in [Ids -> Row0] /\ lastId' \in Ids \cup {0}
  BY <1>1, <1>2, <1>5 DEF Row0, Inv, UsersInv, UsersGood
<1>7. /\ \A id \in Ids : users'[id] # NoRow <=> users[id] # NoRow
      /\ \A id \in Ids : users[id] # NoRow =>
           /\ users'[id].role = users[id].role /\ users'[id].name = users[id].name
           /\ users'[id].serial = users[id].serial /\ users'[id].epoch = users[id].epoch
           /\ users'[id].disabled = users[id].disabled /\ users'[id].pass = users[id].pass
           /\ users'[id].since <= users[id].since + 1
           /\ users[id].epoch \in Nat
  BY <1>2, <1>5
<1>8. UsersInv'
  BY <1>1, <1>6, <1>7 DEF Inv, UsersInv, UsersGood
<1>9. UsersGrow
  <2>1. lastId \in Nat
    BY LastIdNat DEF Inv
  <2> QED BY <1>1, <1>7, <1>8, <2>1 DEF Inv, UsersInv, UsersGrow, Grows
<1>10. OthersFollow(r)
  BY <1>1 DEF OthersFollow, Follows, Inv, RequestsInv
<1>11. SessionsInv' /\ CoveredInv'
  <2>1. /\ sessions' \in [SessionIds -> Session \cup {NoSession}]
        /\ \A s \in SessionIds : sessions'[s] = NoSession \/
             /\ sessions[s] # NoSession
             /\ sessions'[s].user = sessions[s].user /\ sessions'[s].serial = sessions[s].serial
             /\ sessions'[s].epoch = sessions[s].epoch
    BY <1>3, <1>5
  <2> QED BY <1>1, <1>7, <1>9, <1>10, <2>1, AgesOnly DEF Inv
<1>12. RequestsInv'
  BY <1>1, <1>9, <1>10, RequestsKept DEF Inv, RequestsInv
<1>13. OutInv'
  <2>1. \A q \in Requests : proc'[q].out \subseteq Ids
    BY <1>1 DEF Inv, RequestsInv, Request
  <2> QED BY <1>7, <1>10, <2>1, OutKept DEF Inv
<1>14. CountedInv'
  <2>1. AdminsOf(users) \subseteq AdminsOf(users')
    BY <1>7 DEF AdminsOf
  <2> QED BY <1>9, <1>10, <2>1, CountedKept DEF Inv
<1>15. ASSUME NEW k \in Keys PROVE cache'[k] \in Entry \cup {NoEntry} /\ EntryGood(cache'[k], k[2], users', lastId')
  <2>1. EntryGood(cache[k], k[2], users, lastId) /\ cache[k] \in Entry \cup {NoEntry}
    BY DEF Inv, CacheInv
  <2>2. CASE cache[k] = NoEntry
    BY <1>5, <2>2 DEF Live, EntryGood
  <2>3. CASE cache[k] # NoEntry
    <3>1. /\ cache[k] \in Entry /\ cache[k].user \in Ids /\ cache[k].user <= lastId
          /\ cache[k].epoch \in Nat /\ cache[k].left \in Nat
          /\ MadeFor(cache[k], users, lastId) /\ OfPassword(cache[k], k[2], users)
          /\ Fades(cache[k], users)
      BY <2>1, <2>3 DEF EntryGood, MadeFor, Entry
    <3>2. MadeFor(cache[k], users', lastId') /\ OfPassword(cache[k], k[2], users')
      BY <1>9, <3>1, MadeForKept, OfPasswordKept DEF UsersGrow, MadeFor
    <3>3. CASE ~Live(cache[k])
      <4>1. cache'[k] = cache[k] /\ ~(cache[k].left > 0)
        BY <1>5, <2>3, <3>3 DEF Live
      <4> QED BY <3>1, <3>2, <4>1 DEF EntryGood, Fades
    <3>4. CASE Live(cache[k])
      <4> DEFINE e == cache'[k]
      <4>1. /\ e \in Entry /\ e.user = cache[k].user /\ e.serial = cache[k].serial
            /\ e.epoch = cache[k].epoch /\ e.late = cache[k].late /\ e.left + 1 = cache[k].left /\ e.left \in 0 .. TTL
        BY <1>4, <1>5, <3>4 DEF Entry
      <4>2. ASSUME e.left > 0, users'[e.user] # NoRow, ~e.late, e.epoch < users'[e.user].epoch
            PROVE  e.left + users'[e.user].since <= TTL
        <5>1. users[e.user] # NoRow /\ users'[e.user].since <= users[e.user].since + 1
              /\ users'[e.user].epoch = users[e.user].epoch
          BY <1>7, <3>1, <4>1, <4>2
        <5>2. cache[k].left + users[e.user].since <= TTL
          BY <3>1, <3>4, <4>1, <4>2, <5>1 DEF Fades, Live
        <5>3. users[e.user] \in Row /\ users'[e.user] \in Row
          BY <1>6, <3>1, <4>1, <4>2, <5>1, NoneIsNone DEF Inv, UsersInv, UsersGood
        <5>4. users[e.user].since \in 0 .. TTL /\ users'[e.user].since \in 0 .. TTL
          BY <5>3 DEF Row
        <5> QED BY <4>1, <5>1, <5>2, <5>4, IdsAreNumbers
      <4> HIDE DEF e
      <4>3. MadeFor(e, users', lastId') /\ OfPassword(e, k[2], users')
        BY <3>2, <4>1 DEF MadeFor, OfPassword
      <4>4. EntryGood(e, k[2], users', lastId')
        BY <4>1, <4>2, <4>3 DEF EntryGood, Fades
      <4> QED BY <4>1, <4>4 DEF e
    <3> QED BY <3>3, <3>4
  <2> QED BY <2>2, <2>3
<1>16. CacheInv'
  BY <1>5, <1>15 DEF CacheInv
<1> QED BY <1>8, <1>11, <1>12, <1>13, <1>14, <1>16 DEF Inv

-----------------------------------------------------------------------------
(* The theorems.                                                           *)

\* Both populations the service may start with are good.
LEMMA TablesGood ==
  ASSUME EmptyTables \/ TwoAccounts
  PROVE  /\ UsersInv /\ SessionsInv
         /\ \A s \in SessionIds : sessions[s] # NoSession /\ users[sessions[s].user] # NoRow =>
              sessions[s].epoch = users[sessions[s].user].epoch
<1>1. CASE EmptyTables
  BY <1>1 DEF EmptyTables, UsersInv, UsersGood, SessionsInv, SessionGood, Row0
<1>2. CASE TwoAccounts
  <2>1. PICK n \in Names, m \in Names, p \in Passwords, q \in Passwords, role \in Roles :
          /\ n # m
          /\ users = [id \in Ids |-> CASE id = 1 -> NewRow(n, p, "admin", 1)
                                       [] id = 2 -> NewRow(m, q, role, 2)
                                       [] OTHER -> NoRow]
    BY <1>2 DEF TwoAccounts
  <2>2. /\ lastId = 2 /\ accounts = 2 /\ drawn = 2
        /\ sessions = [s \in SessionIds |->
                         IF s <= 2 THEN [user |-> s, age |-> 0, serial |-> s, epoch |-> 0]
                         ELSE NoSession]
    BY <1>2 DEF TwoAccounts
  <2>3. TTL \in 0 .. TTL /\ 0 \in 0 .. SessionIdle + 1 /\ 1 \in Ids /\ 2 \in Ids
    BY IdsAreNumbers
  <2> DEFINE a == NewRow(n, p, "admin", 1)  b == NewRow(m, q, role, 2)
  <2>4. /\ a \in Row /\ a.serial = 1 /\ a.name = n /\ a.epoch = 0
        /\ b \in Row /\ b.serial = 2 /\ b.name = m /\ b.epoch = 0
    BY <2>3 DEF NewRow, Row, Roles
  <2> HIDE DEF a, b
  <2>5. /\ users[1] = a /\ users[2] = b /\ users \in [Ids -> Row0]
        /\ \A id \in Ids \ {1, 2} : users[id] = NoRow
    BY <2>1, <2>3, <2>4 DEF Row0, a, b
  <2>6. UsersInv
    BY <2>1, <2>2, <2>3, <2>4, <2>5 DEF UsersInv, UsersGood
  <2>7. ASSUME NEW s \in SessionIds, s <= 2
        PROVE  s \in {1, 2} /\ s \in Ids
    BY <2>3, <2>7, IdsAreNumbers
  <2>8. ASSUME NEW s \in SessionIds, sessions[s] # NoSession
        PROVE  /\ sessions[s] \in Session /\ MadeFor(sessions[s], users, lastId)
               /\ sessions[s].epoch = users[sessions[s].user].epoch
    <3>1. s <= 2 /\ sessions[s] = [user |-> s, age |-> 0, serial |-> s, epoch |-> 0]
      BY <2>2, <2>8
    <3>2. s \in {1, 2} /\ s \in Ids /\ s \in Nat
      BY <2>7, <3>1
    <3>3. sessions[s].user = s /\ sessions[s].serial = s /\ sessions[s].epoch = 0
      BY <3>1
    <3>4. sessions[s] \in Session
      BY <2>3, <3>1, <3>2 DEF Session
    <3>5. users[s].epoch = 0
      BY <2>4, <2>5, <3>2
    <3> QED BY <2>2, <3>1, <3>2, <3>3, <3>4, <3>5 DEF MadeFor
  <2>9. sessions \in [SessionIds -> Session \cup {NoSession}]
    <3>1. \A s \in SessionIds : sessions[s] \in Session \cup {NoSession}
      BY <2>8
    <3>2. sessions = [s \in SessionIds |-> sessions[s]]
      BY <2>2
    <3> HIDE DEF Session
    <3> QED BY <3>1, <3>2
  <2>10. SessionsInv
    BY <2>2, <2>3, <2>8, <2>9, IdsAreNumbers DEF SessionsInv, SessionGood
  <2> QED BY <2>6, <2>8, <2>10
<1> QED BY <1>1, <1>2

\* The invariant holds at the start.
LEMMA InitInv == Init => Inv
<1> SUFFICES ASSUME Init PROVE Inv
  OBVIOUS
<1>1. /\ UsersInv /\ SessionsInv /\ lastId \in Nat
      /\ \A s \in SessionIds : sessions[s] # NoSession /\ users[sessions[s].user] # NoRow =>
           sessions[s].epoch = users[sessions[s].user].epoch
  BY TablesGood, LastIdNat DEF Init
<1>2. CacheInv
  BY DEF Init, CacheInv, EntryGood
<1>3. \A r \in Requests : /\ proc[r] \in Request /\ RequestGood(proc[r], users, lastId)
                          /\ OutGood(proc[r], users) /\ Counted(proc[r], users)
  BY <1>1, IdleGood DEF Init
<1>4. RequestsInv
  BY <1>3, IdsAreNumbers DEF Init, RequestsInv
<1>5. OutInv /\ CountedInv
  BY <1>3 DEF OutInv, CountedInv
<1>6. CoveredInv
  BY <1>1 DEF CoveredInv, Covered
<1> QED BY <1>1, <1>2, <1>4, <1>5, <1>6 DEF Inv

\* Every statement of a request keeps the invariant.
LEMMA RequestStepInv ==
  ASSUME Inv, NEW r \in Requests, RequestStep(r)
  PROVE  Inv'
<1>1. ASSUME PanelServed(r) \/ DavServed(r) PROVE Inv'
  BY <1>1, EndStep DEF PanelServed, DavServed, At
<1> QED BY <1>1, PanelRequestStep, PanelLookupStep, OwnPasswordStep, RevokeStep, CreateUserStep,
           LoginStep, SetupCreatesStep, DavLookupStep, ReadTargetStep, CliResetStep,
           ResetPasswordStep, CheckedSteps, DeleteRevokesStep, DeleteDropsStep, PutStep,
           LoginDrawsStep, SetupCheckedStep, DavHitStep, DavMissStep, DavInsertStep,
           StatementFailsStep
        DEF RequestStep

\* Every step keeps it.
LEMMA InvStep == Inv /\ [Next]_vars => Inv'
<1> SUFFICES ASSUME Inv, [Next]_vars PROVE Inv'
  OBVIOUS
<1>1. CASE Next
  BY <1>1, RequestStepInv, LogoutStep, CliCreateStep, BootstrapStep, RestartStep, TickStep DEF Next
<1>2. CASE UNCHANGED vars
  BY <1>2 DEF vars, Inv, UsersInv, SessionsInv, CacheInv, RequestsInv, OutInv, CountedInv,
              CoveredInv, Pending, Covered
<1> QED BY <1>1, <1>2

\* The inductive invariant of the accounts.
THEOREM Invariant == Spec => []Inv
BY InitInv, InvStep, PTL DEF Spec

\* Every table, the cache and every request are of their types, and no two users have
\* the same name.
THEOREM TypeCorrect == Spec => []TypeOK
<1>1. ASSUME Inv PROVE TypeOK
  <2>1. \A n \in Names : \A id, other \in Named(n) : id = other
    BY <1>1 DEF Inv, UsersInv, UsersGood, Named, Exists
  <2>2. accounts \in Nat
    BY <1>1, LastIdNat DEF Inv, UsersInv
  <2> QED BY <1>1, <2>1, <2>2
          DEF TypeOK, Inv, UsersInv, UsersGood, Row0, SessionsInv, CacheInv, RequestsInv
<1> QED BY <1>1, Invariant, PTL

\* No session and no cached verification opens another account than the one it was made
\* for, whatever was deleted and created since.
THEOREM NothingInherited == Spec => []NoInheritedAccess
<1>1. ASSUME Inv PROVE NoInheritedAccess
  <2>1. ASSUME NEW s \in SessionIds, sessions[s] # NoSession, Exists(sessions[s].user)
        PROVE  users[sessions[s].user].serial = sessions[s].serial
    <3>1. sessions[s].user \in Ids /\ sessions[s].serial = sessions[s].user
      BY <1>1, <2>1, NoneIsNone DEF Inv, SessionsInv, SessionGood, MadeFor, Session
    <3> QED BY <1>1, <2>1, <3>1 DEF Inv, UsersInv, UsersGood, Exists
  <2>2. ASSUME NEW k \in Keys, cache[k] # NoEntry, Exists(cache[k].user)
        PROVE  users[cache[k].user].serial = cache[k].serial
    <3>1. cache[k].user \in Ids /\ cache[k].serial = cache[k].user
      BY <1>1, <2>2, NoneIsNone DEF Inv, CacheInv, EntryGood, MadeFor, Entry
    <3> QED BY <1>1, <2>2, <3>1 DEF Inv, UsersInv, UsersGood, Exists
  <2> QED BY <2>1, <2>2 DEF NoInheritedAccess
<1> QED BY <1>1, Invariant, PTL

\* A request that began while a user was disabled or deleted, and stayed so, is never let
\* in as that user.
THEOREM StayOut == Spec => []ShutOut
<1>1. Inv => ShutOut
  BY DEF Inv, OutInv, OutGood, ShutOut
<1> QED BY <1>1, Invariant, PTL

\* Every session from before the last password change or disabling is gone, about to go,
\* the one that made the change, or left by a revocation that failed.
THEOREM RevocationsComplete == Spec => []RevocationComplete
<1>1. ASSUME Inv PROVE RevocationComplete
  <2>1. ASSUME NEW s \in SessionIds, sessions[s] # NoSession, Exists(sessions[s].user)
        PROVE  \/ sessions[s].epoch = users[sessions[s].user].epoch
               \/ \E r \in Requests : At(r, "revoke") /\ proc[r].user = sessions[s].user
               \/ sessions[s].user \in unrevoked
    BY <1>1, <2>1 DEF Inv, CoveredInv, Covered, Pending, Exists, At
  <2> QED BY <2>1 DEF RevocationComplete
<1> QED BY <1>1, Invariant, PTL

\* An old password, or a verification from before its user was disabled, is good for no
\* longer than TTL after the change, but where a verification that was under way at the
\* change has entered it since.
THEOREM OldPasswordsFade == Spec => []OldPasswordFades
<1>1. ASSUME Inv PROVE OldPasswordFades
  <2> SUFFICES ASSUME NEW k \in Keys, Live(cache[k]), Exists(cache[k].user), ~cache[k].late,
                      \/ users[cache[k].user].pass # k[2]
                      \/ cache[k].epoch < users[cache[k].user].epoch
               PROVE  cache[k].left + users[cache[k].user].since <= TTL
    BY DEF OldPasswordFades
  <2> DEFINE e == cache[k]
  <2>1. /\ e \in Entry /\ e.left > 0 /\ users[e.user] # NoRow
        /\ MadeFor(e, users, lastId) /\ OfPassword(e, k[2], users) /\ Fades(e, users)
    BY <1>1 DEF Inv, CacheInv, EntryGood, Live, Exists
  <2>2. e.epoch \in Nat /\ users[e.user].epoch \in Nat
    <3>1. users[e.user] \in Row
      BY <1>1, <2>1, NoneIsNone DEF Inv, UsersInv, UsersGood, Entry
    <3> QED BY <2>1, <3>1 DEF Entry, Row
  <2>3. e.epoch < users[e.user].epoch
    BY <2>1, <2>2 DEF MadeFor, OfPassword
  <2> QED BY <2>1, <2>3 DEF Fades
<1> QED BY <1>1, Invariant, PTL

\* A new password takes nobody's office.
LEMMA PasswordKeepsAdmins ==
  ASSUME Inv, NEW id \in Ids, NEW p \in Passwords,
         users' = [users EXCEPT ![id] = IF @ = NoRow THEN @ ELSE WithPassword(@, p)]
  PROVE  AdminsOf(users) \subseteq AdminsOf(users')
<1> DEFINE row == IF users[id] = NoRow THEN NoRow ELSE WithPassword(users[id], p)
<1>1. users' = [users EXCEPT ![id] = row]
  OBVIOUS
<1>2. users[id] # NoRow => /\ row # NoRow /\ row.role = users[id].role
                           /\ row.disabled = users[id].disabled
  <2>1. ASSUME users[id] # NoRow PROVE users[id] \in Row
    BY <2>1, NoneIsNone DEF Inv, UsersInv, UsersGood
  <2> QED BY <2>1, PasswordTypes
<1> HIDE DEF row
<1>3. users'[id] = row /\ \A other \in Ids \ {id} : users'[other] = users[other]
  BY <1>1 DEF Inv, UsersInv, UsersGood
<1> QED BY <1>2, <1>3 DEF AdminsOf

\* Only a DELETE and a PUT take an administrator away.
LEMMA AdminsStay ==
  ASSUME Inv, Next, \A r \in Requests : ~DeleteDrops(r) /\ ~Put(r)
  PROVE  AdminsOf(users) \subseteq AdminsOf(users')
<1>1. ASSUME NEW n \in Names, NEW p \in Passwords, NEW role \in Roles, Insert(n, p, role)
      PROVE  AdminsOf(users) \subseteq AdminsOf(users')
  <2>1. /\ NextId \in Ids /\ lastId < NextId /\ lastId \in Nat
        /\ \A id \in Ids \ {NextId} : users'[id] = users[id]
    BY <1>1, InsertGrows DEF Inv
  <2>2. users[NextId] = NoRow
    BY <2>1, IdsAreNumbers DEF Inv, UsersInv, UsersGood
  <2> QED BY <2>1, <2>2 DEF AdminsOf
<1>2. ASSUME NEW r \in Requests, NEW c \in Passwords, NEW p \in Passwords, OwnPassword(r, c, p)
      PROVE  AdminsOf(users) \subseteq AdminsOf(users')
  <2>1. proc[r].who \in Ids
    BY <1>2 DEF Inv, RequestsInv, RequestGood, OwnPassword, At
  <2> QED BY <1>2, <2>1, PasswordKeepsAdmins DEF OwnPassword
<1>3. ASSUME NEW r \in Requests, NEW p \in Passwords, ResetPassword(r, p)
      PROVE  AdminsOf(users) \subseteq AdminsOf(users')
  <2>1. proc[r].user \in Ids
    BY <1>3 DEF Inv, RequestsInv, RequestGood, ResetPassword, At, HasUser
  <2> QED BY <1>3, <2>1, PasswordKeepsAdmins DEF ResetPassword
<1>4. CASE Tick
  <2>1. ASSUME NEW id \in Ids, users[id] # NoRow
        PROVE  /\ users'[id] # NoRow /\ users'[id].role = users[id].role
               /\ users'[id].disabled = users[id].disabled
    <3> DEFINE m == AtMost(TTL, users[id].since + 1)
    <3>1. users'[id] = [users[id] EXCEPT !.since = m]
      BY <1>4, <2>1 DEF Tick, Exists
    <3>2. users[id] \in Row
      BY <2>1, NoneIsNone DEF Inv, UsersInv, UsersGood
    <3> HIDE DEF m
    <3>3. users'[id].role = users[id].role /\ users'[id].disabled = users[id].disabled
      BY <3>1, <3>2 DEF Row
    <3> QED BY <3>2, <3>3 DEF Row, Roles, NoRow
  <2> QED BY <2>1 DEF AdminsOf
<1>5. CASE UNCHANGED users
  BY <1>5
<1>6. "user" \in Roles /\ "admin" \in Roles
  BY DEF Roles
<1>7. CASE \E s \in SessionIds : Logout(s)
  BY <1>5, <1>7 DEF Logout
<1>8. CASE Restart
  BY <1>5, <1>8 DEF Restart
<1>9. ASSUME NEW r \in Requests, RequestStep(r)
      PROVE  AdminsOf(users) \subseteq AdminsOf(users')
  <2>1. ASSUME NEW n \in Names, NEW p \in Passwords, CreateUser(r, n, p) \/ SetupCreates(r, n, p)
        PROVE  AdminsOf(users) \subseteq AdminsOf(users')
    BY <1>1, <1>6, <2>1 DEF CreateUser, SetupCreates
  <2>2. ASSUME NEW s \in SessionIds, PanelRequest(r, s) PROVE UNCHANGED users
    BY <2>2 DEF PanelRequest
  <2>3. ASSUME NEW n \in Names, NEW p \in Passwords, Login(r, n, p) \/ DavLookup(r, n, p)
        PROVE  UNCHANGED users
    BY <2>3 DEF Login, DavLookup
  <2>4. ASSUME NEW id \in Ids, ReadTarget(r, id) \/ CliReset(r, id) PROVE UNCHANGED users
    BY <2>4 DEF ReadTarget, CliReset
  <2>5. ASSUME NEW n \in Names, NEW off \in BOOLEAN, PutChecked(r, n, off) PROVE UNCHANGED users
    BY <2>5 DEF PutChecked
  <2>6. PanelLookup(r) \/ PanelServed(r) \/ Revoke(r) \/ DeleteChecked(r) => UNCHANGED users
    BY DEF PanelLookup, PanelServed, Revoke, DeleteChecked
  <2>7. DeleteRevokes(r) \/ LoginDraws(r) \/ SetupChecked(r) \/ DavHit(r) => UNCHANGED users
    BY DEF DeleteRevokes, LoginDraws, SetupChecked, DavHit
  <2>8. DavMiss(r) \/ DavInsert(r) \/ DavServed(r) \/ StatementFails(r) => UNCHANGED users
    BY DEF DavMiss, DavInsert, DavServed, StatementFails
  <2> QED BY <1>2, <1>3, <1>5, <1>9, <2>1, <2>2, <2>3, <2>4, <2>5, <2>6, <2>7, <2>8 DEF RequestStep
<1>10. ASSUME NEW n \in Names, NEW p \in Passwords,
              (\E role \in Roles : CliCreate(n, p, role)) \/ Bootstrap(n, p)
       PROVE  AdminsOf(users) \subseteq AdminsOf(users')
  BY <1>1, <1>6, <1>10 DEF CliCreate, Bootstrap
<1> QED BY <1>4, <1>7, <1>8, <1>9, <1>10 DEF Next

\* The request that takes an administrator away leaves the other one it has counted.
LEMMA OneAdminGoes ==
  ASSUME Inv, NEW r \in Requests, DeleteDrops(r) \/ Put(r), ~proc[r].outdated,
         AdminsOf(users) # {}
  PROVE  AdminsOf(users') # {}
<1> DEFINE q == proc[r]
<1>1. q \in Request /\ RequestGood(q, users, lastId) /\ Counted(q, users) /\ q.at \in {"drop", "put"}
  BY DEF Inv, RequestsInv, CountedInv, DeleteDrops, Put, At
<1>2. q.user \in Ids /\ q.off \in BOOLEAN /\ (q.at = "put" => q.name \in Names)
  BY <1>1 DEF RequestGood, HasUser, Request
<1>3. q.outdated = proc[r].outdated
  OBVIOUS
<1>4. \A id \in Ids \ {q.user} : users'[id] = users[id]
  BY <1>2 DEF DeleteDrops, Put, Inv, UsersInv, UsersGood
<1>5. CASE Doomed(q)
  <2>1. CASE q.user \in AdminsOf(users)
    <3>1. PICK other \in AdminsOf(users) : other # q.user
      BY <1>1, <1>3, <1>5, <2>1 DEF Counted, AdminsOf
    <3>2. other \in AdminsOf(users')
      BY <1>4, <3>1 DEF AdminsOf
    <3> QED BY <3>2
  <2>2. CASE q.user \notin AdminsOf(users)
    BY <1>4, <2>2 DEF AdminsOf
  <2> QED BY <2>1, <2>2
<1>6. CASE ~Doomed(q)
  <2>1. Put(r) /\ ~q.off /\ q.at = "put"
    BY <1>1, <1>6 DEF Doomed, DeleteDrops, At
  <2>2. CASE UNCHANGED users
    BY <2>2
  <2>3. CASE ~UNCHANGED users
    <3>1. Exists(q.user) /\ users' = [users EXCEPT ![q.user] = Edited(users[q.user], q.name, q.off)]
      BY <2>1, <2>3 DEF Put
    <3>2. users[q.user] \in Row
      BY <1>2, <3>1, NoneIsNone DEF Exists, Inv, UsersInv, UsersGood
    <3> DEFINE row == Edited(users[q.user], q.name, q.off)
    <3>3. row # NoRow /\ row.role = users[q.user].role /\ row.disabled = FALSE
      BY <1>2, <2>1, <3>2, EditTypes
    <3> HIDE DEF row
    <3>4. users' = [users EXCEPT ![q.user] = row]
      BY <3>1 DEF row
    <3> HIDE DEF q
    <3>5. users'[q.user] = row
      BY <1>2, <3>4 DEF Inv, UsersInv, UsersGood
    <3>6. AdminsOf(users) \subseteq AdminsOf(users')
      BY <1>4, <3>3, <3>5 DEF AdminsOf
    <3> QED BY <3>6
  <2> QED BY <2>2, <2>3
<1> QED BY <1>5, <1>6

\* The last enabled administrator goes only by a request that counted another one, which
\* has gone since.
THEOREM LastAdminRemains == Spec => AdminRemains
<1>1. ASSUME Inv, [Next]_vars, EnabledAdmins # {}, EnabledAdmins' = {}
      PROVE  \E r \in Requests : proc'[r].at # proc[r].at /\ proc[r].outdated
  <2>1. AdminsOf(users) # {} /\ AdminsOf(users') = {}
    BY <1>1 DEF EnabledAdmins, AdminsOf, Exists
  <2>2. Next
    BY <1>1 DEF vars, EnabledAdmins, Exists
  <2>3. PICK r \in Requests : DeleteDrops(r) \/ Put(r)
    BY <1>1, <2>1, <2>2, AdminsStay
  <2>4. proc[r].outdated
    BY <1>1, <2>1, <2>3, OneAdminGoes
  <2>5. proc'[r].at # proc[r].at
    <3>1. proc[r].at \in {"drop", "put"}
      BY <2>3 DEF DeleteDrops, Put, At
    <3>2. Idle.at = "idle" /\ AfterPut(proc[r]).at \in {"idle", "revoke"}
      BY DEF AfterPut, Idle
    <3>3. proc'[r] \in {Idle, AfterPut(proc[r])}
      BY <1>1, <2>3 DEF DeleteDrops, Put, WithoutAdmin, LettingIn, Ends, Goes, Inv, RequestsInv
    <3> QED BY <3>1, <3>2, <3>3
  <2> QED BY <2>4, <2>5
<1>2. Inv /\ [Next]_vars =>
        [EnabledAdmins # {} /\ EnabledAdmins' = {} =>
           \E r \in Requests : proc'[r].at # proc[r].at /\ proc[r].outdated]_vars
  BY <1>1
<1> QED BY <1>2, Invariant, PTL DEF Spec, AdminRemains

-----------------------------------------------------------------------------
(* The login limiter.                                                      *)

\* The attempts an address has in flight at a door.
Checking(d, i) == {t \in Tries : tries[t] = AtDoor("checking", d, i)}

\* While a window lasts, the attempts in flight can still add to its count:
\* count and attempts in flight are bounded together.
WithInFlight ==
  \A d \in Doors, i \in IPs :
    ~Over(entries[d][i]) =>
      entries[d][i].count + Cardinality(Checking(d, i)) <= PerWindow

\* The inductive invariant for the failures of one window.
IInv == LimiterTypeOK /\ WithInFlight /\ FailuresBounded

\* How the failures of the last ticks lie in the windows, for an entry and the
\* record of its address.  A window that is not over has counted all the
\* failures since it was opened but the one that opened it.  What lies before it
\* in the stretch belongs to one window more, whose opening failure has left the
\* stretch, as it came at least Window ticks before this one was opened.
Placed(e, f) ==
  /\ \A k \in 1 .. Window - 1 : f[k] <= f[k + 1]
  /\ Over(e) => f[Window] <= PerWindow - 1
  /\ ~Over(e) =>
       /\ e.count \in 1 .. PerWindow
       /\ \A k \in 1 .. e.age : f[k] <= e.count - 1
       /\ f[Window] <= e.count + PerWindow - 1

Stretches == \A d \in Doors, i \in IPs : Placed(entries[d][i], recent[d][i])

-----------------------------------------------------------------------------

\* What the operations of the limiter do to an entry.
LEMMA EntryFacts ==
  ASSUME NEW e \in LimiterEntry
  PROVE  /\ NoFailedLogin \in LimiterEntry
         /\ e.age \in 0 .. Window
         /\ e.count \in Nat
         /\ Fail(e) \in LimiterEntry
         /\ Older(e) \in LimiterEntry
         /\ Older(e).count = e.count
         /\ Over(e) => Over(Older(e))
BY LimiterAssumption DEF NoFailedLogin, LimiterEntry, Fail, Older, Over

\* The records of recent failures stay records of recent failures.
LEMMA RecentFacts ==
  ASSUME NEW f \in Recent
  PROVE  NoFailures \in Recent /\ OneMore(f) \in Recent /\ Shifted(f) \in Recent
BY LimiterAssumption DEF Recent, NoFailures, OneMore, Shifted

\* PerWindow is a number, and no less than the number of requests.
LEMMA PerWindowFacts ==
  /\ PerWindow \in Nat
  /\ Cardinality(Tries) \in Nat
  /\ Cardinality(Tries) <= PerWindow
<1>1. Cardinality(Tries) \in Nat
  BY LimiterAssumption, FS_CardinalityType
<1> QED
  BY <1>1, LimiterAssumption DEF PerWindow

\* The attempts in flight are some of the requests.
LEMMA CheckingFacts ==
  ASSUME NEW d \in Doors, NEW i \in IPs
  PROVE  /\ IsFiniteSet(Checking(d, i))
         /\ Cardinality(Checking(d, i)) \in Nat
         /\ Cardinality(Checking(d, i)) <= Cardinality(Tries)
<1>1. Checking(d, i) \subseteq Tries
  BY DEF Checking
<1>2. /\ IsFiniteSet(Checking(d, i))
      /\ Cardinality(Checking(d, i)) <= Cardinality(Tries)
  BY <1>1, LimiterAssumption, FS_Subset
<1> QED
  BY <1>2, FS_CardinalityType

\* The invariant holds at the start.
LEMMA InitIInv == LimiterInit => IInv
<1> SUFFICES ASSUME LimiterInit PROVE IInv
  OBVIOUS
<1>1. LimiterTypeOK
  <2>1. NoFailedLogin \in LimiterEntry /\ NoFailures \in Recent /\ NoAttempt \in TryState
    BY DEF LimiterEntry, NoFailures, Recent, TryState
  <2> QED
    BY <2>1 DEF LimiterInit, LimiterTypeOK
<1>2. \A d \in Doors, i \in IPs : Over(entries[d][i])
  BY LimiterAssumption DEF LimiterInit, Over, NoFailedLogin
<1>3. \A d \in Doors, i \in IPs : entries[d][i].count = 0
  BY DEF LimiterInit, NoFailedLogin
<1>4. FailuresBounded
  BY <1>3, PerWindowFacts DEF FailuresBounded
<1> QED
  BY <1>1, <1>2, <1>4 DEF IInv, WithInFlight

\* Types survive a step.
LEMMA TypeStep == LimiterTypeOK /\ [LimiterNext]_limiterVars => LimiterTypeOK'
<1> SUFFICES ASSUME LimiterTypeOK, [LimiterNext]_limiterVars PROVE LimiterTypeOK'
  OBVIOUS
<1>0. /\ entries \in [Doors -> [IPs -> LimiterEntry]]
      /\ tries \in [Tries -> TryState]
      /\ recent \in [Doors -> [IPs -> Recent]]
  BY DEF LimiterTypeOK
<1>a. /\ NoAttempt \in TryState
      /\ \A s \in {"checking", "refused"}, d \in Doors, i \in IPs :
            AtDoor(s, d, i) \in TryState
  BY DEF TryState
<1>1. ASSUME NEW t \in Tries, NEW d \in Doors, NEW i \in IPs, Attempt(t, d, i)
      PROVE  LimiterTypeOK'
  BY <1>1, <1>0, <1>a DEF Attempt, LimiterTypeOK
<1>2. ASSUME NEW t \in Tries, NEW d \in Doors, NEW i \in IPs, Refuse(t, d, i)
      PROVE  LimiterTypeOK'
  BY <1>2, <1>0, <1>a DEF Refuse, Refusal, LimiterTypeOK
<1>3. ASSUME NEW t \in Tries, NEW d \in Doors, NEW i \in IPs,
             WrongCredentials(t, d, i)
      PROVE  LimiterTypeOK'
  <2>1. Fail(entries[d][i]) \in LimiterEntry
    BY <1>0, EntryFacts
  <2>2. OneMore(recent[d][i]) \in Recent
    BY <1>0, RecentFacts
  <2> QED
    BY <1>3, <1>0, <1>a, <2>1, <2>2 DEF WrongCredentials, LimiterTypeOK
<1>4. ASSUME NEW t \in Tries, NEW d \in Doors, NEW i \in IPs,
             RightCredentials(t, d, i)
      PROVE  LimiterTypeOK'
  <2>1. NoFailedLogin \in LimiterEntry
    BY DEF LimiterEntry
  <2>2. NoFailures \in Recent
    BY DEF NoFailures, Recent
  <2> QED
    BY <1>4, <1>0, <1>a, <2>1, <2>2 DEF RightCredentials, LimiterTypeOK
<1>5. ASSUME NEW t \in Tries, Refused(t) PROVE LimiterTypeOK'
  BY <1>5, <1>0, <1>a DEF Refused, LimiterTypeOK
<1>6. ASSUME LimiterTick PROVE LimiterTypeOK'
  <2>1. \A d \in Doors, i \in IPs : Older(entries[d][i]) \in LimiterEntry
    BY <1>0, EntryFacts
  <2>2. \A d \in Doors, i \in IPs : Shifted(recent[d][i]) \in Recent
    BY <1>0, RecentFacts
  <2> QED
    BY <1>6, <1>0, <2>1, <2>2 DEF LimiterTick, LimiterTypeOK
<1>7. ASSUME LimiterRestart PROVE LimiterTypeOK'
  <2>1. NoFailedLogin \in LimiterEntry
    BY DEF LimiterEntry
  <2>2. NoFailures \in Recent
    BY DEF NoFailures, Recent
  <2> QED
    BY <1>7, <1>a, <2>1, <2>2 DEF LimiterRestart, LimiterTypeOK
<1>8. ASSUME UNCHANGED limiterVars PROVE LimiterTypeOK'
  BY <1>8 DEF limiterVars, LimiterTypeOK
<1> QED
  BY <1>1, <1>2, <1>3, <1>4, <1>5, <1>6, <1>7, <1>8 DEF LimiterNext

\* A step leaves the bound of one entry alone when it lets nobody in and makes
\* the count no greater and the window no younger.
LEMMA BoundKept ==
  ASSUME LimiterTypeOK, LimiterTypeOK', WithInFlight, FailuresBounded,
         NEW d \in Doors, NEW i \in IPs,
         Checking(d, i)' \subseteq Checking(d, i),
         entries'[d][i].count <= entries[d][i].count,
         Over(entries[d][i]) => Over(entries'[d][i])
  PROVE  /\ entries'[d][i].count <= PerWindow
         /\ ~Over(entries'[d][i]) =>
              entries'[d][i].count + Cardinality(Checking(d, i)') <= PerWindow
<1>1. /\ Cardinality(Checking(d, i)') <= Cardinality(Checking(d, i))
      /\ IsFiniteSet(Checking(d, i)')
  BY CheckingFacts, FS_Subset
<1>2. Cardinality(Checking(d, i)') \in Nat
  BY <1>1, FS_CardinalityType
<1>3. entries[d][i].count \in Nat /\ entries'[d][i].count \in Nat
  BY EntryFacts DEF LimiterTypeOK
<1> QED
  BY <1>1, <1>2, <1>3, CheckingFacts, PerWindowFacts DEF WithInFlight, FailuresBounded

\* The bound survives a step.  Only a failure raises a count, and a failure is
\* an attempt in flight less; only an attempt let in is one more in flight, and
\* then the count is below the limit or the window over.
LEMMA BoundStep ==
  IInv /\ LimiterTypeOK' /\ [LimiterNext]_limiterVars => WithInFlight' /\ FailuresBounded'
<1> SUFFICES ASSUME IInv, LimiterTypeOK', [LimiterNext]_limiterVars,
                    NEW d \in Doors, NEW i \in IPs
             PROVE  /\ entries'[d][i].count <= PerWindow
                    /\ ~Over(entries'[d][i]) =>
                         entries'[d][i].count + Cardinality(Checking(d, i)') <= PerWindow
  BY DEF WithInFlight, FailuresBounded, Over, PerWindow
<1> USE DEF IInv
<1>0. entries[d][i] \in LimiterEntry /\ entries'[d][i] \in LimiterEntry
  BY DEF LimiterTypeOK
<1>a. /\ IsFiniteSet(Checking(d, i))
      /\ Cardinality(Checking(d, i)) \in Nat
      /\ Cardinality(Checking(d, i)) <= Cardinality(Tries)
  BY CheckingFacts
<1>b. /\ IsFiniteSet(Checking(d, i)')
      /\ Cardinality(Checking(d, i)') \in Nat
      /\ Cardinality(Checking(d, i)') <= Cardinality(Tries)
  <2>1. Checking(d, i)' \subseteq Tries
    BY DEF Checking
  <2>2. IsFiniteSet(Checking(d, i)') /\ Cardinality(Checking(d, i)') <= Cardinality(Tries)
    BY <2>1, LimiterAssumption, FS_Subset
  <2> QED
    BY <2>2, FS_CardinalityType
<1>c. NoAttempt \notin {AtDoor(s, d, i) : s \in {"checking", "refused"}}
  BY DEF NoAttempt, AtDoor
<1>1. ASSUME NEW t \in Tries, NEW dd \in Doors, NEW ii \in IPs, Attempt(t, dd, ii)
      PROVE  /\ entries'[d][i].count <= PerWindow
             /\ ~Over(entries'[d][i]) =>
                  entries'[d][i].count + Cardinality(Checking(d, i)') <= PerWindow
  <2>1. entries' = entries
    BY <1>1 DEF Attempt
  <2>2. CASE dd = d /\ ii = i
    <3>1. Over(entries[d][i]) \/ entries[d][i].count <= Limit - 1
      BY <1>1, <2>2, <1>0, EntryFacts, LimiterAssumption DEF Attempt, Allow
    <3>2. entries[d][i].count <= PerWindow
      BY DEF FailuresBounded
    <3> QED
      BY <2>1, <3>1, <3>2, <1>0, <1>b, EntryFacts, PerWindowFacts, LimiterAssumption
         DEF PerWindow
  <2>3. CASE ~(dd = d /\ ii = i)
    <3>1. AtDoor("checking", dd, ii) # AtDoor("checking", d, i)
      BY <2>3 DEF AtDoor
    <3>2. Checking(d, i)' \subseteq Checking(d, i)
      BY <1>1, <3>1 DEF Attempt, Checking, LimiterTypeOK
    <3> QED
      BY <2>1, <3>2, <1>0, EntryFacts, BoundKept
  <2> QED
    BY <2>2, <2>3
<1>2. ASSUME NEW t \in Tries, NEW dd \in Doors, NEW ii \in IPs, Refuse(t, dd, ii)
      PROVE  /\ entries'[d][i].count <= PerWindow
             /\ ~Over(entries'[d][i]) =>
                  entries'[d][i].count + Cardinality(Checking(d, i)') <= PerWindow
  <2>1. entries'[d][i] = entries[d][i]
    BY <1>2 DEF Refuse, Refusal, LimiterTypeOK
  <2>2. AtDoor("refused", dd, ii) # AtDoor("checking", d, i)
    BY DEF AtDoor
  <2>3. Checking(d, i)' \subseteq Checking(d, i)
    BY <1>2, <2>2 DEF Refuse, Checking, LimiterTypeOK
  <2> QED
    BY <2>1, <2>3, <1>0, EntryFacts, BoundKept
<1>3. ASSUME NEW t \in Tries, NEW dd \in Doors, NEW ii \in IPs,
             WrongCredentials(t, dd, ii)
      PROVE  /\ entries'[d][i].count <= PerWindow
             /\ ~Over(entries'[d][i]) =>
                  entries'[d][i].count + Cardinality(Checking(d, i)') <= PerWindow
  <2>0. \A s \in Tries : tries'[s] = IF s = t THEN NoAttempt ELSE tries[s]
    BY <1>3 DEF WrongCredentials, LimiterTypeOK
  <2>1. Checking(d, i)' = Checking(d, i) \ {t}
    BY <2>0, <1>c DEF Checking
  <2>2. CASE dd = d /\ ii = i
    <3>1. t \in Checking(d, i)
      BY <1>3, <2>2 DEF WrongCredentials, Checking
    <3>2. Cardinality(Checking(d, i)') = Cardinality(Checking(d, i)) - 1
      BY <1>a, <2>1, <3>1, FS_RemoveElement
    <3>3. entries'[d][i] = Fail(entries[d][i])
      BY <1>3, <2>2 DEF WrongCredentials, LimiterTypeOK
    <3>4. CASE Over(entries[d][i])
      <4>1. entries'[d][i].count = 1
        BY <3>3, <3>4 DEF Fail
      <4> QED
        BY <4>1, <3>2, <1>a, <1>b, PerWindowFacts, LimiterAssumption
    <3>5. CASE ~Over(entries[d][i])
      <4>1. entries'[d][i].count = entries[d][i].count + 1
        BY <3>3, <3>5, <1>0 DEF Fail, LimiterEntry, NoFailedLogin
      <4>2. entries[d][i].count + Cardinality(Checking(d, i)) <= PerWindow
        BY <3>5 DEF WithInFlight
      <4> QED
        BY <4>1, <4>2, <3>2, <1>0, <1>a, <1>b, EntryFacts, PerWindowFacts
    <3> QED
      BY <3>4, <3>5
  <2>3. CASE ~(dd = d /\ ii = i)
    <3>1. entries'[d][i] = entries[d][i]
      BY <1>3, <2>3 DEF WrongCredentials, LimiterTypeOK
    <3>2. entries'[d][i].count <= entries[d][i].count
      BY <3>1, <1>0, EntryFacts
    <3>3. Over(entries[d][i]) => Over(entries'[d][i])
      BY <3>1
    <3>4. Checking(d, i)' \subseteq Checking(d, i)
      BY <2>1
    <3> QED
      BY <3>2, <3>3, <3>4, BoundKept
  <2> QED
    BY <2>2, <2>3
<1>4. ASSUME NEW t \in Tries, NEW dd \in Doors, NEW ii \in IPs,
             RightCredentials(t, dd, ii)
      PROVE  /\ entries'[d][i].count <= PerWindow
             /\ ~Over(entries'[d][i]) =>
                  entries'[d][i].count + Cardinality(Checking(d, i)') <= PerWindow
  <2>0. \A s \in Tries : tries'[s] = IF s = t THEN NoAttempt ELSE tries[s]
    BY <1>4 DEF RightCredentials, LimiterTypeOK
  <2>1. Checking(d, i)' \subseteq Checking(d, i)
    BY <2>0, <1>c DEF Checking
  <2>2. entries'[d][i] = entries[d][i] \/ entries'[d][i] = NoFailedLogin
    BY <1>4 DEF RightCredentials, LimiterTypeOK
  <2>3. Over(NoFailedLogin) /\ NoFailedLogin.count = 0
    BY LimiterAssumption DEF Over, NoFailedLogin
  <2> QED
    BY <2>1, <2>2, <2>3, <1>0, EntryFacts, BoundKept, PerWindowFacts
<1>5. ASSUME NEW t \in Tries, Refused(t)
      PROVE  /\ entries'[d][i].count <= PerWindow
             /\ ~Over(entries'[d][i]) =>
                  entries'[d][i].count + Cardinality(Checking(d, i)') <= PerWindow
  <2>0. \A s \in Tries : tries'[s] = IF s = t THEN NoAttempt ELSE tries[s]
    BY <1>5 DEF Refused, LimiterTypeOK
  <2>1. Checking(d, i)' \subseteq Checking(d, i)
    BY <2>0, <1>c DEF Checking
  <2> QED
    BY <1>5, <2>1, <1>0, EntryFacts, BoundKept DEF Refused
<1>6. ASSUME LimiterTick
      PROVE  /\ entries'[d][i].count <= PerWindow
             /\ ~Over(entries'[d][i]) =>
                  entries'[d][i].count + Cardinality(Checking(d, i)') <= PerWindow
  <2>1. Checking(d, i)' \subseteq Checking(d, i)
    BY <1>6 DEF LimiterTick, Checking
  <2>2. entries'[d][i] = Older(entries[d][i])
    BY <1>6 DEF LimiterTick
  <2> QED
    BY <2>1, <2>2, <1>0, EntryFacts, BoundKept
<1>7. ASSUME LimiterRestart
      PROVE  /\ entries'[d][i].count <= PerWindow
             /\ ~Over(entries'[d][i]) =>
                  entries'[d][i].count + Cardinality(Checking(d, i)') <= PerWindow
  <2>1. entries'[d][i] = NoFailedLogin
    BY <1>7 DEF LimiterRestart
  <2> QED
    BY <2>1, PerWindowFacts, LimiterAssumption DEF NoFailedLogin, Over
<1>8. ASSUME UNCHANGED limiterVars
      PROVE  /\ entries'[d][i].count <= PerWindow
             /\ ~Over(entries'[d][i]) =>
                  entries'[d][i].count + Cardinality(Checking(d, i)') <= PerWindow
  <2>1. Checking(d, i)' \subseteq Checking(d, i) /\ entries' = entries
    BY <1>8 DEF limiterVars, Checking
  <2> QED
    BY <2>1, <1>0, EntryFacts, BoundKept
<1> QED
  BY <1>1, <1>2, <1>3, <1>4, <1>5, <1>6, <1>7, <1>8 DEF LimiterNext

-----------------------------------------------------------------------------

\* There is a request, so a window may count a failure.
LEMMA PerWindowPositive == PerWindow \in Nat \ {0}
<1>1. Cardinality(Tries) \in Nat /\ Cardinality(Tries) # 0
  BY LimiterAssumption, FS_CardinalityType, FS_EmptySet
<1> QED
  BY <1>1, LimiterAssumption DEF PerWindow

\* Without an entry and without failures, everything is in its place.
LEMMA PlacedNew == Placed(NoFailedLogin, NoFailures)
<1>1. Over(NoFailedLogin) /\ Window \in Nat \ {0}
  BY LimiterAssumption DEF Over, NoFailedLogin
<1>2. \A k \in 1 .. Window : NoFailures[k] = 0
  BY DEF NoFailures
<1> QED
  BY <1>1, <1>2, PerWindowPositive DEF Placed

\* A failure stays in its place: it adds one to the count and to the record, or
\* opens a window when the stretch can hold one more of the window before.
LEMMA PlacedFail ==
  ASSUME NEW e \in LimiterEntry, NEW f \in Recent, Placed(e, f), Fail(e).count <= PerWindow
  PROVE  Placed(Fail(e), OneMore(f))
<1>1. /\ Window \in Nat \ {0} /\ PerWindow \in Nat \ {0}
      /\ e.age \in 0 .. Window /\ e.count \in Nat
  BY LimiterAssumption, PerWindowPositive, EntryFacts
<1>2. \A k \in 1 .. Window : f[k] \in Nat /\ OneMore(f)[k] = f[k] + 1
  BY DEF Recent, OneMore
<1>3. \A k \in 1 .. Window - 1 : OneMore(f)[k] <= OneMore(f)[k + 1]
  <2>1. \A k \in 1 .. Window - 1 : k \in 1 .. Window /\ k + 1 \in 1 .. Window
    BY <1>1
  <2> QED
    BY <1>2, <2>1 DEF Placed
<1>4. CASE Over(e)
  <2>1. Fail(e).age = 0 /\ Fail(e).count = 1
    BY <1>4 DEF Fail
  <2>2. OneMore(f)[Window] <= 1 + PerWindow - 1
    BY <1>1, <1>2, <1>4 DEF Placed
  <2> QED
    BY <1>1, <1>3, <2>1, <2>2 DEF Placed, Over
<1>5. CASE ~Over(e)
  <2>1. Fail(e).age = e.age /\ Fail(e).count = e.count + 1
    BY <1>5 DEF Fail, LimiterEntry, NoFailedLogin
  <2>2. e.age < Window
    BY <1>1, <1>5 DEF Over
  <2>3. \A k \in 1 .. e.age : OneMore(f)[k] <= Fail(e).count - 1
    <3>1. \A k \in 1 .. e.age : k \in 1 .. Window /\ f[k] <= e.count - 1
      BY <1>1, <1>5 DEF Placed
    <3> QED
      BY <1>1, <1>2, <2>1, <3>1
  <2>4. OneMore(f)[Window] <= Fail(e).count + PerWindow - 1
    <3>1. f[Window] <= e.count + PerWindow - 1 /\ Window \in 1 .. Window
      BY <1>1, <1>5 DEF Placed
    <3> QED
      BY <1>1, <1>2, <2>1, <3>1
  <2>5. Fail(e).count \in 1 .. PerWindow
    BY <1>1, <2>1
  <2> QED
    BY <1>3, <2>1, <2>2, <2>3, <2>4, <2>5, <1>1 DEF Placed, Over
<1> QED
  BY <1>4, <1>5

\* As time passes the failure that opened the window reaches the end of the
\* stretch in the tick after which the window is over.
LEMMA PlacedOlder ==
  ASSUME NEW e \in LimiterEntry, NEW f \in Recent, Placed(e, f)
  PROVE  Placed(Older(e), Shifted(f))
<1>1. /\ Window \in Nat \ {0} /\ PerWindow \in Nat \ {0}
      /\ e.age \in 0 .. Window /\ e.count \in Nat
  BY LimiterAssumption, PerWindowPositive, EntryFacts
<1>2. /\ \A k \in 1 .. Window : f[k] \in Nat
      /\ \A k \in 1 .. Window : Shifted(f)[k] = IF k = 1 THEN 0 ELSE f[k - 1]
  BY DEF Recent, Shifted
<1>3. /\ Older(e).count = e.count
      /\ Older(e).age = IF e.age < Window THEN e.age + 1 ELSE e.age
  BY DEF Older, LimiterEntry, NoFailedLogin
<1>4. \A k \in 1 .. Window - 1 : Shifted(f)[k] <= Shifted(f)[k + 1]
  <2> SUFFICES ASSUME NEW k \in 1 .. Window - 1
               PROVE  Shifted(f)[k] <= Shifted(f)[k + 1]
    OBVIOUS
  <2>1. k \in 1 .. Window /\ k + 1 \in 1 .. Window /\ k + 1 # 1 /\ (k + 1) - 1 = k
    BY <1>1
  <2>2. Shifted(f)[k + 1] = f[k] /\ f[k] \in Nat
    BY <1>2, <2>1
  <2>3. CASE k = 1
    BY <1>2, <2>1, <2>2, <2>3
  <2>4. CASE k # 1
    <3>1. k - 1 \in 1 .. Window - 1 /\ (k - 1) + 1 = k
      BY <1>1, <2>4
    <3>2. f[k - 1] <= f[(k - 1) + 1]
      BY <3>1 DEF Placed
    <3> QED
      BY <1>2, <2>1, <2>2, <2>4, <3>1, <3>2
  <2> QED
    BY <2>3, <2>4
<1>5. Shifted(f)[Window] <= f[Window]
  <2>1. Window \in 1 .. Window
    BY <1>1
  <2>2. CASE Window = 1
    BY <1>2, <2>1, <2>2
  <2>3. CASE Window # 1
    <3>1. Window - 1 \in 1 .. Window - 1 /\ (Window - 1) + 1 = Window
      BY <1>1, <2>3
    <3>2. f[Window - 1] <= f[(Window - 1) + 1]
      BY <3>1 DEF Placed
    <3> QED
      BY <1>2, <2>1, <2>3, <3>1, <3>2
  <2> QED
    BY <2>2, <2>3
<1>6. Shifted(f)[Window] \in Nat /\ f[Window] \in Nat
  <2>1. Window \in 1 .. Window /\ (Window # 1 => Window - 1 \in 1 .. Window)
    BY <1>1
  <2> QED
    BY <1>2, <2>1
<1>7. CASE Over(e)
  <2>1. Over(Older(e))
    BY <1>7, EntryFacts
  <2>2. Shifted(f)[Window] <= PerWindow - 1
    BY <1>1, <1>5, <1>6, <1>7 DEF Placed
  <2> QED
    BY <1>4, <2>1, <2>2 DEF Placed
<1>8. CASE ~Over(e)
  <2>1. e.age < Window /\ Older(e).age = e.age + 1
    BY <1>1, <1>3, <1>8 DEF Over
  <2>2. /\ e.count \in 1 .. PerWindow
        /\ \A k \in 1 .. e.age : f[k] <= e.count - 1
        /\ f[Window] <= e.count + PerWindow - 1
    BY <1>8 DEF Placed
  <2>3. \A k \in 1 .. Older(e).age : Shifted(f)[k] <= Older(e).count - 1
    <3> SUFFICES ASSUME NEW k \in 1 .. Older(e).age
                 PROVE  Shifted(f)[k] <= Older(e).count - 1
      OBVIOUS
    <3>1. k \in 1 .. Window
      BY <1>1, <2>1
    <3>2. CASE k = 1
      BY <1>2, <1>3, <2>2, <3>1, <3>2
    <3>3. CASE k # 1
      <4>1. k - 1 \in 1 .. e.age
        BY <1>1, <2>1, <3>1, <3>3
      <4> QED
        BY <1>2, <1>3, <2>2, <3>1, <3>3, <4>1
    <3> QED
      BY <3>2, <3>3
  <2>4. CASE Over(Older(e))
    <3>1. Window \in 1 .. Older(e).age
      BY <1>1, <2>1, <2>4 DEF Over
    <3>2. Shifted(f)[Window] <= e.count - 1
      BY <1>3, <2>3, <3>1
    <3>3. Shifted(f)[Window] <= PerWindow - 1
      BY <1>1, <1>6, <2>2, <3>2
    <3> QED
      BY <1>4, <2>4, <3>3 DEF Placed
  <2>5. CASE ~Over(Older(e))
    <3>1. Shifted(f)[Window] <= Older(e).count + PerWindow - 1
      BY <1>1, <1>3, <1>5, <1>6, <2>2
    <3> QED
      BY <1>3, <1>4, <2>2, <2>3, <2>5, <3>1 DEF Placed
  <2> QED
    BY <2>4, <2>5
<1> QED
  BY <1>7, <1>8

\* A step moves failures only as the three lemmas above say.
LEMMA StretchStep ==
  LimiterTypeOK /\ FailuresBounded' /\ Stretches /\ [LimiterNext]_limiterVars => Stretches'
<1> SUFFICES ASSUME LimiterTypeOK, FailuresBounded', Stretches, [LimiterNext]_limiterVars,
                    NEW d \in Doors, NEW i \in IPs
             PROVE  Placed(entries'[d][i], recent'[d][i])
  BY DEF Stretches, Placed, Over, PerWindow
<1>0. /\ entries \in [Doors -> [IPs -> LimiterEntry]]
      /\ recent \in [Doors -> [IPs -> Recent]]
      /\ entries[d][i] \in LimiterEntry /\ recent[d][i] \in Recent
      /\ Placed(entries[d][i], recent[d][i])
  BY DEF LimiterTypeOK, Stretches
<1>1. ASSUME NEW t \in Tries, NEW dd \in Doors, NEW ii \in IPs,
             WrongCredentials(t, dd, ii)
      PROVE  Placed(entries'[d][i], recent'[d][i])
  <2>1. CASE dd = d /\ ii = i
    <3>1. /\ entries'[d][i] = Fail(entries[d][i])
          /\ recent'[d][i] = OneMore(recent[d][i])
      BY <1>0, <1>1, <2>1 DEF WrongCredentials
    <3>2. Fail(entries[d][i]).count <= PerWindow
      BY <3>1 DEF FailuresBounded, PerWindow
    <3> QED
      BY <1>0, <3>1, <3>2, PlacedFail
  <2>2. CASE ~(dd = d /\ ii = i)
    <3>1. entries'[d][i] = entries[d][i] /\ recent'[d][i] = recent[d][i]
      BY <1>0, <1>1, <2>2 DEF WrongCredentials
    <3> QED
      BY <1>0, <3>1
  <2> QED
    BY <2>1, <2>2
<1>2. ASSUME NEW t \in Tries, NEW dd \in Doors, NEW ii \in IPs,
             RightCredentials(t, dd, ii)
      PROVE  Placed(entries'[d][i], recent'[d][i])
  <2>1. \/ entries'[d][i] = NoFailedLogin /\ recent'[d][i] = NoFailures
        \/ entries'[d][i] = entries[d][i] /\ recent'[d][i] = recent[d][i]
    BY <1>0, <1>2 DEF RightCredentials
  <2> QED
    BY <1>0, <2>1, PlacedNew
<1>3. ASSUME NEW t \in Tries, NEW dd \in Doors, NEW ii \in IPs, Refuse(t, dd, ii)
      PROVE  Placed(entries'[d][i], recent'[d][i])
  <2>1. entries'[d][i] = entries[d][i] /\ recent' = recent
    BY <1>0, <1>3 DEF Refuse, Refusal
  <2> QED
    BY <1>0, <2>1
<1>4. CASE LimiterTick
  <2>1. /\ entries'[d][i] = Older(entries[d][i])
        /\ recent'[d][i] = Shifted(recent[d][i])
    BY <1>4 DEF LimiterTick
  <2> QED
    BY <1>0, <2>1, PlacedOlder
<1>5. CASE LimiterRestart
  <2>1. entries'[d][i] = NoFailedLogin /\ recent'[d][i] = NoFailures
    BY <1>5 DEF LimiterRestart
  <2> QED
    BY <2>1, PlacedNew
<1>6. CASE UNCHANGED <<entries, recent>>
  BY <1>0, <1>6
<1>7. \/ \E t \in Tries, dd \in Doors, ii \in IPs :
          \/ WrongCredentials(t, dd, ii)
          \/ RightCredentials(t, dd, ii)
          \/ Refuse(t, dd, ii)
      \/ LimiterTick
      \/ LimiterRestart
      \/ UNCHANGED <<entries, recent>>
  BY DEF LimiterNext, limiterVars, Attempt, Refused
<1> QED
  BY <1>1, <1>2, <1>3, <1>4, <1>5, <1>6, <1>7

-----------------------------------------------------------------------------

\* Entries and requests of the limiter always have their types, and an entry
\* that is there has counted a failure.
THEOREM LimiterTypeCorrect == LimiterSpec => []LimiterTypeOK
<1>1. LimiterInit => LimiterTypeOK
  BY InitIInv DEF IInv
<1>2. LimiterTypeOK /\ [LimiterNext]_limiterVars => LimiterTypeOK'
  BY TypeStep
<1> QED
  BY <1>1, <1>2, PTL DEF LimiterSpec

\* However many requests of one address are in flight, and however Allow and
\* Fail interleave, no window of NewLoginLimiter counts more than Limit - 1
\* failures and one for each of them.
THEOREM FailuresAlwaysBounded == LimiterSpec => []FailuresBounded
<1>1. LimiterInit => IInv
  BY InitIInv
<1>2. IInv /\ [LimiterNext]_limiterVars => IInv'
  BY TypeStep, BoundStep DEF IInv
<1>3. IInv => FailuresBounded
  BY DEF IInv
<1> QED
  BY <1>1, <1>2, <1>3, PTL DEF LimiterSpec

\* Windows do not slide, so a stretch of that length may meet two of them.  It
\* never holds twice what one window counts: the failure that opened the earlier
\* one has left the stretch when the later one is opened.
THEOREM StretchAlwaysBounded == LimiterSpec => []AnyStretchBounded
<1>1. LimiterInit => Stretches
  BY PlacedNew DEF LimiterInit, Stretches
<1>2. IInv /\ Stretches /\ [LimiterNext]_limiterVars => IInv' /\ Stretches'
  BY TypeStep, BoundStep, StretchStep DEF IInv
<1>3. IInv /\ Stretches => AnyStretchBounded
  <2> SUFFICES ASSUME IInv, Stretches, NEW d \in Doors, NEW i \in IPs
               PROVE  recent[d][i][Window] <= 2 * PerWindow - 1
    BY DEF AnyStretchBounded
  <2>1. /\ Window \in 1 .. Window /\ recent[d][i] \in Recent
        /\ Placed(entries[d][i], recent[d][i])
    BY LimiterAssumption DEF IInv, LimiterTypeOK, Stretches
  <2>2. recent[d][i][Window] \in Nat
    BY <2>1 DEF Recent
  <2> QED
    BY <2>1, <2>2, PerWindowPositive DEF Placed
<1>4. LimiterInit => IInv
  BY InitIInv
<1> QED
  BY <1>1, <1>2, <1>3, <1>4, PTL DEF LimiterSpec
=============================================================================
