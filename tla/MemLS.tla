------------------------------- MODULE MemLS -------------------------------
(***************************************************************************)
(* The in-memory WebDAV lock table of the server (type memLS), as pure     *)
(* operators: each takes the table as it is when the mutex m.mu is taken   *)
(* and returns the table as it is when the mutex is given back.  The       *)
(* modules LockService and DavLocking turn them into actions.              *)
(*                                                                         *)
(* A table m is a record with the fields of the Go struct:                 *)
(*   gen       the token counter;                                          *)
(*   byName    the node of every resource name, NoNode where the map has   *)
(*             no entry (an entry is deleted as its refCount reaches 0);   *)
(*   byToken   the name whose node carries the token, NoName if none;      *)
(*   byExpiry  the names whose node is on the expiry heap, that is those   *)
(*             with byExpiryIndex >= 0.                                    *)
(* Resource names are clean absolute paths, already scoped to the root of  *)
(* the user, and opaque here: WalkToRoot[n] is the set of names the Go     *)
(* function visits from n, n itself and its ancestors up to "/".           *)
(***************************************************************************)
EXTENDS Integers, FiniteSets

CONSTANTS Name,         \* the resource names (the scoped, clean paths)
          NoName,       \* the empty name ""
          WalkToRoot,   \* name |-> itself and its ancestors
          Duration,     \* the lock timeouts clients ask for, in clock ticks
          MaxGen        \* bound on the tokens ever issued

ASSUME NameAssumption ==
  /\ IsFiniteSet(Name)
  /\ NoName \notin Name
  /\ WalkToRoot \in [Name -> SUBSET Name]
  /\ \A n \in Name : n \in WalkToRoot[n]
  /\ \A n \in Name : \A a, b \in WalkToRoot[n] :
        a \in WalkToRoot[b] \/ b \in WalkToRoot[a]

ASSUME BoundAssumption ==
  /\ MaxGen \in Nat
  /\ Duration \subseteq Nat

Infinite == -1          \* infiniteTimeout: any negative duration
NoToken == 0            \* the empty token ""
Token == 1 .. MaxGen

Node == [token     : Token \cup {NoToken},
         zeroDepth : BOOLEAN,
         duration  : Nat \cup {Infinite},
         expiry    : Nat,
         refCount  : Nat,
         held      : BOOLEAN]

NoNode == [token |-> NoToken, zeroDepth |-> FALSE, duration |-> 0,
           expiry |-> 0, refCount |-> 0, held |-> FALSE]

Table == [gen      : 0 .. MaxGen,
          byName   : [Name -> Node],
          byToken  : [Token -> Name \cup {NoName}],
          byExpiry : SUBSET Name]

NewMemLS == [gen      |-> 0,
             byName   |-> [n \in Name |-> NoNode],
             byToken  |-> [t \in Token |-> NoName],
             byExpiry |-> {}]

-----------------------------------------------------------------------------
(* Reading the table. *)

Locked(m, n) == m.byName[n].token # NoToken

\* A node of the map that carries no lock stands for locked descendants only.
Present(m, n) == m.byName[n].refCount # 0

\* The lock on root n covers the resource x.
Covers(m, n, x) ==
  x = n \/ (~m.byName[n].zeroDepth /\ n \in WalkToRoot[x])

Live(m) == {t \in Token : m.byToken[t] # NoName}

-----------------------------------------------------------------------------
(* What a table that was only ever changed by the methods below looks like. *)

\* No lock covers the root of another one.
NoConflict(m) ==
  \A k, l \in Name :
    (Locked(m, k) /\ Locked(m, l) /\ k # l) => ~Covers(m, k, l)

LockedBelow(m, n) == {k \in Name : Locked(m, k) /\ n \in WalkToRoot[k]}

TokensInverse(m) ==
  \A t \in Token, n \in Name : m.byToken[t] = n <=> m.byName[n].token = t

TokensIssued(m) == \A t \in Token : m.byToken[t] # NoName => t <= m.gen

RefCountsExact(m) ==
  \A n \in Name : m.byName[n].refCount = Cardinality(LockedBelow(m, n))

HeapExact(m) ==
  /\ m.byExpiry = {n \in Name : /\ Locked(m, n)
                                /\ m.byName[n].duration # Infinite
                                /\ ~m.byName[n].held}
  /\ \A n \in Name : m.byName[n].held => Locked(m, n)

IndexesAgree(m) ==
  /\ TokensInverse(m)
  /\ TokensIssued(m)
  /\ RefCountsExact(m)
  /\ HeapExact(m)

-----------------------------------------------------------------------------
(* Expiry and removal.                                                     *)

\* The operators named Faulty... are seeded faults, one for each property of the
\* runs: a run is repeated with the fault in the place of the operator it names.

\* remove forgetting to delete the token from byToken.
FaultyRemove(m, R) ==
  LET left(n) == m.byName[n].refCount
                   - Cardinality({r \in R : n \in WalkToRoot[r]})
  IN  [gen      |-> m.gen,
       byName   |-> [n \in Name |->
                       IF left(n) = 0 THEN NoNode
                       ELSE IF n \in R THEN [NoNode EXCEPT !.refCount = left(n)]
                       ELSE [m.byName[n] EXCEPT !.refCount = left(n)]],
       byToken  |-> m.byToken,
       byExpiry |-> m.byExpiry \ R]

\* remove takes a node off byToken and byExpiry and one reference off every
\* node on its way to the root.  The operator removes a set of nodes at once:
\* the order in which the loop of collectExpiredNodes takes them is immaterial.
Remove(m, R) ==
  LET left(n) == m.byName[n].refCount
                   - Cardinality({r \in R : n \in WalkToRoot[r]})
  IN  [gen      |-> m.gen,
       byName   |-> [n \in Name |->
                       IF left(n) = 0 THEN NoNode
                       ELSE IF n \in R THEN [NoNode EXCEPT !.refCount = left(n)]
                       ELSE [m.byName[n] EXCEPT !.refCount = left(n)]],
       byToken  |-> [t \in Token |->
                       IF \E r \in R : m.byName[r].token = t
                       THEN NoName ELSE m.byToken[t]],
       byExpiry |-> m.byExpiry \ R]

\* The expiry test with Before where the code has !After.
FaultyExpired(m, now) == {n \in m.byExpiry : m.byName[n].expiry < now}

\* Only nodes on the heap expire: a held lock is off it and outlives its expiry.
Expired(m, now) == {n \in m.byExpiry : m.byName[n].expiry <= now}

CollectExpiredNodes(m, now) == Remove(m, Expired(m, now))

-----------------------------------------------------------------------------
(* Create.                                                                 *)

\* canCreate letting a lock of infinite depth in above an existing lock.
FaultyCanCreate(m, name, zeroDepth) ==
  \A x \in WalkToRoot[name] :
     (Present(m, x) /\ Locked(m, x)) => x # name /\ m.byName[x].zeroDepth

CanCreate(m, name, zeroDepth) ==
  \A x \in WalkToRoot[name] :
     Present(m, x) =>
        IF x = name
        THEN ~Locked(m, x) /\ zeroDepth
        ELSE Locked(m, x) => m.byName[x].zeroDepth

\* create and the rest of Create: reference every node up to the root, then
\* put the details and a fresh token on the first of them.  The expiry of a
\* lock without timeout is not read; it is 0 here.
Insert(m, now, name, zeroDepth, duration) ==
  LET token == m.gen + 1
      timed == duration # Infinite
      counted(n) == m.byName[n].refCount
                      + (IF n \in WalkToRoot[name] THEN 1 ELSE 0)
  IN  [gen      |-> token,
       byName   |-> [n \in Name |->
                       IF n = name
                       THEN [token |-> token, zeroDepth |-> zeroDepth,
                             duration |-> duration,
                             expiry |-> IF timed THEN now + duration ELSE 0,
                             refCount |-> counted(n),
                             held |-> m.byName[n].held]
                       ELSE [m.byName[n] EXCEPT !.refCount = counted(n)]],
       byToken  |-> [m.byToken EXCEPT ![token] = name],
       byExpiry |-> IF timed THEN m.byExpiry \cup {name} ELSE m.byExpiry]

-----------------------------------------------------------------------------
(* Unlock and Refresh.                                                     *)

\* Both Refresh and Unlock look the token up, then refuse a held node.
Verdict(m, token) ==
  IF m.byToken[token] = NoName THEN "no such lock"
  ELSE IF m.byName[m.byToken[token]].held THEN "locked" ELSE "ok"

\* The whole of Unlock, from taking the mutex to giving it back.
Unlocked(m, now, token) ==
  LET c == CollectExpiredNodes(m, now)
  IN  IF Verdict(c, token) = "ok" THEN Remove(c, {c.byToken[token]}) ELSE c

(* Refresh: the node leaves the heap, gets the new duration and returns to *)
(* the heap if that is finite.                                             *)

\* Refresh not taking the node off the heap first.
FaultyExtend(m, now, name, duration) ==
  LET timed == duration # Infinite
  IN  [gen      |-> m.gen,
       byName   |-> [m.byName EXCEPT
                       ![name].duration = duration,
                       ![name].expiry = IF timed THEN now + duration ELSE 0],
       byToken  |-> m.byToken,
       byExpiry |-> IF timed THEN m.byExpiry \cup {name} ELSE m.byExpiry]

Extend(m, now, name, duration) ==
  LET timed == duration # Infinite
  IN  [gen      |-> m.gen,
       byName   |-> [m.byName EXCEPT
                       ![name].duration = duration,
                       ![name].expiry = IF timed THEN now + duration ELSE 0],
       byToken  |-> m.byToken,
       byExpiry |-> IF timed THEN m.byExpiry \cup {name}
                    ELSE m.byExpiry \ {name}]

-----------------------------------------------------------------------------
(* Confirm and its release closure.                                        *)

\* lookup without the test that nobody holds the node.
FaultyLookupHeld(m, x, tokens) ==
  {n \in Name : /\ \E t \in tokens \cap Token : m.byToken[t] = n
                /\ Covers(m, n, x)}

\* lookup taking every lock for one of infinite depth.
FaultyLookupDepth(m, x, tokens) ==
  {n \in Name : /\ \E t \in tokens \cap Token : m.byToken[t] = n
                /\ ~m.byName[n].held
                /\ n \in WalkToRoot[x]}

\* The nodes lookup may answer for a resource, given the tokens of the
\* conditions: the lock must cover the resource and not be held by another.
Lookup(m, x, tokens) ==
  {n \in Name : /\ \E t \in tokens \cap Token : m.byToken[t] = n
                /\ ~m.byName[n].held
                /\ Covers(m, n, x)}

WithHeld(m, nodes, flag) ==
  [n \in Name |-> IF n \in nodes THEN [m.byName[n] EXCEPT !.held = flag]
                  ELSE m.byName[n]]

Timed(m, nodes) == {n \in nodes : m.byName[n].duration # Infinite}

\* hold leaving the node on the heap.
FaultyHold(m, nodes) ==
  [gen |-> m.gen, byName |-> WithHeld(m, nodes, TRUE), byToken |-> m.byToken,
   byExpiry |-> m.byExpiry]

\* hold takes a timed node off the heap, so that it cannot expire while held.
Hold(m, nodes) ==
  [gen |-> m.gen, byName |-> WithHeld(m, nodes, TRUE), byToken |-> m.byToken,
   byExpiry |-> m.byExpiry \ Timed(m, nodes)]

\* unhold puts it back with the expiry it had.
Unhold(m, nodes) ==
  [gen |-> m.gen, byName |-> WithHeld(m, nodes, FALSE), byToken |-> m.byToken,
   byExpiry |-> m.byExpiry \cup Timed(m, nodes)]

=============================================================================
