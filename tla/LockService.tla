---------------------------- MODULE LockService ----------------------------
(***************************************************************************)
(* The lock table of MemLS serving concurrent callers.  Each method of the *)
(* LockSystem interface runs under the mutex m.mu from its first line to   *)
(* its return, so it is one step; the release closure of a Confirm is a    *)
(* step of its own, at any later time.  A caller reads the clock before it *)
(* asks for the mutex, so a call may bring any earlier reading.            *)
(***************************************************************************)
EXTENDS MemLS

CONSTANTS Caller,       \* goroutines that may have a release pending
          MaxTime       \* bound on the clock

ASSUME TimeAssumption == MaxTime \in Nat

VARIABLES m,        \* the table
          claims,   \* per caller: what its pending release closure stands for
          clock,    \* wall-clock time
          reply     \* the result of the last call

vars == <<m, claims, clock, reply>>

Readings == 0 .. clock

\* A pending release captures nodes; while it is pending a node is told by its
\* token.  named are the resources the claim was confirmed for.
NoClaim == [named |-> {}, tokens |-> {}]

Claim == [named : SUBSET Name, tokens : SUBSET Token]

Init ==
  /\ m = NewMemLS
  /\ claims = [p \in Caller |-> NoClaim]
  /\ clock = 0
  /\ reply = "none"

Tick ==
  /\ clock < MaxTime
  /\ clock' = clock + 1
  /\ UNCHANGED <<m, claims, reply>>

Create(now, name, zeroDepth, duration) ==
  LET c == CollectExpiredNodes(m, now)
  IN  /\ IF CanCreate(c, name, zeroDepth)
         THEN /\ m.gen < MaxGen
              /\ m' = Insert(c, now, name, zeroDepth, duration)
              /\ reply' = "ok"
         ELSE /\ m' = c
              /\ reply' = "locked"
      /\ UNCHANGED <<claims, clock>>

Refresh(now, token, duration) ==
  LET c == CollectExpiredNodes(m, now)
  IN  /\ reply' = Verdict(c, token)
      /\ m' = IF Verdict(c, token) = "ok"
              THEN Extend(c, now, c.byToken[token], duration)
              ELSE c
      /\ UNCHANGED <<claims, clock>>

Unlock(now, token) ==
  /\ reply' = Verdict(CollectExpiredNodes(m, now), token)
  /\ m' = Unlocked(m, now, token)
  /\ UNCHANGED <<claims, clock>>

\* Confirm for up to two resources (x = y stands for one): each needs a node,
\* and both nodes are held, once if they are the same.
Confirm(p, now, x, y, tokens) ==
  LET c == CollectExpiredNodes(m, now)
  IN  /\ claims[p] = NoClaim
      /\ \/ \E n0 \in Lookup(c, x, tokens), n1 \in Lookup(c, y, tokens) :
              /\ m' = Hold(c, {n0, n1})
              /\ claims' = [claims EXCEPT ![p] =
                              [named  |-> {x, y},
                               tokens |-> {c.byName[n0].token,
                                           c.byName[n1].token}]]
              /\ reply' = "ok"
         \/ /\ Lookup(c, x, tokens) = {} \/ Lookup(c, y, tokens) = {}
            /\ m' = c
            /\ reply' = "confirmation failed"
            /\ UNCHANGED claims
      /\ UNCHANGED clock

Release(p) ==
  /\ claims[p] # NoClaim
  /\ m' = Unhold(m, {m.byToken[t] : t \in claims[p].tokens})
  /\ claims' = [claims EXCEPT ![p] = NoClaim]
  /\ reply' = "ok"
  /\ UNCHANGED clock

Next ==
  \/ Tick
  \/ \E now \in Readings :
       \/ \E name \in Name, zeroDepth \in BOOLEAN,
             duration \in Duration \cup {Infinite} :
            Create(now, name, zeroDepth, duration)
       \/ \E token \in Token, duration \in Duration \cup {Infinite} :
            Refresh(now, token, duration)
       \/ \E token \in Token : Unlock(now, token)
       \/ \E p \in Caller, x, y \in Name, tokens \in SUBSET (1 .. m.gen) :
            Confirm(p, now, x, y, tokens)
  \/ \E p \in Caller : Release(p)

Spec == Init /\ [][Next]_vars

-----------------------------------------------------------------------------
(* Properties.                                                             *)

Replies == {"none", "ok", "locked", "no such lock", "confirmation failed"}

\* The table, the pending releases, the clock and the replies are of the
\* types the Go code declares.
TypeOK ==
  /\ m \in Table
  /\ claims \in [Caller -> Claim]
  /\ clock \in 0 .. MaxTime
  /\ reply \in Replies

\* Two locks never cover the root of one another: what canCreate decides by
\* walking to the root over reference counts holds of every pair of locks,
\* whatever was created, unlocked and expired in between.
Exclusive == NoConflict(m)

\* The node a pending release will unhold is still the one it held: its lock
\* was not unlocked, removed or expired meanwhile, no other release is pending
\* for it, and unhold does not panic with "inconsistent held state".
ReleaseFindsItsNodes ==
  /\ \A p \in Caller : \A t \in claims[p].tokens :
        m.byToken[t] # NoName /\ m.byName[m.byToken[t]].held
  /\ \A p, q \in Caller :
        p # q => claims[p].tokens \cap claims[q].tokens = {}

\* While two confirmed requests are both pending they name no common resource:
\* what the comment on Confirm calls exclusive access to the named resources.
ClaimsDisjoint ==
  \A p, q \in Caller :
    p # q => claims[p].named \cap claims[q].named = {}

\* The index structures of the table agree with its locks: byToken and the
\* tokens of the nodes are inverse, the reference count of a node is the number
\* of locks at or below it (so canCreate sees every locked descendant, and the
\* map keeps no node nobody needs), the expiry heap holds exactly the timed
\* locks nobody holds; and only a node with a pending release is held, so a
\* lock does not become immune to UNLOCK and to its timeout for ever.
IndexOK ==
  /\ IndexesAgree(m)
  /\ \A n \in Name : m.byName[n].held =>
        \E p \in Caller : m.byName[n].token \in claims[p].tokens

\* A claim names only resources that its locks cover.
ClaimsCovered ==
  \A p \in Caller : \A x \in claims[p].named :
    \E t \in claims[p].tokens :
      m.byToken[t] # NoName /\ Covers(m, m.byToken[t], x)

\* The inductive invariant behind all of the above: every call of the mutex
\* leaves the table, and what the pending releases know of it, consistent.
Inv ==
  /\ TypeOK
  /\ Exclusive
  /\ IndexOK
  /\ ReleaseFindsItsNodes
  /\ ClaimsCovered

-----------------------------------------------------------------------------
(* The table implements the interface.                                     *)

DeadlineOf(n) ==
  IF m.byName[n].duration = Infinite THEN Infinite ELSE m.byName[n].expiry

Granted == [t \in Live(m) |->
              [root      |-> m.byToken[t],
               zeroDepth |-> m.byName[m.byToken[t]].zeroDepth,
               deadline  |-> DeadlineOf(m.byToken[t])]]

Interface == INSTANCE LockSystem WITH locks <- Granted, issued <- m.gen

\* Every step of the table is a step the interface allows, or changes nothing
\* the interface shows.
Implements == Interface!Spec

=============================================================================
