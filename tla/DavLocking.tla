----------------------------- MODULE DavLocking -----------------------------
(***************************************************************************)
(* WebDAV requests over the lock table: what the handlers of xnet/webdav.go *)
(* do to it around the file operation they guard.                          *)
(*                                                                         *)
(* Each worker serves one request at a time.  A request without an If      *)
(* header takes temporary locks of depth 0 on the resources it names, one  *)
(* call of Create each, and gives them back one call of Unlock each; a     *)
(* request with an If header claims existing locks with one Confirm per    *)
(* list of the header.  Every call takes the mutex of the table on its own,*)
(* so the other workers interleave between any two of them.                *)
(*                                                                         *)
(* Names are the scoped ones (scopedLocks): users with one root share      *)
(* them.  The resources themselves are not modelled, only which of them a  *)
(* request is writing.                                                     *)
(***************************************************************************)
EXTENDS MemLS, Sequences

CONSTANTS Worker,       \* goroutines serving requests
          Resource,     \* the names requests address, a subset of Name
          Lists,        \* the number of lists of an If header
          MaxTime       \* bound on the clock

ASSUME DavAssumption ==
  /\ IsFiniteSet(Worker)
  /\ Resource \subseteq Name
  /\ Lists \in Nat \ {0}
  /\ MaxTime \in Nat

VARIABLES m,        \* the lock table
          req,      \* per worker: the request it serves
          given,    \* the tokens handed out in answers to LOCK
          clock     \* wall-clock time

vars == <<m, req, given, clock>>

Readings == 0 .. clock

\* pc      where the request stands
\* src,dst the resources it passes to confirmLocks, NoName for none: PUT, DELETE,
\*         MKCOL and PROPPATCH name src, COPY dst, MOVE both; LOCK neither
\* now     the clock reading its calls of Create and Unlock bring
\* want    the resources it has yet to take temporary locks on
\* have    the tokens it has to unlock at its end, the next one first
\* lists   the number of lists of its If header it has yet to try
\* claim   the tokens its Confirm holds
\* tagged  whether the list that was confirmed had a resource tag
Request == [pc     : {"idle", "locking", "confirming", "acting", "creating",
                      "unlocking"},
            src    : Resource \cup {NoName},
            dst    : Resource \cup {NoName},
            now    : Nat,
            want   : Seq(Resource),
            have   : Seq(Token),
            lists  : 0 .. Lists,
            claim  : SUBSET Token,
            tagged : BOOLEAN]

Idle == [pc |-> "idle", src |-> NoName, dst |-> NoName, now |-> 0,
         want |-> << >>, have |-> << >>, lists |-> 0, claim |-> {},
         tagged |-> FALSE]

Init ==
  /\ m = NewMemLS
  /\ req = [w \in Worker |-> Idle]
  /\ given = {}
  /\ clock = 0

Tick ==
  /\ clock < MaxTime
  /\ clock' = clock + 1
  /\ UNCHANGED <<m, req, given>>

\* The tokens requests under way may still need are kept in reserve, so that
\* the bound on tokens never stops a request half way.
CanIssue(k) ==
  m.gen + Cardinality({w \in Worker : req[w].want # << >>}) + k <= MaxGen

\* What a request may name: the one or two calls of confirmLocks in each handler.
\* handleCopyMove refuses a destination that equals the source.
Targets ==
  {t \in [src : Resource \cup {NoName}, dst : Resource \cup {NoName}] :
     t.src # t.dst}

Named(t) ==
  IF t.src = NoName THEN <<t.dst>>
  ELSE IF t.dst = NoName THEN <<t.src>> ELSE <<t.src, t.dst>>

-----------------------------------------------------------------------------
(* Temporary locks: a request without an If header.                        *)

\* Seeded fault: a refused second lock answered without unlocking the first.
FaultyTakeLock(w, r) ==
  LET c == CollectExpiredNodes(m, r.now)
      x == Head(r.want)
  IN  /\ IF CanCreate(c, x, TRUE)
         THEN /\ m' = Insert(c, r.now, x, TRUE, Infinite)
              /\ req' = [req EXCEPT ![w] =
                           [r EXCEPT !.pc = IF Len(r.want) = 1 THEN "acting"
                                            ELSE "locking",
                                     !.want = Tail(@),
                                     !.have = <<m.gen + 1>> \o @]]
         ELSE m' = c /\ req' = [req EXCEPT ![w] = Idle]
      /\ UNCHANGED <<given, clock>>

\* The next call of Create for request r.  If it is refused the request answers
\* 423, after unlocking what it already has.
TakeLock(w, r) ==
  LET c == CollectExpiredNodes(m, r.now)
      x == Head(r.want)
  IN  /\ IF CanCreate(c, x, TRUE)
         THEN /\ m' = Insert(c, r.now, x, TRUE, Infinite)
              /\ req' = [req EXCEPT ![w] =
                           [r EXCEPT !.pc = IF Len(r.want) = 1 THEN "acting"
                                            ELSE "locking",
                                     !.want = Tail(@),
                                     !.have = <<m.gen + 1>> \o @]]
         ELSE /\ m' = c
              /\ req' = [req EXCEPT ![w] =
                           IF r.have = << >> THEN Idle
                           ELSE [r EXCEPT !.pc = "unlocking", !.want = << >>]]
      /\ UNCHANGED <<given, clock>>

\* One reading of the clock serves all calls of the request.
Arrive(w, now, t) ==
  /\ req[w].pc = "idle"
  /\ CanIssue(Len(Named(t)))
  /\ TakeLock(w, [Idle EXCEPT !.src = t.src, !.dst = t.dst, !.now = now,
                              !.want = Named(t)])

TakeSecondLock(w) == req[w].pc = "locking" /\ TakeLock(w, req[w])

\* The next call of Unlock, whose result nobody looks at.
GiveBack(w) ==
  LET r == req[w]
  IN  /\ r.pc = "unlocking"
      /\ m' = Unlocked(m, r.now, Head(r.have))
      /\ req' = [req EXCEPT ![w] =
                   IF Len(r.have) = 1 THEN Idle ELSE [r EXCEPT !.have = Tail(@)]]
      /\ UNCHANGED <<given, clock>>

-----------------------------------------------------------------------------
(* Claims on existing locks: a request with an If header.                  *)

\* A list of an If header: its resource tag, NoName if it has none, and the
\* tokens of its conditions.  Clients only know tokens they were given.
List == [tag : Resource \cup {NoName}, tokens : SUBSET given]

\* Confirm for the next list of the header of request r: a resource tag takes
\* the place of the path.  If all lists fail the request answers 412.
TryList(w, now, r, l) ==
  LET src == IF l.tag = NoName THEN r.src ELSE l.tag
      named == {src, r.dst} \ {NoName}
      c == CollectExpiredNodes(m, now)
      nodes == UNION {Lookup(c, x, l.tokens) : x \in named}
      confirmed == \A x \in named : Lookup(c, x, l.tokens) # {}
  IN  /\ m' = IF confirmed THEN Hold(c, nodes) ELSE c
      /\ req' = [req EXCEPT ![w] =
                   IF confirmed
                   THEN [r EXCEPT !.pc = "acting", !.lists = 0,
                                  !.claim = {c.byName[n].token : n \in nodes},
                                  !.tagged = l.tag # NoName]
                   ELSE IF r.lists = 1 THEN Idle
                   ELSE [r EXCEPT !.pc = "confirming", !.lists = @ - 1]]
      /\ UNCHANGED <<given, clock>>

\* Each list is chosen as it is tried, and every header has Lists of them: a list
\* that fails leaves no trace but the locks it found expired, so a shorter header
\* is one padded with lists that fail.
ArriveIf(w, now, t, l) ==
  /\ req[w].pc = "idle"
  /\ TryList(w, now, [Idle EXCEPT !.src = t.src, !.dst = t.dst, !.lists = Lists], l)

TryNextList(w, now, l) ==
  /\ req[w].pc = "confirming"
  /\ TryList(w, now, req[w], l)

-----------------------------------------------------------------------------
(* The file operation is over, with or without an error: the deferred      *)
(* release unholds the claim, or starts to unlock the temporary locks.     *)

Finish(w) ==
  LET r == req[w]
  IN  /\ r.pc = "acting"
      /\ m' = Unhold(m, {m.byToken[t] : t \in r.claim})
      /\ req' = [req EXCEPT ![w] =
                   IF r.have = << >> THEN Idle ELSE [r EXCEPT !.pc = "unlocking"]]
      /\ UNCHANGED <<given, clock>>

-----------------------------------------------------------------------------
(* LOCK, its refresh, and UNLOCK.                                          *)

\* The first call of LOCK.  It ignores an If header.
Lock(w, now, x, zeroDepth, duration) ==
  LET c == CollectExpiredNodes(m, now)
  IN  /\ req[w].pc = "idle"
      /\ CanIssue(1)
      /\ IF CanCreate(c, x, zeroDepth)
         THEN /\ m' = Insert(c, now, x, zeroDepth, duration)
              /\ req' = [req EXCEPT ![w] =
                           [Idle EXCEPT !.pc = "creating", !.now = now,
                                        !.have = <<m.gen + 1>>]]
         ELSE m' = c /\ UNCHANGED req
      /\ UNCHANGED <<given, clock>>

\* The resource is there, or was created: the client gets the token.
LockAnswered(w) ==
  /\ req[w].pc = "creating"
  /\ given' = given \cup {Head(req[w].have)}
  /\ req' = [req EXCEPT ![w] = Idle]
  /\ UNCHANGED <<m, clock>>

\* It could not be created: the deferred call unlocks.
LockFailed(w) ==
  /\ req[w].pc = "creating"
  /\ req' = [req EXCEPT ![w].pc = "unlocking"]
  /\ UNCHANGED <<m, given, clock>>

\* LOCK without a body, and UNLOCK: one call each, for any token a client has.
RefreshLock(now, token, duration) ==
  LET c == CollectExpiredNodes(m, now)
  IN  /\ m' = IF Verdict(c, token) = "ok"
              THEN Extend(c, now, c.byToken[token], duration)
              ELSE c
      /\ UNCHANGED <<req, given, clock>>

Unlock(now, token) ==
  /\ m' = Unlocked(m, now, token)
  /\ UNCHANGED <<req, given, clock>>

-----------------------------------------------------------------------------
Next ==
  \/ Tick
  \/ \E w \in Worker :
       \/ \E now \in Readings, t \in Targets :
            \/ Arrive(w, now, t)
            \/ \E l \in List : ArriveIf(w, now, t, l)
       \/ TakeSecondLock(w)
       \/ \E now \in Readings, l \in List : TryNextList(w, now, l)
       \/ Finish(w)
       \/ GiveBack(w)
       \/ \E now \in Readings, x \in Resource, zeroDepth \in BOOLEAN,
             duration \in Duration \cup {Infinite} :
            Lock(w, now, x, zeroDepth, duration)
       \/ LockAnswered(w)
       \/ LockFailed(w)
  \/ \E now \in Readings, token \in given :
       \/ \E duration \in Duration \cup {Infinite} :
            RefreshLock(now, token, duration)
       \/ Unlock(now, token)

Spec == Init /\ [][Next]_vars

-----------------------------------------------------------------------------
(* Properties.                                                             *)

\* The table and the requests are of the types the Go code declares.
TypeOK ==
  /\ m \in Table
  /\ req \in [Worker -> Request]
  /\ given \subseteq Token
  /\ clock \in 0 .. MaxTime

Acting == {w \in Worker : req[w].pc = "acting"}

\* The tokens a request may rely on: its temporary locks and its claim.
Own(w) == {req[w].have[i] : i \in DOMAIN req[w].have} \cup req[w].claim

\* The resources a request named to confirmLocks.
Roots(w) == {req[w].src, req[w].dst} \ {NoName}

\* A resource tag in the If header replaces the path in the call of Confirm.
Guarded(w) == IF req[w].tagged THEN {req[w].dst} \ {NoName} ELSE Roots(w)

\* Two requests that are inside their file operation at the same time name no
\* common resource, whichever way each of them came by its right to write:
\* temporary locks or a client's lock.  A request whose If header names another
\* resource is only held to the part of this that Confirm was asked for.
WritersExclusive ==
  \A v, w \in Acting : v # w => Guarded(v) \cap Guarded(w) = {}

\* While a request is inside its file operation, no lock other than its own
\* covers a resource it named: a LOCK that was answered before, or is answered
\* during, the operation excludes it.
LockedResourcesRespected ==
  \A w \in Acting, t \in Live(m) :
    t \notin Own(w) => \A x \in Guarded(w) : ~Covers(m, m.byToken[t], x)

\* The locks in the table are those of clients and of requests, and the other way
\* round.  No path through a handler, refused, failed or complete, leaves behind a
\* temporary lock, which would never expire.
NoLockLeaks ==
  Live(m) \subseteq given \cup UNION {Own(w) : w \in Worker}

\* Nothing unlocks or claims a temporary lock but its own request, so the
\* request still has it when it acts, and unlocking it later succeeds.
TemporaryLocksKept ==
  \A w \in Worker : Roots(w) # {} =>
    \A i \in DOMAIN req[w].have :
      LET n == m.byToken[req[w].have[i]]
      IN  n \in Roots(w) /\ ~m.byName[n].held

\* A node is held exactly while a request claims it: the deferred release of
\* every request runs once, on the nodes its Confirm held.
HeldIsClaimed ==
  {t \in Live(m) : m.byName[m.byToken[t]].held}
    = UNION {req[w].claim : w \in Worker}

\* The three together: what a request has taken of the table it keeps while it runs,
\* and gives back when it is over, on every path through its handler.
LocksAccounted == NoLockLeaks /\ TemporaryLocksKept /\ HeldIsClaimed

\* What the README says of writing to a locked resource, taken for all that a
\* MOVE removes from its place: the resource it names and everything below it.
Below(x) == {y \in Name : x \in WalkToRoot[y]}

MovedLocksRespected ==
  \A w \in Acting, t \in given \cap Live(m) :
    (t \notin Own(w) /\ req[w].src # NoName /\ req[w].dst # NoName /\ ~req[w].tagged)
      => m.byToken[t] \notin Below(req[w].src)

=============================================================================
