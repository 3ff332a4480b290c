-------------------------- MODULE DavLockingProofs --------------------------
(***************************************************************************)
(* Proofs about DavLocking, for every tree of resources and any number of  *)
(* workers, tokens and lists of an If header: whatever the interleaving of *)
(* the calls of Create, Confirm, release and Unlock that the handlers make,*)
(* a request inside its file operation has a lock of its own on each       *)
(* resource it named, and no path leaves a temporary lock behind.          *)
(*                                                                         *)
(* The invariant is a predicate Safe of each request against the table,    *)
(* and four facts about all of them: their tokens are apart, tokens are    *)
(* left for the locks they still have to take, what is held is claimed,    *)
(* and every lock belongs to a client or to a request.                     *)
(***************************************************************************)
EXTENDS DavLocking, MemLSProofs, SequenceTheorems

-----------------------------------------------------------------------------
(* Sequences of tokens.                                                    *)

Toks(s) == {s[i] : i \in DOMAIN s}

Distinct(s) == \A i, j \in DOMAIN s : i # j => s[i] # s[j]

\* The empty sequence has no tokens.
LEMMA EmptyToks == Toks(<< >>) = {} /\ Distinct(<< >>)
BY DEF Toks, Distinct

\* A token put in front.
LEMMA PushToks ==
  ASSUME NEW S, NEW s \in Seq(S), NEW e \in S
  PROVE  /\ <<e>> \o s \in Seq(S) /\ <<e>> \o s # << >>
         /\ Toks(<<e>> \o s) = {e} \cup Toks(s)
         /\ Distinct(s) /\ e \notin Toks(s) => Distinct(<<e>> \o s)
<1> DEFINE t == <<e>> \o s
<1>1. <<e>> \in Seq(S) /\ Len(<<e>>) = 1 /\ <<e>>[1] = e
  OBVIOUS
<1>2. /\ t \in Seq(S) /\ Len(t) = 1 + Len(s)
      /\ \A i \in 1 .. 1 + Len(s) : t[i] = IF i <= 1 THEN <<e>>[i] ELSE s[i - 1]
  BY <1>1, ConcatProperties
<1>3. /\ Len(s) \in Nat /\ DOMAIN s = 1 .. Len(s) /\ DOMAIN t = 1 .. 1 + Len(s)
  BY <1>2, LenProperties
<1> HIDE DEF t
<1>4. t[1] = e /\ \A i \in DOMAIN s : t[i + 1] = s[i] /\ i + 1 \in DOMAIN t
  <2>1. 1 \in 1 .. 1 + Len(s)
    BY <1>3
  <2>2. t[1] = e
    BY <1>1, <1>2, <2>1
  <2>3. ASSUME NEW i \in DOMAIN s PROVE t[i + 1] = s[i] /\ i + 1 \in DOMAIN t
    <3>1. i + 1 \in 1 .. 1 + Len(s) /\ ~(i + 1 <= 1) /\ i + 1 - 1 = i
      BY <1>3
    <3> QED BY <1>2, <1>3, <3>1
  <2> QED BY <2>2, <2>3
<1>5. \A i \in DOMAIN t : i = 1 \/ (i - 1 \in DOMAIN s /\ t[i] = s[i - 1])
  <2> SUFFICES ASSUME NEW i \in DOMAIN t, i # 1
               PROVE  i - 1 \in DOMAIN s /\ t[i] = s[i - 1]
    OBVIOUS
  <2>1. i - 1 \in DOMAIN s /\ i - 1 + 1 = i
    BY <1>3
  <2> QED BY <1>4, <2>1
<1>6. Toks(t) = {e} \cup Toks(s)
  <2>1. ASSUME NEW a \in Toks(t) PROVE a \in {e} \cup Toks(s)
    <3>1. PICK i \in DOMAIN t : a = t[i]
      BY <2>1 DEF Toks
    <3> QED BY <1>4, <1>5, <3>1 DEF Toks
  <2>2. e \in Toks(t)
    BY <1>3, <1>4 DEF Toks
  <2>3. ASSUME NEW a \in Toks(s) PROVE a \in Toks(t)
    <3>1. PICK i \in DOMAIN s : a = s[i]
      BY <2>3 DEF Toks
    <3> QED BY <1>4, <3>1 DEF Toks
  <2> QED BY <2>1, <2>2, <2>3
<1>7. ASSUME Distinct(s), e \notin Toks(s) PROVE Distinct(t)
  <2> SUFFICES ASSUME NEW i \in DOMAIN t, NEW j \in DOMAIN t, i # j PROVE t[i] # t[j]
    BY DEF Distinct
  <2>1. \A k \in DOMAIN s : s[k] # e
    BY <1>7 DEF Toks
  <2>2. CASE i = 1 \/ j = 1
    BY <1>4, <1>5, <2>1, <2>2
  <2>3. CASE i # 1 /\ j # 1
    <3>1. /\ i - 1 \in DOMAIN s /\ t[i] = s[i - 1]
          /\ j - 1 \in DOMAIN s /\ t[j] = s[j - 1]
      BY <1>5, <2>3
    <3>2. i - 1 # j - 1
      BY <1>3
    <3> QED BY <1>7, <3>1, <3>2 DEF Distinct
  <2> QED BY <2>2, <2>3
<1>8. t # << >>
  BY <1>2, <1>3
<1> QED BY <1>2, <1>6, <1>7, <1>8 DEF t

\* The first token taken away.
LEMMA PopToks ==
  ASSUME NEW S, NEW s \in Seq(S), s # << >>
  PROVE  /\ Head(s) \in S /\ Tail(s) \in Seq(S) /\ Len(Tail(s)) = Len(s) - 1
         /\ Toks(s) = {Head(s)} \cup Toks(Tail(s))
         /\ Distinct(s) => Distinct(Tail(s)) /\ Head(s) \notin Toks(Tail(s))
         /\ Len(s) \in Nat /\ Len(s) >= 1
         /\ Tail(s) = << >> <=> Len(s) = 1
<1> DEFINE t == Tail(s)
<1>1. /\ Head(s) \in S /\ t \in Seq(S) /\ Len(t) = Len(s) - 1
      /\ \A i \in 1 .. Len(t) : t[i] = s[i + 1]
  BY HeadTailProperties
<1>2. Head(s) = s[1]
  OBVIOUS
<1>3. /\ Len(s) \in Nat /\ DOMAIN s = 1 .. Len(s) /\ DOMAIN t = 1 .. Len(t) /\ Len(t) \in Nat
  BY <1>1, LenProperties
<1>4. Len(s) >= 1
  BY <1>1, <1>3
<1> HIDE DEF t
<1>5. \A i \in DOMAIN s : i = 1 \/ (i - 1 \in DOMAIN t /\ s[i] = t[i - 1])
  <2> SUFFICES ASSUME NEW i \in DOMAIN s, i # 1
               PROVE  i - 1 \in DOMAIN t /\ s[i] = t[i - 1]
    OBVIOUS
  <2>1. i - 1 \in 1 .. Len(t) /\ i - 1 + 1 = i
    BY <1>1, <1>3
  <2> QED BY <1>1, <1>3, <2>1
<1>6. \A i \in DOMAIN t : i + 1 \in DOMAIN s /\ i + 1 # 1 /\ t[i] = s[i + 1]
  BY <1>1, <1>3
<1>7. 1 \in DOMAIN s
  BY <1>3, <1>4
<1>8. Toks(s) = {Head(s)} \cup Toks(t)
  BY <1>2, <1>5, <1>6, <1>7 DEF Toks
<1>9. ASSUME Distinct(s) PROVE Distinct(t) /\ Head(s) \notin Toks(t)
  <2>1. \A i \in DOMAIN t : t[i] # s[1]
    BY <1>6, <1>7, <1>9 DEF Distinct
  <2>2. \A i, j \in DOMAIN t : i # j => i + 1 # j + 1
    BY <1>3
  <2>3. Distinct(t)
    BY <1>6, <1>9, <2>2 DEF Distinct
  <2> QED BY <1>2, <2>1, <2>3 DEF Toks
<1>10. t = << >> <=> Len(s) = 1
  BY <1>1, <1>3, EmptySeq
<1> QED BY <1>1, <1>3, <1>4, <1>8, <1>9, <1>10 DEF t

-----------------------------------------------------------------------------
(* The invariant.                                                          *)

RootsOf(r) == {r.src, r.dst} \ {NoName}

GuardedOf(r) == IF r.tagged THEN {r.dst} \ {NoName} ELSE RootsOf(r)

\* What a request looks like at each point of its handler.
Shape(r) ==
  /\ r.pc = "idle" => r = Idle
  /\ Len(r.want) <= 1 /\ (r.want # << >> <=> r.pc = "locking")
  /\ Toks(r.want) \subseteq RootsOf(r)
  /\ r.have # << >> => r.claim = {} /\ ~r.tagged
  /\ r.pc # "acting" => r.claim = {} /\ ~r.tagged
  /\ r.pc \in {"creating", "unlocking"} => r.have # << >>
  /\ r.pc = "creating" => RootsOf(r) = {} /\ Len(r.have) = 1
  /\ r.pc = "confirming" => r.have = << >> /\ r.lists # 0
  /\ Distinct(r.have)

\* It has tokens that no client knows, and claims only locks of clients.
OwnTokens(t0, gv, r) ==
  /\ Toks(r.have) \subseteq (1 .. t0.gen) \ gv
  /\ r.claim \subseteq gv

\* Its temporary locks are on the resources it named and will neither expire nor be held.
TempKept(t0, r) ==
  RootsOf(r) # {} =>
    \A t \in Toks(r.have) : /\ t0.byToken[t] \in RootsOf(r)
                            /\ ~t0.byName[t0.byToken[t]].held
                            /\ t0.byName[t0.byToken[t]].duration = Infinite

\* What it claims is held.
ClaimHeld(t0, r) ==
  \A t \in r.claim : t0.byToken[t] # NoName /\ t0.byName[t0.byToken[t]].held

\* A lock of its own covers each resource it named, or it has yet to ask for that.
HasLock(t0, r, x) ==
  \E u \in Toks(r.have) \cup r.claim :
    t0.byToken[u] # NoName /\ Covers(t0, t0.byToken[u], x)

Covered(t0, r) ==
  r.pc \in {"locking", "acting"} =>
    \A x \in GuardedOf(r) : x \in Toks(r.want) \/ HasLock(t0, r, x)

Safe(t0, gv, r) ==
  Shape(r) /\ OwnTokens(t0, gv, r) /\ TempKept(t0, r) /\ ClaimHeld(t0, r) /\ Covered(t0, r)

\* No two requests have a token in common.
Apart(r, q) == Toks(r.have) \cap Toks(q.have) = {} /\ r.claim \cap q.claim = {}

Wanting(rq) == {w \in Worker : rq[w].want # << >>}

Reserve(t0, rq) == t0.gen + Cardinality(Wanting(rq)) <= MaxGen

HeldClaimed(t0, rq) ==
  \A n \in Name : t0.byName[n].held => \E w \in Worker : t0.byName[n].token \in rq[w].claim

Accounted(t0, rq, gv) ==
  \A t \in Live(t0) : t \in gv \/ \E w \in Worker : t \in Toks(rq[w].have)

Global(t0, rq, gv) ==
  /\ Sound(t0) /\ rq \in [Worker -> Request] /\ gv \subseteq 1 .. t0.gen
  /\ \A w \in Worker : Safe(t0, gv, rq[w])
  /\ \A v, w \in Worker : v # w => Apart(rq[v], rq[w])
  /\ Reserve(t0, rq) /\ HeldClaimed(t0, rq) /\ Accounted(t0, rq, gv)

Inv == Global(m, req, given) /\ clock \in 0 .. MaxTime

-----------------------------------------------------------------------------
(* What a request relies on, and what may change around it.                *)

\* The locks a request relies on: what it claims, and its temporary locks.
Protected(r) == r.claim \cup (IF RootsOf(r) = {} THEN {} ELSE Toks(r.have))

\* A lock that is as it was, as far as a request can tell.
Same(t0, t1, t) ==
  LET n == t0.byToken[t]
  IN  /\ t1.byToken[t] = n
      /\ t1.byName[n].zeroDepth = t0.byName[n].zeroDepth
      /\ t1.byName[n].duration = t0.byName[n].duration
      /\ (t1.byName[n].held <=> t0.byName[n].held)

\* The tokens and the resources of a request are of their types.
LEMMA RequestFacts ==
  ASSUME NEW r \in Request
  PROVE  /\ RootsOf(r) \subseteq Name /\ NoName \notin RootsOf(r)
         /\ GuardedOf(r) \subseteq RootsOf(r)
         /\ r.have \in Seq(Token) /\ r.want \in Seq(Resource) /\ r.claim \subseteq Token
         /\ Toks(r.have) \subseteq Token /\ Toks(r.want) \subseteq Resource
<1>1. r.have \in Seq(Token) /\ r.want \in Seq(Resource) /\ r.claim \subseteq Token
  BY DEF Request
<1>2. Toks(r.have) \subseteq Token /\ Toks(r.want) \subseteq Resource
  <2>1. /\ r.have \in [1 .. Len(r.have) -> Token] /\ r.want \in [1 .. Len(r.want) -> Resource]
    BY <1>1, LenProperties
  <2> QED BY <2>1 DEF Toks
<1>3. RootsOf(r) \subseteq Name /\ NoName \notin RootsOf(r) /\ GuardedOf(r) \subseteq RootsOf(r)
  BY DavAssumption DEF RootsOf, GuardedOf, Request
<1> QED BY <1>1, <1>2, <1>3

\* A request is safe still when the locks it relies on are as they were.
LEMMA SafeKept ==
  ASSUME NEW t0, NEW t1, NEW gv, NEW gv1, NEW r \in Request,
         Safe(t0, gv, r), t0 \in Table, t1 \in Table, t0.gen <= t1.gen,
         gv \subseteq gv1, gv1 \cap Toks(r.have) = {},
         \A t \in Protected(r) : Same(t0, t1, t)
  PROVE  Safe(t1, gv1, r)
<1>1. /\ RootsOf(r) \subseteq Name /\ GuardedOf(r) \subseteq RootsOf(r)
      /\ t0.gen \in Nat /\ t1.gen \in Nat
  BY RequestFacts, BoundAssumption DEF Table
<1>2. OwnTokens(t1, gv1, r)
  BY <1>1 DEF Safe, OwnTokens
<1>3. TempKept(t1, r)
  BY DEF Safe, TempKept, Protected, Same
<1>4. ClaimHeld(t1, r)
  BY DEF Safe, ClaimHeld, Protected, Same
<1>5. Covered(t1, r)
  <2> SUFFICES ASSUME r.pc \in {"locking", "acting"}, NEW x \in GuardedOf(r),
                      x \notin Toks(r.want)
               PROVE  HasLock(t1, r, x)
    BY DEF Covered
  <2>1. PICK u \in Toks(r.have) \cup r.claim :
          t0.byToken[u] # NoName /\ Covers(t0, t0.byToken[u], x)
    BY DEF Safe, Covered, HasLock
  <2>2. u \in Protected(r)
    BY <1>1 DEF Protected
  <2>3. t1.byToken[u] # NoName /\ Covers(t1, t1.byToken[u], x)
    BY <2>1, <2>2 DEF Same, Covers
  <2> QED BY <2>3 DEF HasLock
<1> QED BY <1>2, <1>3, <1>4, <1>5 DEF Safe

\* A token of a request is that of a lock, if the request relies on it.
LEMMA ProtectedMeans ==
  ASSUME NEW t0, NEW gv, NEW r \in Request, Safe(t0, gv, r), Sound(t0), NEW t \in Protected(r)
  PROVE  /\ t \in Token /\ t \in Live(t0)
         /\ t0.byToken[t] \in Name /\ Locked(t0, t0.byToken[t])
         /\ t0.byName[t0.byToken[t]].token = t
         /\ t \in r.claim \/ (t \in Toks(r.have) /\ RootsOf(r) # {})
         /\ t \in r.claim => t0.byName[t0.byToken[t]].held
         /\ t \notin r.claim => /\ ~t0.byName[t0.byToken[t]].held
                                /\ t0.byName[t0.byToken[t]].duration = Infinite
<1>1. t \in Token /\ (t \in r.claim \/ (t \in Toks(r.have) /\ RootsOf(r) # {}))
  BY RequestFacts DEF Protected
<1>2. /\ t \in r.claim => t0.byToken[t] # NoName /\ t0.byName[t0.byToken[t]].held
      /\ t \notin r.claim => /\ t0.byToken[t] \in RootsOf(r)
                             /\ ~t0.byName[t0.byToken[t]].held
                             /\ t0.byName[t0.byToken[t]].duration = Infinite
  BY <1>1 DEF Safe, ClaimHeld, TempKept
<1>3. t0.byToken[t] # NoName
  BY <1>2, RequestFacts
<1>4. t \in Live(t0)
  BY <1>1, <1>3 DEF Live
<1> QED BY <1>1, <1>2, <1>4, LiveMeans

\* A call that changes no request.
LEMMA TableStep ==
  ASSUME NEW t0, NEW t1, NEW rq, NEW gv, Global(t0, rq, gv),
         Sound(t1), t1.gen = t0.gen,
         \A w \in Worker : \A t \in Protected(rq[w]) : Same(t0, t1, t),
         \A n \in Name : t1.byName[n].held =>
           t0.byName[n].held /\ t1.byName[n].token = t0.byName[n].token,
         Live(t1) \subseteq Live(t0)
  PROVE  Global(t1, rq, gv)
<1>1. ASSUME NEW w \in Worker PROVE Safe(t1, gv, rq[w])
  <2>1. /\ rq[w] \in Request /\ Safe(t0, gv, rq[w]) /\ t0 \in Table /\ t1 \in Table
        /\ t0.gen <= t1.gen
    BY BoundAssumption DEF Global, Sound, Table
  <2>2. gv \cap Toks(rq[w].have) = {}
    BY <2>1 DEF Safe, OwnTokens
  <2> QED BY <2>1, <2>2, SafeKept
<1>2. HeldClaimed(t1, rq)
  BY DEF Global, HeldClaimed
<1>3. Accounted(t1, rq, gv)
  BY DEF Global, Accounted
<1> QED BY <1>1, <1>2, <1>3 DEF Global, Reserve

\* Removing locks that nobody holds and that are not temporary locks of a request.
LEMMA RemoveKeeps ==
  ASSUME NEW t0, NEW rq, NEW gv, Global(t0, rq, gv),
         NEW R \in SUBSET Name,
         \A n \in R : Locked(t0, n) /\ ~t0.byName[n].held,
         \A w \in Worker : \A t \in Protected(rq[w]) : t0.byToken[t] \notin R
  PROVE  Global(Remove(t0, R), rq, gv)
<1> DEFINE t1 == Remove(t0, R)
<1>1. Sound(t0) /\ \A w \in Worker : rq[w] \in Request /\ Safe(t0, gv, rq[w])
  BY DEF Global
<1>2. Sound(t1)
  BY <1>1, RemoveSound
<1>3. /\ t1.gen = t0.gen
      /\ \A n \in Name : Locked(t1, n) <=> Locked(t0, n) /\ n \notin R
      /\ \A n \in Name : Locked(t1, n) =>
            /\ t1.byName[n].token = t0.byName[n].token
            /\ t1.byName[n].zeroDepth = t0.byName[n].zeroDepth
            /\ t1.byName[n].duration = t0.byName[n].duration
            /\ t1.byName[n].held = t0.byName[n].held
      /\ \A n \in Name : ~Locked(t1, n) => ~t1.byName[n].held
      /\ \A t \in Token : t1.byToken[t] =
            IF t0.byToken[t] \in R THEN NoName ELSE t0.byToken[t]
  BY <1>1, RemoveEffect
<1> HIDE DEF t1
<1>4. ASSUME NEW w \in Worker, NEW t \in Protected(rq[w]) PROVE Same(t0, t1, t)
  <2>1. t \in Token /\ t0.byToken[t] \in Name /\ Locked(t0, t0.byToken[t])
    BY <1>1, ProtectedMeans
  <2> QED BY <1>3, <2>1 DEF Same
<1>5. \A n \in Name : t1.byName[n].held =>
        t0.byName[n].held /\ t1.byName[n].token = t0.byName[n].token
  BY <1>3
<1>6. Live(t1) \subseteq Live(t0)
  BY <1>3 DEF Live
<1>7. Global(t1, rq, gv)
  BY <1>2, <1>3, <1>4, <1>5, <1>6, TableStep
<1> QED BY <1>7 DEF t1

\* Every call first forgets what has expired.
LEMMA CollectKeeps ==
  ASSUME NEW t0, NEW rq, NEW gv, Global(t0, rq, gv), NEW now
  PROVE  /\ Global(CollectExpiredNodes(t0, now), rq, gv)
         /\ CollectExpiredNodes(t0, now).gen = t0.gen
<1>1. Sound(t0) /\ \A w \in Worker : rq[w] \in Request /\ Safe(t0, gv, rq[w])
  BY DEF Global
<1>2. /\ Expired(t0, now) \in SUBSET Name
      /\ \A r \in Expired(t0, now) :
           Locked(t0, r) /\ ~t0.byName[r].held /\ t0.byName[r].duration # Infinite
  BY <1>1, ExpiredMeans
<1>3. ASSUME NEW w \in Worker, NEW t \in Protected(rq[w])
      PROVE  t0.byToken[t] \notin Expired(t0, now)
  BY <1>1, <1>2, ProtectedMeans
<1>4. Global(CollectExpiredNodes(t0, now), rq, gv)
  BY <1>2, <1>3, RemoveKeeps DEF CollectExpiredNodes
<1> QED BY <1>4 DEF CollectExpiredNodes, Remove

-----------------------------------------------------------------------------
(* One request changes, and with it the table.                             *)

\* How many requests still want a token, after the request of one worker changes.
LEMMA WantingEffect ==
  ASSUME NEW rq \in [Worker -> Request], NEW w \in Worker, NEW r1 \in Request
  PROVE  LET rq1 == [rq EXCEPT ![w] = r1]
         IN  /\ Cardinality(Wanting(rq)) \in Nat /\ Cardinality(Wanting(rq1)) \in Nat
             /\ Cardinality(Wanting(rq1)) <= Cardinality(Wanting(rq)) + 1
             /\ r1.want = << >> \/ rq[w].want # << >>
                  => Cardinality(Wanting(rq1)) <= Cardinality(Wanting(rq))
             /\ r1.want = << >> /\ rq[w].want # << >>
                  => Cardinality(Wanting(rq1)) = Cardinality(Wanting(rq)) - 1
<1> DEFINE W0 == Wanting(rq)
           W1 == Wanting([rq EXCEPT ![w] = r1])
<1>1. /\ W0 \subseteq Worker /\ W1 \subseteq W0 \cup {w}
      /\ r1.want = << >> \/ rq[w].want # << >> => W1 \subseteq W0
      /\ r1.want = << >> /\ rq[w].want # << >> => w \in W0 /\ W1 = W0 \ {w}
  BY DEF Wanting
<1> HIDE DEF W0, W1
<1>2. IsFiniteSet(W0)
  BY <1>1, FS_Subset, DavAssumption
<1>3. IsFiniteSet(W0 \cup {w}) /\ Cardinality(W0 \cup {w}) <= Cardinality(W0) + 1
      /\ Cardinality(W0) \in Nat
  <2>1. /\ IsFiniteSet(W0 \cup {w})
        /\ Cardinality(W0 \cup {w}) = IF w \in W0 THEN Cardinality(W0) ELSE Cardinality(W0) + 1
    BY <1>2, FS_AddElement
  <2>2. Cardinality(W0) \in Nat
    BY <1>2, FS_CardinalityType
  <2> QED BY <2>1, <2>2
<1>4. Cardinality(W1) <= Cardinality(W0 \cup {w}) /\ IsFiniteSet(W1)
  BY <1>1, <1>3, FS_Subset
<1>5. Cardinality(W1) \in Nat /\ Cardinality(W0 \cup {w}) \in Nat
  BY <1>3, <1>4, FS_CardinalityType
<1>6. W1 \subseteq W0 => Cardinality(W1) <= Cardinality(W0)
  BY <1>2, FS_Subset
<1>7. w \in W0 => Cardinality(W0 \ {w}) = Cardinality(W0) - 1
  BY <1>2, FS_RemoveElement
<1>8. Cardinality(W1) <= Cardinality(W0) + 1
  BY <1>3, <1>4, <1>5
<1> QED BY <1>1, <1>3, <1>5, <1>6, <1>7, <1>8 DEF W0, W1

\* What has to be shown of a step of one request: the locks the others rely on are
\* as they were, and its own request is safe in the new table.
LEMMA StepOk ==
  ASSUME NEW t0, NEW t1, NEW rq, NEW gv, NEW gv1, Global(t0, rq, gv),
         NEW w \in Worker, NEW r1 \in Request,
         Sound(t1), t0.gen <= t1.gen, gv \subseteq gv1, gv1 \subseteq 1 .. t1.gen,
         \A v \in Worker : v # w =>
            /\ \A t \in Protected(rq[v]) : Same(t0, t1, t)
            /\ gv1 \cap Toks(rq[v].have) = {}
            /\ Apart(r1, rq[v]),
         Safe(t1, gv1, r1), Reserve(t1, [rq EXCEPT ![w] = r1]),
         \A n \in Name : t1.byName[n].held =>
            \/ t1.byName[n].token \in r1.claim
            \/ \E v \in Worker : v # w /\ t1.byName[n].token \in rq[v].claim,
         \A t \in Live(t1) :
            \/ t \in gv1 \/ t \in Toks(r1.have)
            \/ \E v \in Worker : v # w /\ t \in Toks(rq[v].have)
  PROVE  Global(t1, [rq EXCEPT ![w] = r1], gv1)
<1> DEFINE rq1 == [rq EXCEPT ![w] = r1]
<1>1. /\ rq \in [Worker -> Request] /\ Sound(t0)
      /\ \A v \in Worker : Safe(t0, gv, rq[v])
      /\ \A u, v \in Worker : u # v => Apart(rq[u], rq[v])
  BY DEF Global
<1>2. /\ rq1 \in [Worker -> Request] /\ rq1[w] = r1
      /\ \A v \in Worker : v # w => rq1[v] = rq[v]
  BY <1>1
<1> HIDE DEF rq1
<1>3. ASSUME NEW v \in Worker PROVE Safe(t1, gv1, rq1[v])
  <2>1. CASE v = w
    BY <1>2, <2>1
  <2>2. CASE v # w
    <3>1. /\ rq[v] \in Request /\ Safe(t0, gv, rq[v]) /\ t0 \in Table /\ t1 \in Table
          /\ gv1 \cap Toks(rq[v].have) = {} /\ \A t \in Protected(rq[v]) : Same(t0, t1, t)
      BY <1>1, <2>2 DEF Sound
    <3>2. Safe(t1, gv1, rq[v])
      BY <3>1, SafeKept
    <3> QED BY <1>2, <2>2, <3>2
  <2> QED BY <2>1, <2>2
<1>4. ASSUME NEW u \in Worker, NEW v \in Worker, u # v PROVE Apart(rq1[u], rq1[v])
  <2>1. CASE u = w
    BY <1>2, <1>4, <2>1
  <2>2. CASE v = w
    <3>1. Apart(r1, rq[u])
      BY <1>4, <2>2
    <3> QED BY <1>2, <1>4, <2>2, <3>1 DEF Apart
  <2>3. CASE u # w /\ v # w
    BY <1>1, <1>2, <1>4, <2>3
  <2> QED BY <2>1, <2>2, <2>3
<1>5. HeldClaimed(t1, rq1)
  BY <1>2 DEF HeldClaimed
<1>6. Accounted(t1, rq1, gv1)
  BY <1>2 DEF Accounted
<1>7. Reserve(t1, rq1)
  BY DEF rq1
<1> QED BY <1>2, <1>3, <1>4, <1>5, <1>6, <1>7 DEF Global, rq1

\* A step that leaves the table alone and lets the request keep what it has.
LEMMA RequestStep ==
  ASSUME NEW t0, NEW rq, NEW gv, Global(t0, rq, gv),
         NEW w \in Worker, NEW r1 \in Request,
         Safe(t0, gv, r1), r1.want = << >> \/ rq[w].want # << >>,
         Toks(r1.have) = Toks(rq[w].have), r1.claim = rq[w].claim
  PROVE  Global(t0, [rq EXCEPT ![w] = r1], gv)
<1>1. /\ rq \in [Worker -> Request] /\ Sound(t0) /\ gv \subseteq 1 .. t0.gen
      /\ \A v \in Worker : Safe(t0, gv, rq[v])
      /\ \A v \in Worker : v # w => Apart(rq[w], rq[v])
      /\ Reserve(t0, rq) /\ HeldClaimed(t0, rq) /\ Accounted(t0, rq, gv)
  BY DEF Global
<1>2. t0.gen \in Nat
  BY <1>1, BoundAssumption DEF Sound, Table
<1>3. ASSUME NEW v \in Worker, v # w
      PROVE  /\ \A t \in Protected(rq[v]) : Same(t0, t0, t)
             /\ gv \cap Toks(rq[v].have) = {}
             /\ Apart(r1, rq[v])
  <2>1. gv \cap Toks(rq[v].have) = {}
    BY <1>1 DEF Safe, OwnTokens
  <2> QED BY <1>1, <1>3, <2>1 DEF Same, Apart
<1>4. Reserve(t0, [rq EXCEPT ![w] = r1])
  <2>1. /\ Cardinality(Wanting(rq)) \in Nat
        /\ Cardinality(Wanting([rq EXCEPT ![w] = r1])) \in Nat
        /\ Cardinality(Wanting([rq EXCEPT ![w] = r1])) <= Cardinality(Wanting(rq))
    BY <1>1, WantingEffect
  <2> QED BY <1>1, <1>2, <2>1, BoundAssumption DEF Reserve
<1>5. ASSUME NEW n \in Name, t0.byName[n].held
      PROVE  \/ t0.byName[n].token \in r1.claim
             \/ \E v \in Worker : v # w /\ t0.byName[n].token \in rq[v].claim
  BY <1>1, <1>5 DEF HeldClaimed
<1>6. ASSUME NEW t \in Live(t0)
      PROVE  \/ t \in gv \/ t \in Toks(r1.have)
             \/ \E v \in Worker : v # w /\ t \in Toks(rq[v].have)
  BY <1>1 DEF Accounted
<1>7. t0.gen <= t0.gen
  BY <1>2
<1> QED BY <1>1, <1>3, <1>4, <1>5, <1>6, <1>7, StepOk

\* Create: the request gets a lock on x with the next token.
LEMMA InsertOk ==
  ASSUME NEW t0, NEW rq, NEW gv, Global(t0, rq, gv),
         NEW w \in Worker, NEW r1 \in Request,
         NEW now \in Nat, NEW x \in Name, NEW zeroDepth \in BOOLEAN,
         NEW duration \in Duration \cup {Infinite},
         CanCreate(t0, x, zeroDepth), Shape(r1),
         Toks(r1.have) = {t0.gen + 1} \cup Toks(rq[w].have),
         r1.claim = {}, rq[w].claim = {},
         t0.gen + 1 + Cardinality(Wanting([rq EXCEPT ![w] = r1])) <= MaxGen,
         RootsOf(r1) # {} =>
            /\ x \in RootsOf(r1) /\ duration = Infinite
            /\ RootsOf(rq[w]) = RootsOf(r1) \/ Toks(rq[w].have) = {},
         r1.pc \in {"locking", "acting"} =>
            \A y \in GuardedOf(r1) :
               y = x \/ y \in Toks(r1.want) \/ HasLock(t0, rq[w], y)
  PROVE  Global(Insert(t0, now, x, zeroDepth, duration), [rq EXCEPT ![w] = r1], gv)
<1> DEFINE t1 == Insert(t0, now, x, zeroDepth, duration)
           g == t0.gen + 1
<1>1. /\ rq \in [Worker -> Request] /\ Sound(t0) /\ gv \subseteq 1 .. t0.gen
      /\ \A v \in Worker : rq[v] \in Request /\ Safe(t0, gv, rq[v])
      /\ \A v \in Worker : v # w => Apart(rq[w], rq[v])
      /\ HeldClaimed(t0, rq) /\ Accounted(t0, rq, gv)
  BY DEF Global
<1>2. t0.gen \in Nat /\ t0.gen < MaxGen /\ g \in Token /\ g \notin 1 .. t0.gen
  <2>1. t0.gen \in Nat
    BY <1>1, BoundAssumption DEF Sound, Table
  <2>2. Cardinality(Wanting([rq EXCEPT ![w] = r1])) \in Nat
    BY <1>1, WantingEffect
  <2> QED BY <2>1, <2>2, BoundAssumption DEF Token
<1>3. /\ Sound(t1) /\ t1.gen = g
      /\ \A t \in Token : t0.byToken[t] # NoName =>
            t1.byToken[t] = t0.byToken[t] /\ t0.byToken[t] # x
      /\ \A n \in Name : n # x =>
            /\ t1.byName[n].token = t0.byName[n].token
            /\ t1.byName[n].zeroDepth = t0.byName[n].zeroDepth
            /\ t1.byName[n].duration = t0.byName[n].duration
            /\ t1.byName[n].held = t0.byName[n].held
      /\ ~t1.byName[x].held
  <2>1. t1.gen = g
    BY DEF Insert
  <2>2. Sound(t0) /\ t0.gen < MaxGen
    BY <1>1, <1>2
  <2> QED BY <2>1, <2>2, InsertSound
<1>4. /\ t1.byName[x].token = g /\ t1.byName[x].duration = duration
      /\ t1.byToken[g] = x /\ \A t \in Token : t # g => t1.byToken[t] = t0.byToken[t]
  BY <1>1, <1>2 DEF Insert, Sound, Table
<1> HIDE DEF t1
<1>5. ASSUME NEW t \in Token, t0.byToken[t] # NoName PROVE Same(t0, t1, t)
  <2>1. t0.byToken[t] \in Name /\ t0.byToken[t] # x
    BY <1>1, <1>3, <1>5 DEF Sound, Table
  <2> QED BY <1>3, <1>5, <2>1 DEF Same
<1>6. ASSUME NEW v \in Worker, v # w
      PROVE  /\ \A t \in Protected(rq[v]) : Same(t0, t1, t)
             /\ gv \cap Toks(rq[v].have) = {}
             /\ Apart(r1, rq[v])
  <2>1. Toks(rq[v].have) \subseteq 1 .. t0.gen /\ gv \cap Toks(rq[v].have) = {}
    BY <1>1 DEF Safe, OwnTokens
  <2>2. \A t \in Protected(rq[v]) : t \in Token /\ t \in Live(t0)
    BY <1>1, ProtectedMeans
  <2>3. g \notin Toks(rq[v].have)
    BY <1>2, <2>1
  <2>4. Apart(r1, rq[v])
    BY <1>1, <1>6, <2>3 DEF Apart
  <2> QED BY <1>5, <2>1, <2>2, <2>4 DEF Live
<1>7. ASSUME NEW t \in Toks(rq[w].have), RootsOf(r1) # {}
      PROVE  /\ t \in Token /\ t0.byToken[t] # NoName /\ Same(t0, t1, t)
             /\ t0.byToken[t] \in RootsOf(r1)
             /\ ~t0.byName[t0.byToken[t]].held
             /\ t0.byName[t0.byToken[t]].duration = Infinite
  <2>1. RootsOf(rq[w]) = RootsOf(r1)
    BY <1>7
  <2>2. /\ t0.byToken[t] \in RootsOf(r1)
        /\ ~t0.byName[t0.byToken[t]].held
        /\ t0.byName[t0.byToken[t]].duration = Infinite
    BY <1>1, <1>7, <2>1 DEF Safe, TempKept
  <2>3. t \in Token /\ NoName \notin RootsOf(r1)
    BY <1>1, RequestFacts
  <2> QED BY <1>5, <2>2, <2>3
<1>8. Safe(t1, gv, r1)
  <2>1. OwnTokens(t1, gv, r1)
    <3>1. Toks(rq[w].have) \subseteq (1 .. t0.gen) \ gv
      BY <1>1 DEF Safe, OwnTokens
    <3>2. Toks(r1.have) \subseteq (1 .. g) \ gv
      <4>1. g \in 1 .. g /\ 1 .. t0.gen \subseteq 1 .. g /\ g \notin gv
        BY <1>1, <1>2
      <4> QED BY <3>1, <4>1
    <3> QED BY <1>3, <3>2 DEF OwnTokens
  <2>2. TempKept(t1, r1)
    <3> SUFFICES ASSUME RootsOf(r1) # {}, NEW t \in Toks(r1.have)
                 PROVE  /\ t1.byToken[t] \in RootsOf(r1)
                        /\ ~t1.byName[t1.byToken[t]].held
                        /\ t1.byName[t1.byToken[t]].duration = Infinite
      BY DEF TempKept
    <3>1. CASE t = g
      BY <1>3, <1>4, <3>1
    <3>2. CASE t \in Toks(rq[w].have)
      BY <1>7, <3>2 DEF Same
    <3> QED BY <3>1, <3>2
  <2>3. ClaimHeld(t1, r1)
    BY DEF ClaimHeld
  <2>4. Covered(t1, r1)
    <3> SUFFICES ASSUME r1.pc \in {"locking", "acting"}, NEW y \in GuardedOf(r1),
                        y \notin Toks(r1.want)
                 PROVE  HasLock(t1, r1, y)
      BY DEF Covered
    <3>1. CASE y = x
      <4>1. g \in Toks(r1.have) \cup r1.claim
        OBVIOUS
      <4>2. t1.byToken[g] # NoName /\ Covers(t1, t1.byToken[g], y)
        BY <1>4, <3>1, NameAssumption DEF Covers
      <4> QED BY <4>1, <4>2 DEF HasLock
    <3>2. CASE HasLock(t0, rq[w], y)
      <4>1. PICK u \in Toks(rq[w].have) :
              t0.byToken[u] # NoName /\ Covers(t0, t0.byToken[u], y)
        BY <3>2 DEF HasLock
      <4>2. RootsOf(r1) # {}
        BY RequestFacts
      <4>3. Same(t0, t1, u)
        BY <1>7, <4>2
      <4>4. t1.byToken[u] # NoName /\ Covers(t1, t1.byToken[u], y)
        BY <4>1, <4>3 DEF Same, Covers
      <4> QED BY <4>4 DEF HasLock
    <3> QED BY <3>1, <3>2
  <2> QED BY <2>1, <2>2, <2>3, <2>4 DEF Safe
<1>9. ASSUME NEW n \in Name, t1.byName[n].held
      PROVE  \/ t1.byName[n].token \in r1.claim
             \/ \E v \in Worker : v # w /\ t1.byName[n].token \in rq[v].claim
  BY <1>1, <1>3, <1>9 DEF HeldClaimed
<1>10. ASSUME NEW t \in Live(t1)
       PROVE  \/ t \in gv \/ t \in Toks(r1.have)
              \/ \E v \in Worker : v # w /\ t \in Toks(rq[v].have)
  <2>1. CASE t = g
    BY <2>1
  <2>2. CASE t # g
    <3>1. t \in Live(t0)
      BY <1>4, <2>2 DEF Live
    <3> QED BY <1>1, <3>1 DEF Accounted
  <2> QED BY <2>1, <2>2
<1>11. /\ Reserve(t1, [rq EXCEPT ![w] = r1]) /\ t0.gen <= t1.gen
       /\ gv \subseteq gv /\ gv \subseteq 1 .. t1.gen
  <2>1. Reserve(t1, [rq EXCEPT ![w] = r1])
    BY <1>3 DEF Reserve
  <2>2. t0.gen <= t1.gen /\ gv \subseteq 1 .. t1.gen
    BY <1>1, <1>2, <1>3
  <2> QED BY <2>1, <2>2
<1>12. Global(t1, [rq EXCEPT ![w] = r1], gv)
  BY <1>1, <1>3, <1>6, <1>8, <1>9, <1>10, <1>11, StepOk
<1> QED BY <1>12 DEF t1

\* Unlock by the request that has the token: whatever the table says of the token,
\* it is gone.
LEMMA DropOk ==
  ASSUME NEW t0, NEW rq, NEW gv, Global(t0, rq, gv),
         NEW w \in Worker, NEW r1 \in Request, NEW h,
         Toks(rq[w].have) = {h} \cup Toks(r1.have), h \notin Toks(r1.have),
         rq[w].claim = {}, r1.claim = {}, r1.want = << >>,
         Shape(r1), r1.pc \in {"idle", "unlocking"},
         RootsOf(r1) = RootsOf(rq[w]) \/ Toks(r1.have) = {}
  PROVE  Global(IF Verdict(t0, h) = "ok" THEN Remove(t0, {t0.byToken[h]}) ELSE t0,
                [rq EXCEPT ![w] = r1], gv)
<1> DEFINE ok == Verdict(t0, h) = "ok"
           t1 == IF ok THEN Remove(t0, {t0.byToken[h]}) ELSE t0
<1>1. /\ rq \in [Worker -> Request] /\ Sound(t0) /\ gv \subseteq 1 .. t0.gen
      /\ \A v \in Worker : rq[v] \in Request /\ Safe(t0, gv, rq[v])
      /\ \A v \in Worker : v # w => Apart(rq[w], rq[v])
      /\ Reserve(t0, rq) /\ HeldClaimed(t0, rq) /\ Accounted(t0, rq, gv)
  BY DEF Global
<1>2. t0.gen \in Nat /\ h \in Token /\ h \notin gv
  BY <1>1, BoundAssumption, RequestFacts DEF Sound, Table, Safe, OwnTokens
<1>3. CASE ok
  <2>1. /\ t0.byToken[h] \in Name /\ t0.byName[t0.byToken[h]].token = h
        /\ Locked(t0, t0.byToken[h]) /\ ~t0.byName[t0.byToken[h]].held
    BY <1>1, <1>2, <1>3, VerdictOk
  <2> DEFINE R == {t0.byToken[h]}
             t2 == Remove(t0, R)
  <2>2. R \in SUBSET Name /\ \A n \in R : Locked(t0, n) /\ ~t0.byName[n].held
    BY <2>1
  <2>3. /\ Sound(t2) /\ t2.gen = t0.gen
        /\ \A n \in Name : Locked(t2, n) <=> Locked(t0, n) /\ n \notin R
        /\ \A n \in Name : Locked(t2, n) =>
              /\ t2.byName[n].token = t0.byName[n].token
              /\ t2.byName[n].zeroDepth = t0.byName[n].zeroDepth
              /\ t2.byName[n].duration = t0.byName[n].duration
              /\ t2.byName[n].held = t0.byName[n].held
        /\ \A n \in Name : ~Locked(t2, n) => ~t2.byName[n].held
        /\ \A t \in Token : t2.byToken[t] =
              IF t0.byToken[t] \in R THEN NoName ELSE t0.byToken[t]
    <3> HIDE DEF R
    <3> QED BY <1>1, <2>2, RemoveEffect, RemoveSound
  <2> HIDE DEF t2
  <2>4. ASSUME NEW v \in Worker, NEW t \in Protected(rq[v]), t # h
        PROVE  Same(t0, t2, t)
    <3>1. /\ t \in Token /\ t0.byToken[t] \in Name /\ Locked(t0, t0.byToken[t])
          /\ t0.byName[t0.byToken[t]].token = t
      BY <1>1, ProtectedMeans
    <3>2. t0.byToken[t] \notin R
      BY <2>1, <2>4, <3>1
    <3> QED BY <2>3, <3>1, <3>2 DEF Same
  <2>5. ASSUME NEW v \in Worker, v # w
        PROVE  /\ \A t \in Protected(rq[v]) : Same(t0, t2, t)
               /\ gv \cap Toks(rq[v].have) = {}
               /\ Apart(r1, rq[v])
    <3>1. gv \cap Toks(rq[v].have) = {} /\ rq[v].claim \subseteq gv
      BY <1>1 DEF Safe, OwnTokens
    <3>2. Apart(r1, rq[v]) /\ h \notin Toks(rq[v].have)
      BY <1>1, <2>5 DEF Apart
    <3>3. h \notin Protected(rq[v])
      BY <1>2, <3>1, <3>2 DEF Protected
    <3> QED BY <2>4, <3>1, <3>2, <3>3
  <2>6. Safe(t2, gv, r1)
    <3>1. OwnTokens(t2, gv, r1)
      BY <1>1, <2>3 DEF Safe, OwnTokens
    <3>2. TempKept(t2, r1)
      <4> SUFFICES ASSUME RootsOf(r1) # {}, NEW t \in Toks(r1.have)
                   PROVE  /\ t2.byToken[t] \in RootsOf(r1)
                          /\ ~t2.byName[t2.byToken[t]].held
                          /\ t2.byName[t2.byToken[t]].duration = Infinite
        BY DEF TempKept
      <4>1. RootsOf(r1) = RootsOf(rq[w]) /\ t \in Toks(rq[w].have) /\ t # h
        OBVIOUS
      <4>2. /\ t0.byToken[t] \in RootsOf(r1)
            /\ ~t0.byName[t0.byToken[t]].held
            /\ t0.byName[t0.byToken[t]].duration = Infinite
        BY <1>1, <4>1 DEF Safe, TempKept
      <4>3. Same(t0, t2, t)
        BY <2>4, <4>1 DEF Protected
      <4> QED BY <4>2, <4>3 DEF Same
    <3>3. ClaimHeld(t2, r1) /\ Covered(t2, r1)
      BY DEF ClaimHeld, Covered
    <3> QED BY <3>1, <3>2, <3>3 DEF Safe
  <2>7. ASSUME NEW n \in Name, t2.byName[n].held
        PROVE  \/ t2.byName[n].token \in r1.claim
               \/ \E v \in Worker : v # w /\ t2.byName[n].token \in rq[v].claim
    <3>1. t0.byName[n].held /\ t2.byName[n].token = t0.byName[n].token
      BY <2>3, <2>7
    <3> QED BY <1>1, <3>1 DEF HeldClaimed
  <2>8. ASSUME NEW t \in Live(t2)
        PROVE  \/ t \in gv \/ t \in Toks(r1.have)
               \/ \E v \in Worker : v # w /\ t \in Toks(rq[v].have)
    <3>1. t \in Live(t0) /\ t # h
      BY <1>2, <2>3, <2>8 DEF Live
    <3> QED BY <1>1, <3>1 DEF Accounted
  <2>9. /\ Reserve(t2, [rq EXCEPT ![w] = r1]) /\ t0.gen <= t2.gen
        /\ gv \subseteq gv /\ gv \subseteq 1 .. t2.gen
    <3>1. /\ Cardinality(Wanting(rq)) \in Nat
          /\ Cardinality(Wanting([rq EXCEPT ![w] = r1])) \in Nat
          /\ Cardinality(Wanting([rq EXCEPT ![w] = r1])) <= Cardinality(Wanting(rq))
      BY <1>1, WantingEffect
    <3> QED BY <1>1, <1>2, <2>3, <3>1, BoundAssumption DEF Reserve
  <2>10. Global(t2, [rq EXCEPT ![w] = r1], gv)
    BY <1>1, <2>3, <2>5, <2>6, <2>7, <2>8, <2>9, StepOk
  <2>11. t1 = t2
    BY <1>3 DEF t2
  <2> QED BY <2>10, <2>11
<1>4. CASE ~ok
  \* The token is not held: only tokens of clients are.  So it is not in the table.
  <2>1. h \notin Live(t0)
    <3> SUFFICES ASSUME h \in Live(t0) PROVE FALSE
      OBVIOUS
    <3>1. t0.byToken[h] \in Name /\ t0.byName[t0.byToken[h]].token = h
      BY <1>1, LiveMeans
    <3>2. t0.byToken[h] # NoName
      BY <3>1, NameAssumption
    <3>3. t0.byName[t0.byToken[h]].held
      BY <1>4, <3>2 DEF Verdict
    <3>4. PICK v \in Worker : h \in rq[v].claim
      BY <1>1, <3>1, <3>3 DEF HeldClaimed
    <3> QED BY <1>1, <1>2, <3>4 DEF Safe, OwnTokens
  <2>2. RootsOf(rq[w]) = {}
    <3> SUFFICES ASSUME RootsOf(rq[w]) # {} PROVE FALSE
      OBVIOUS
    <3>1. t0.byToken[h] \in RootsOf(rq[w])
      BY <1>1 DEF Safe, TempKept
    <3> QED BY <1>1, <1>2, <2>1, <3>1, RequestFacts DEF Live
  <2>3. Safe(t0, gv, r1)
    <3>1. OwnTokens(t0, gv, r1)
      BY <1>1 DEF Safe, OwnTokens
    <3>2. TempKept(t0, r1)
      BY <2>2 DEF TempKept
    <3>3. ClaimHeld(t0, r1) /\ Covered(t0, r1)
      BY DEF ClaimHeld, Covered
    <3> QED BY <3>1, <3>2, <3>3 DEF Safe
  <2>4. ASSUME NEW v \in Worker, v # w
        PROVE  /\ \A t \in Protected(rq[v]) : Same(t0, t0, t)
               /\ gv \cap Toks(rq[v].have) = {}
               /\ Apart(r1, rq[v])
    <3>1. gv \cap Toks(rq[v].have) = {}
      BY <1>1 DEF Safe, OwnTokens
    <3> QED BY <1>1, <2>4, <3>1 DEF Same, Apart
  <2>5. ASSUME NEW n \in Name, t0.byName[n].held
        PROVE  \/ t0.byName[n].token \in r1.claim
               \/ \E v \in Worker : v # w /\ t0.byName[n].token \in rq[v].claim
    BY <1>1, <2>5 DEF HeldClaimed
  <2>6. ASSUME NEW t \in Live(t0)
        PROVE  \/ t \in gv \/ t \in Toks(r1.have)
               \/ \E v \in Worker : v # w /\ t \in Toks(rq[v].have)
    BY <1>1, <2>1 DEF Accounted
  <2>7. /\ Reserve(t0, [rq EXCEPT ![w] = r1]) /\ t0.gen <= t0.gen
        /\ gv \subseteq gv /\ gv \subseteq 1 .. t0.gen
    <3>1. /\ Cardinality(Wanting(rq)) \in Nat
          /\ Cardinality(Wanting([rq EXCEPT ![w] = r1])) \in Nat
          /\ Cardinality(Wanting([rq EXCEPT ![w] = r1])) <= Cardinality(Wanting(rq))
      BY <1>1, WantingEffect
    <3> QED BY <1>1, <1>2, <3>1, BoundAssumption DEF Reserve
  <2>8. Global(t0, [rq EXCEPT ![w] = r1], gv)
    BY <1>1, <2>3, <2>4, <2>5, <2>6, <2>7, StepOk
  <2> QED BY <1>4, <2>8
<1> QED BY <1>3, <1>4

\* Confirm: the request holds locks of clients that nobody holds, one for each
\* resource that was looked up.
LEMMA ClaimOk ==
  ASSUME NEW t0, NEW rq, NEW gv, Global(t0, rq, gv),
         NEW w \in Worker, NEW r1 \in Request, NEW N \in SUBSET Name,
         \A n \in N : /\ Locked(t0, n) /\ ~t0.byName[n].held
                      /\ t0.byName[n].token \in gv
                      /\ t0.byToken[t0.byName[n].token] = n,
         r1.pc = "acting", r1.have = << >>, r1.want = << >>,
         r1.claim = {t0.byName[n].token : n \in N},
         rq[w].have = << >>, rq[w].claim = {},
         \A x \in GuardedOf(r1) : \E n \in N : Covers(t0, n, x)
  PROVE  Global(Hold(t0, N), [rq EXCEPT ![w] = r1], gv)
<1> DEFINE t1 == Hold(t0, N)
<1>1. /\ rq \in [Worker -> Request] /\ Sound(t0) /\ gv \subseteq 1 .. t0.gen
      /\ \A v \in Worker : rq[v] \in Request /\ Safe(t0, gv, rq[v])
      /\ \A v \in Worker : v # w => Apart(rq[w], rq[v])
      /\ Reserve(t0, rq) /\ HeldClaimed(t0, rq) /\ Accounted(t0, rq, gv)
  BY DEF Global
<1>2. t0.gen \in Nat /\ Toks(r1.have) = {} /\ Toks(r1.want) = {} /\ Distinct(r1.have)
      /\ Toks(rq[w].have) = {}
  BY <1>1, BoundAssumption, EmptyToks DEF Sound, Table
<1>3. /\ Sound(t1) /\ t1.gen = t0.gen /\ t1.byToken = t0.byToken
      /\ \A n \in Name :
            /\ t1.byName[n].token = t0.byName[n].token
            /\ t1.byName[n].zeroDepth = t0.byName[n].zeroDepth
            /\ t1.byName[n].duration = t0.byName[n].duration
            /\ t1.byName[n].held <=> n \in N \/ t0.byName[n].held
  BY <1>1, HoldSound
<1> HIDE DEF t1
<1>4. ASSUME NEW v \in Worker, v # w
      PROVE  /\ \A t \in Protected(rq[v]) : Same(t0, t1, t)
             /\ gv \cap Toks(rq[v].have) = {}
             /\ Apart(r1, rq[v])
  <2>1. gv \cap Toks(rq[v].have) = {} /\ rq[v].claim \subseteq gv
    BY <1>1 DEF Safe, OwnTokens
  <2>2. ASSUME NEW t \in Protected(rq[v]) PROVE t0.byToken[t] \notin N
    <3>1. /\ t0.byName[t0.byToken[t]].token = t
          /\ t \in rq[v].claim \/ t \in Toks(rq[v].have)
          /\ t \in rq[v].claim => t0.byName[t0.byToken[t]].held
      BY <1>1, ProtectedMeans
    <3> QED BY <2>1, <3>1
  <2>3. ASSUME NEW t \in Protected(rq[v]) PROVE Same(t0, t1, t)
    <3>1. t0.byToken[t] \in Name
      BY <1>1, ProtectedMeans
    <3> QED BY <1>3, <2>2, <3>1 DEF Same
  <2>4. ASSUME NEW t \in r1.claim PROVE t \notin rq[v].claim
    <3>1. PICK n \in N : t = t0.byName[n].token
      OBVIOUS
    <3>2. t0.byToken[t] = n /\ ~t0.byName[t0.byToken[t]].held
      BY <3>1
    <3> QED BY <1>1, <3>2 DEF Safe, ClaimHeld
  <2> QED BY <1>2, <2>1, <2>3, <2>4 DEF Apart
<1>5. Safe(t1, gv, r1)
  <2>1. Shape(r1)
    BY <1>2 DEF Shape
  <2>2. OwnTokens(t1, gv, r1) /\ TempKept(t1, r1)
    BY <1>2 DEF OwnTokens, TempKept
  <2>3. ASSUME NEW n \in N
        PROVE  LET t == t0.byName[n].token
               IN  t \in r1.claim /\ t1.byToken[t] = n /\ n # NoName /\ t1.byName[n].held
    BY <1>3, NameAssumption
  <2>4. ClaimHeld(t1, r1)
    BY <2>3 DEF ClaimHeld
  <2>5. Covered(t1, r1)
    <3> SUFFICES ASSUME NEW x \in GuardedOf(r1) PROVE HasLock(t1, r1, x)
      BY DEF Covered
    <3>1. PICK n \in N : Covers(t0, n, x)
      OBVIOUS
    <3>2. Covers(t1, n, x)
      BY <1>3, <3>1 DEF Covers
    <3> QED BY <2>3, <3>2 DEF HasLock
  <2> QED BY <2>1, <2>2, <2>4, <2>5 DEF Safe
<1>6. ASSUME NEW n \in Name, t1.byName[n].held
      PROVE  \/ t1.byName[n].token \in r1.claim
             \/ \E v \in Worker : v # w /\ t1.byName[n].token \in rq[v].claim
  BY <1>1, <1>3, <1>6 DEF HeldClaimed
<1>7. ASSUME NEW t \in Live(t1)
      PROVE  \/ t \in gv \/ t \in Toks(r1.have)
             \/ \E v \in Worker : v # w /\ t \in Toks(rq[v].have)
  <2>1. t \in Live(t0)
    BY <1>3 DEF Live
  <2> QED BY <1>1, <1>2, <2>1 DEF Accounted
<1>8. /\ Reserve(t1, [rq EXCEPT ![w] = r1]) /\ t0.gen <= t1.gen
      /\ gv \subseteq gv /\ gv \subseteq 1 .. t1.gen
  <2>1. /\ Cardinality(Wanting(rq)) \in Nat
        /\ Cardinality(Wanting([rq EXCEPT ![w] = r1])) \in Nat
        /\ Cardinality(Wanting([rq EXCEPT ![w] = r1])) <= Cardinality(Wanting(rq))
    BY <1>1, WantingEffect
  <2> QED BY <1>1, <1>2, <1>3, <2>1, BoundAssumption DEF Reserve
<1>9. Global(t1, [rq EXCEPT ![w] = r1], gv)
  BY <1>1, <1>3, <1>4, <1>5, <1>6, <1>7, <1>8, StepOk
<1> QED BY <1>9 DEF t1

\* release: the request gives back what it holds, and nothing another request relies on.
LEMMA ReleaseOk ==
  ASSUME NEW t0, NEW rq, NEW gv, Global(t0, rq, gv),
         NEW w \in Worker, NEW r1 \in Request,
         Shape(r1), r1.claim = {}, r1.want = << >>,
         Toks(r1.have) = Toks(rq[w].have),
         RootsOf(r1) = RootsOf(rq[w]) \/ Toks(r1.have) = {},
         r1.pc \in {"idle", "unlocking"}
  PROVE  Global(Unhold(t0, {t0.byToken[t] : t \in rq[w].claim}), [rq EXCEPT ![w] = r1], gv)
<1> DEFINE N == {t0.byToken[t] : t \in rq[w].claim}
           t1 == Unhold(t0, N)
<1>1. /\ rq \in [Worker -> Request] /\ Sound(t0) /\ gv \subseteq 1 .. t0.gen
      /\ \A v \in Worker : rq[v] \in Request /\ Safe(t0, gv, rq[v])
      /\ \A v \in Worker : v # w => Apart(rq[w], rq[v])
      /\ Reserve(t0, rq) /\ HeldClaimed(t0, rq) /\ Accounted(t0, rq, gv)
  BY DEF Global
<1>2. t0.gen \in Nat
  BY <1>1, BoundAssumption DEF Sound, Table
<1>3. ASSUME NEW n \in N
      PROVE  n \in Name /\ Locked(t0, n) /\ t0.byName[n].token \in rq[w].claim
  <2>1. PICK t \in rq[w].claim : n = t0.byToken[t]
    OBVIOUS
  <2>2. t \in Protected(rq[w])
    BY <2>1 DEF Protected
  <2> QED BY <1>1, <2>1, <2>2, ProtectedMeans
<1>4. N \in SUBSET Name /\ \A n \in N : Locked(t0, n)
  BY <1>3
<1> HIDE DEF N
<1>5. /\ Sound(t1) /\ t1.gen = t0.gen /\ t1.byToken = t0.byToken
      /\ \A n \in Name :
            /\ t1.byName[n].token = t0.byName[n].token
            /\ t1.byName[n].zeroDepth = t0.byName[n].zeroDepth
            /\ t1.byName[n].duration = t0.byName[n].duration
            /\ t1.byName[n].held <=> n \notin N /\ t0.byName[n].held
  BY <1>1, <1>4, UnholdSound
<1> HIDE DEF t1
<1>6. ASSUME NEW v \in Worker, NEW t \in Protected(rq[v]), t \notin rq[w].claim
      PROVE  Same(t0, t1, t)
  <2>1. t0.byToken[t] \in Name /\ t0.byName[t0.byToken[t]].token = t
    BY <1>1, ProtectedMeans
  <2>2. t0.byToken[t] \notin N
    BY <1>3, <1>6, <2>1
  <2> QED BY <1>5, <2>1, <2>2 DEF Same
<1>7. ASSUME NEW v \in Worker, v # w
      PROVE  /\ \A t \in Protected(rq[v]) : Same(t0, t1, t)
             /\ gv \cap Toks(rq[v].have) = {}
             /\ Apart(r1, rq[v])
  <2>1. /\ gv \cap Toks(rq[v].have) = {} /\ rq[v].claim \subseteq gv
        /\ rq[w].claim \subseteq gv
    BY <1>1 DEF Safe, OwnTokens
  <2>2. Apart(r1, rq[v]) /\ rq[w].claim \cap rq[v].claim = {}
    BY <1>1, <1>7 DEF Apart
  <2>3. \A t \in Protected(rq[v]) : t \notin rq[w].claim
    BY <2>1, <2>2 DEF Protected
  <2> QED BY <1>6, <2>1, <2>2, <2>3
<1>8. Safe(t1, gv, r1)
  <2>1. OwnTokens(t1, gv, r1) /\ rq[w].claim \cap Toks(r1.have) = {}
    BY <1>1, <1>5 DEF Safe, OwnTokens
  <2>2. TempKept(t1, r1)
    <3> SUFFICES ASSUME RootsOf(r1) # {}, NEW t \in Toks(r1.have)
                 PROVE  /\ t1.byToken[t] \in RootsOf(r1)
                        /\ ~t1.byName[t1.byToken[t]].held
                        /\ t1.byName[t1.byToken[t]].duration = Infinite
      BY DEF TempKept
    <3>1. RootsOf(r1) = RootsOf(rq[w]) /\ t \in Toks(rq[w].have) /\ t \notin rq[w].claim
      BY <2>1
    <3>2. /\ t0.byToken[t] \in RootsOf(r1)
          /\ ~t0.byName[t0.byToken[t]].held
          /\ t0.byName[t0.byToken[t]].duration = Infinite
      BY <1>1, <3>1 DEF Safe, TempKept
    <3>3. Same(t0, t1, t)
      BY <1>6, <3>1 DEF Protected
    <3> QED BY <3>2, <3>3 DEF Same
  <2>3. ClaimHeld(t1, r1) /\ Covered(t1, r1)
    BY DEF ClaimHeld, Covered
  <2> QED BY <2>1, <2>2, <2>3 DEF Safe
<1>9. ASSUME NEW n \in Name, t1.byName[n].held
      PROVE  \/ t1.byName[n].token \in r1.claim
             \/ \E v \in Worker : v # w /\ t1.byName[n].token \in rq[v].claim
  <2>1. n \notin N /\ t0.byName[n].held /\ t1.byName[n].token = t0.byName[n].token
    BY <1>5, <1>9
  <2>2. PICK v \in Worker : t0.byName[n].token \in rq[v].claim
    BY <1>1, <2>1 DEF HeldClaimed
  <2>3. v # w
    <3> SUFFICES ASSUME v = w PROVE FALSE
      OBVIOUS
    <3>1. t0.byName[n].token \in Token
      BY <1>1, <2>2, RequestFacts
    <3>2. t0.byToken[t0.byName[n].token] = n
      BY <1>1, <3>1 DEF Sound, IndexesAgree, TokensInverse
    <3> QED BY <2>1, <2>2, <3>2 DEF N
  <2> QED BY <2>1, <2>2, <2>3
<1>10. ASSUME NEW t \in Live(t1)
       PROVE  \/ t \in gv \/ t \in Toks(r1.have)
              \/ \E v \in Worker : v # w /\ t \in Toks(rq[v].have)
  <2>1. t \in Live(t0)
    BY <1>5 DEF Live
  <2> QED BY <1>1, <2>1 DEF Accounted
<1>11. /\ Reserve(t1, [rq EXCEPT ![w] = r1]) /\ t0.gen <= t1.gen
       /\ gv \subseteq gv /\ gv \subseteq 1 .. t1.gen
  <2>1. /\ Cardinality(Wanting(rq)) \in Nat
        /\ Cardinality(Wanting([rq EXCEPT ![w] = r1])) \in Nat
        /\ Cardinality(Wanting([rq EXCEPT ![w] = r1])) <= Cardinality(Wanting(rq))
    BY <1>1, WantingEffect
  <2> QED BY <1>1, <1>2, <1>5, <2>1, BoundAssumption DEF Reserve
<1>12. Global(t1, [rq EXCEPT ![w] = r1], gv)
  BY <1>1, <1>5, <1>7, <1>8, <1>9, <1>10, <1>11, StepOk
<1> QED BY <1>12 DEF t1, N

-----------------------------------------------------------------------------
(* The steps of Next.                                                      *)

\* A worker without a request owes nothing to the table.
LEMMA IdleFacts ==
  /\ Idle \in Request /\ RootsOf(Idle) = {} /\ Toks(Idle.have) = {}
  /\ Idle.claim = {} /\ Idle.want = << >> /\ Idle.pc = "idle" /\ Idle.have = << >>
  /\ Shape(Idle)
  /\ \A t0, gv : Safe(t0, gv, Idle)
<1>1. Idle \in Request
  BY DavAssumption DEF Idle, Request
<1>2. /\ RootsOf(Idle) = {} /\ Toks(Idle.have) = {} /\ Distinct(Idle.have)
      /\ Idle.claim = {} /\ Idle.want = << >> /\ Idle.pc = "idle" /\ Idle.have = << >>
      /\ ~Idle.tagged /\ Len(Idle.want) = 0
  BY EmptyToks DEF Idle, RootsOf
<1>3. Shape(Idle)
  <2>1. Toks(Idle.want) = {}
    BY <1>2, EmptyToks
  <2> QED BY <1>2, <2>1 DEF Shape
<1>4. ASSUME NEW t0, NEW gv PROVE Safe(t0, gv, Idle)
  BY <1>2, <1>3 DEF Safe, OwnTokens, TempKept, ClaimHeld, Covered
<1> QED BY <1>1, <1>2, <1>3, <1>4

\* One call of Create for a temporary lock, granted or refused.
LEMMA TakeLockOk ==
  ASSUME Inv, NEW w \in Worker, NEW r \in Request, TakeLock(w, r),
         r.want # << >>, Len(r.want) <= 2, Toks(r.want) \subseteq RootsOf(r),
         r.claim = {}, ~r.tagged, Distinct(r.have),
         req[w].claim = {}, Toks(req[w].have) = Toks(r.have),
         RootsOf(req[w]) = RootsOf(r) \/ r.have = << >>,
         \A y \in RootsOf(r) :
            y \in Toks(r.want) \/ HasLock(CollectExpiredNodes(m, r.now), req[w], y),
         \A r1 \in Request : r1.want = Tail(r.want) =>
            m.gen + 1 + Cardinality(Wanting([req EXCEPT ![w] = r1])) <= MaxGen
  PROVE  Inv'
<1> DEFINE c == CollectExpiredNodes(m, r.now)
           x == Head(r.want)
           g == m.gen + 1
<1>1. /\ Global(c, req, given) /\ c.gen = m.gen /\ Sound(c)
      /\ req \in [Worker -> Request] /\ Safe(c, given, req[w])
  BY CollectKeeps DEF Inv, Global
<1> HIDE DEF c
<1>2. /\ r.want \in Seq(Resource) /\ x \in Resource /\ Tail(r.want) \in Seq(Resource)
      /\ Toks(r.want) = {x} \cup Toks(Tail(r.want))
      /\ Tail(r.want) = << >> <=> Len(r.want) = 1
      /\ Len(Tail(r.want)) = Len(r.want) - 1 /\ Len(r.want) \in Nat
  <2>1. r.want \in Seq(Resource)
    BY RequestFacts
  <2> QED BY <2>1, PopToks
<1>3. x \in Name /\ x \in RootsOf(r) /\ r.now \in Nat /\ given' = given /\ clock' = clock
  BY <1>2, RequestFacts DEF TakeLock, Request
<1>4. CASE CanCreate(c, x, TRUE)
  <2> DEFINE r1 == [r EXCEPT !.pc = IF Len(r.want) = 1 THEN "acting" ELSE "locking",
                             !.want = Tail(@), !.have = <<m.gen + 1>> \o @]
  <2>1. /\ m' = Insert(c, r.now, x, TRUE, Infinite)
        /\ req' = [req EXCEPT ![w] = r1]
    BY <1>4 DEF TakeLock, c
  <2>2. /\ r1.pc = (IF Len(r.want) = 1 THEN "acting" ELSE "locking")
        /\ r1.want = Tail(r.want) /\ r1.have = <<g>> \o r.have
        /\ r1.claim = {} /\ ~r1.tagged /\ r1.src = r.src /\ r1.dst = r.dst
    BY DEF Request
  <2>3. g \in Token /\ c.gen \in Nat /\ g \notin Toks(r.have) /\ g \notin given
    <3>1. c.gen \in Nat /\ MaxGen \in Nat
      BY <1>1, BoundAssumption DEF Sound, Table
    <3>2. g <= MaxGen
      <4>1. PICK q \in Request : q.want = Tail(r.want)
        <5>1. [Idle EXCEPT !.want = Tail(r.want)] \in Request
          BY <1>2, IdleFacts DEF Request
        <5>2. [Idle EXCEPT !.want = Tail(r.want)].want = Tail(r.want)
          BY DEF Idle
        <5> QED BY <5>1, <5>2
      <4>2. g + Cardinality(Wanting([req EXCEPT ![w] = q])) <= MaxGen
        BY <4>1
      <4>3. Cardinality(Wanting([req EXCEPT ![w] = q])) \in Nat
        BY <1>1, WantingEffect
      <4> QED BY <1>1, <3>1, <4>2, <4>3
    <3>3. Toks(r.have) \subseteq 1 .. m.gen /\ given \subseteq 1 .. m.gen
      BY <1>1 DEF Safe, OwnTokens, Global
    <3> QED BY <1>1, <3>1, <3>2, <3>3 DEF Token
  <2>4. /\ r1.have \in Seq(Token) /\ r1.have # << >> /\ Distinct(r1.have)
        /\ Toks(r1.have) = {c.gen + 1} \cup Toks(req[w].have)
    <3>1. r.have \in Seq(Token)
      BY RequestFacts
    <3>2. /\ <<g>> \o r.have \in Seq(Token) /\ <<g>> \o r.have # << >>
          /\ Toks(<<g>> \o r.have) = {g} \cup Toks(r.have) /\ Distinct(<<g>> \o r.have)
      BY <2>3, <3>1, PushToks
    <3> QED BY <1>1, <2>2, <3>2
  <2>5. r1 \in Request
    BY <1>2, <2>4 DEF Request
  <2> HIDE DEF r1
  <2>6. RootsOf(r1) = RootsOf(r) /\ GuardedOf(r1) = RootsOf(r)
    BY <2>2 DEF RootsOf, GuardedOf
  <2>7. Shape(r1)
    <3>1. Len(r1.want) <= 1 /\ (r1.want # << >> <=> r1.pc = "locking")
      BY <1>2, <2>2
    <3>2. Toks(r1.want) \subseteq RootsOf(r1)
      BY <1>2, <2>2, <2>6
    <3>3. r1.pc \in {"acting", "locking"}
      BY <2>2
    <3> QED BY <2>2, <2>4, <3>1, <3>2, <3>3 DEF Shape
  <2>8. c.gen + 1 + Cardinality(Wanting([req EXCEPT ![w] = r1])) <= MaxGen
    BY <1>1, <2>2, <2>5
  <2>9. /\ x \in RootsOf(r1) /\ Infinite = Infinite
        /\ RootsOf(req[w]) = RootsOf(r1) \/ Toks(req[w].have) = {}
    BY <1>3, <2>6, EmptyToks
  <2>10. \A y \in GuardedOf(r1) :
           y = x \/ y \in Toks(r1.want) \/ HasLock(c, req[w], y)
    BY <1>2, <2>2, <2>6 DEF c
  <2>11. Infinite \in Duration \cup {Infinite} /\ TRUE \in BOOLEAN
    OBVIOUS
  <2>12. Global(Insert(c, r.now, x, TRUE, Infinite), [req EXCEPT ![w] = r1], given)
    <3> HIDE DEF x
    <3> QED BY <1>1, <1>3, <1>4, <2>2, <2>4, <2>5, <2>7, <2>8, <2>9, <2>10, <2>11, InsertOk
  <2> QED BY <1>3, <2>1, <2>12 DEF Inv
<1>5. CASE ~CanCreate(c, x, TRUE) /\ r.have = << >>
  <2>1. m' = c /\ req' = [req EXCEPT ![w] = Idle]
    BY <1>5 DEF TakeLock, c
  <2>2. Toks(Idle.have) = Toks(req[w].have)
    BY <1>5, IdleFacts
  <2>3. Global(c, [req EXCEPT ![w] = Idle], given)
    BY <1>1, <2>2, IdleFacts, RequestStep
  <2> QED BY <1>3, <2>1, <2>3 DEF Inv
<1>6. CASE ~CanCreate(c, x, TRUE) /\ r.have # << >>
  <2> DEFINE r1 == [r EXCEPT !.pc = "unlocking", !.want = << >>]
  <2>1. m' = c /\ req' = [req EXCEPT ![w] = r1]
    BY <1>6 DEF TakeLock, c
  <2>2. /\ r1.pc = "unlocking" /\ r1.want = << >> /\ r1.have = r.have
        /\ r1.claim = {} /\ ~r1.tagged /\ r1.src = r.src /\ r1.dst = r.dst
    BY DEF Request
  <2>3. r1 \in Request
    <3>1. << >> \in Seq(Resource)
      OBVIOUS
    <3> QED BY <3>1 DEF Request
  <2> HIDE DEF r1
  <2>4. RootsOf(r1) = RootsOf(req[w])
    BY <1>6, <2>2 DEF RootsOf
  <2>5. Safe(c, given, r1)
    <3>1. Shape(r1)
      <4>1. Len(r1.want) = 0 /\ Toks(r1.want) = {}
        BY <2>2, EmptyToks
      <4> QED BY <1>6, <2>2, <4>1 DEF Shape
    <3>2. OwnTokens(c, given, r1) /\ TempKept(c, r1)
      BY <1>1, <2>2, <2>4 DEF Safe, OwnTokens, TempKept
    <3>3. ClaimHeld(c, r1) /\ Covered(c, r1)
      BY <2>2 DEF ClaimHeld, Covered
    <3> QED BY <3>1, <3>2, <3>3 DEF Safe
  <2>6. Global(c, [req EXCEPT ![w] = r1], given)
    BY <1>1, <2>2, <2>3, <2>5, RequestStep
  <2> QED BY <1>3, <2>1, <2>6 DEF Inv
<1> QED BY <1>4, <1>5, <1>6

\* A request names one resource or two, in the order it locks them.
LEMMA TargetsFacts ==
  ASSUME NEW t \in Targets
  PROVE  /\ t.src \in Resource \cup {NoName} /\ t.dst \in Resource \cup {NoName}
         /\ Named(t) \in Seq(Resource) /\ Named(t) # << >>
         /\ Len(Named(t)) \in {1, 2} /\ Len(Named(t)) <= 2
         /\ Toks(Named(t)) = {t.src, t.dst} \ {NoName}
<1>1. /\ t.src \in Resource \cup {NoName} /\ t.dst \in Resource \cup {NoName}
      /\ t.src # t.dst /\ NoName \notin Resource
  BY DavAssumption, NameAssumption DEF Targets
<1>2. CASE t.src = NoName \/ t.dst = NoName
  <2>1. PICK x \in Resource : Named(t) = <<x>> /\ {t.src, t.dst} \ {NoName} = {x}
    BY <1>1, <1>2 DEF Named
  <2>2. /\ <<x>> \in Seq(Resource) /\ <<x>> # << >> /\ Len(<<x>>) = 1 /\ Len(<<x>>) <= 2
        /\ DOMAIN <<x>> = {1} /\ <<x>>[1] = x
    OBVIOUS
  <2>3. Toks(<<x>>) = {x}
    BY <2>2 DEF Toks
  <2> QED BY <1>1, <2>1, <2>2, <2>3
<1>3. CASE t.src # NoName /\ t.dst # NoName
  <2> DEFINE x == t.src
             y == t.dst
  <2>1. Named(t) = <<x, y>> /\ {t.src, t.dst} \ {NoName} = {x, y} /\ x \in Resource
        /\ y \in Resource /\ x # y
    BY <1>1, <1>3 DEF Named
  <2> HIDE DEF x, y
  <2>2. /\ <<x, y>> \in Seq(Resource) /\ <<x, y>> # << >> /\ Len(<<x, y>>) = 2 /\ Len(<<x, y>>) <= 2
        /\ DOMAIN <<x, y>> = {1, 2} /\ <<x, y>>[1] = x /\ <<x, y>>[2] = y
    BY <2>1
  <2>3. Toks(<<x, y>>) = {x, y}
    BY <2>2 DEF Toks
  <2> QED BY <1>1, <2>1, <2>2, <2>3
<1> QED BY <1>2, <1>3

\* The first temporary lock of a request, or its refusal.
LEMMA ArriveOk ==
  ASSUME Inv, NEW w \in Worker, NEW now \in Readings, NEW t \in Targets, Arrive(w, now, t)
  PROVE  Inv'
<1> DEFINE r == [Idle EXCEPT !.src = t.src, !.dst = t.dst, !.now = now, !.want = Named(t)]
<1>1. /\ req \in [Worker -> Request] /\ Safe(m, given, req[w]) /\ req[w] \in Request
      /\ m.gen \in Nat /\ MaxGen \in Nat
  BY BoundAssumption DEF Inv, Global, Sound, Table
<1>2. req[w] = Idle /\ m.gen + Cardinality(Wanting(req)) + Len(Named(t)) <= MaxGen
  BY <1>1 DEF Arrive, CanIssue, Wanting, Safe, Shape
<1>3. now \in Nat
  BY DEF Readings, Inv
<1>4. /\ r.src = t.src /\ r.dst = t.dst /\ r.want = Named(t) /\ r.claim = {} /\ ~r.tagged
      /\ r.have = << >>
  BY DEF Idle
<1>5. r \in Request
  BY <1>3, TargetsFacts, IdleFacts DEF Request
<1>6. TakeLock(w, r)
  BY DEF Arrive
<1> HIDE DEF r
<1>7. /\ r.want # << >> /\ Len(r.want) <= 2 /\ Toks(r.want) = RootsOf(r)
      /\ Distinct(r.have) /\ Toks(req[w].have) = Toks(r.have) /\ req[w].claim = {}
  <2>1. r.want # << >> /\ Len(r.want) <= 2
    <3>1. Named(t) # << >> /\ Len(Named(t)) <= 2
      BY TargetsFacts
    <3> QED BY <1>4, <3>1
  <2>2. Toks(r.want) = RootsOf(r)
    BY <1>4, TargetsFacts DEF RootsOf
  <2>3. Distinct(r.have) /\ Toks(req[w].have) = Toks(r.have) /\ req[w].claim = {}
    BY <1>2, <1>4, IdleFacts, EmptyToks
  <2> QED BY <2>1, <2>2, <2>3
<1>8. ASSUME NEW r1 \in Request, r1.want = Tail(r.want)
      PROVE  m.gen + 1 + Cardinality(Wanting([req EXCEPT ![w] = r1])) <= MaxGen
  <2>1. r.want \in Seq(Resource) /\ Len(r.want) \in {1, 2}
    BY <1>4, TargetsFacts
  <2>2. Len(r.want) = 1 => r1.want = << >>
    BY <1>7, <1>8, <2>1, PopToks
  <2>3. /\ Cardinality(Wanting(req)) \in Nat
        /\ Cardinality(Wanting([req EXCEPT ![w] = r1])) \in Nat
        /\ Cardinality(Wanting([req EXCEPT ![w] = r1])) <= Cardinality(Wanting(req)) + 1
        /\ r1.want = << >> =>
             Cardinality(Wanting([req EXCEPT ![w] = r1])) <= Cardinality(Wanting(req))
    BY <1>1, WantingEffect
  <2>4. m.gen + Cardinality(Wanting(req)) + Len(r.want) <= MaxGen
    BY <1>2, <1>4
  <2>5. CASE Len(r.want) = 1
    BY <1>1, <2>2, <2>3, <2>4, <2>5
  <2>6. CASE Len(r.want) = 2
    BY <1>1, <2>3, <2>4, <2>6
  <2> QED BY <2>1, <2>5, <2>6
<1> QED BY <1>4, <1>5, <1>6, <1>7, <1>8, TakeLockOk

\* The second one, or the way to giving the first one back.
LEMMA TakeSecondLockOk ==
  ASSUME Inv, NEW w \in Worker, TakeSecondLock(w)
  PROVE  Inv'
<1> DEFINE r == req[w]
           c == CollectExpiredNodes(m, r.now)
<1>1. /\ req \in [Worker -> Request] /\ Safe(m, given, r) /\ r \in Request
      /\ Reserve(m, req) /\ m.gen \in Nat /\ MaxGen \in Nat
      /\ Safe(c, given, r)
  <2>1. /\ req \in [Worker -> Request] /\ Safe(m, given, r) /\ r \in Request
        /\ Reserve(m, req) /\ m.gen \in Nat /\ MaxGen \in Nat
    BY BoundAssumption DEF Inv, Global, Sound, Table
  <2>2. Global(c, req, given)
    BY CollectKeeps DEF Inv
  <2> QED BY <2>1, <2>2 DEF Global
<1>2. TakeLock(w, r) /\ r.pc = "locking"
  BY DEF TakeSecondLock
<1> HIDE DEF c
<1>3. /\ r.want # << >> /\ Len(r.want) <= 1 /\ Toks(r.want) \subseteq RootsOf(r)
      /\ r.claim = {} /\ ~r.tagged /\ Distinct(r.have)
  BY <1>1, <1>2 DEF Safe, Shape
<1>4. r.want \in Seq(Resource) /\ Tail(r.want) = << >> /\ Len(r.want) \in Nat
  <2>1. r.want \in Seq(Resource)
    BY <1>1, RequestFacts
  <2>2. Len(r.want) >= 1 /\ Len(r.want) \in Nat /\ (Tail(r.want) = << >> <=> Len(r.want) = 1)
    BY <1>3, <2>1, PopToks
  <2> QED BY <1>3, <2>1, <2>2
<1>5. \A y \in RootsOf(r) : y \in Toks(r.want) \/ HasLock(c, r, y)
  BY <1>1, <1>2, <1>3 DEF Safe, Covered, GuardedOf
<1>6. ASSUME NEW r1 \in Request, r1.want = Tail(r.want)
      PROVE  m.gen + 1 + Cardinality(Wanting([req EXCEPT ![w] = r1])) <= MaxGen
  <2>1. /\ Cardinality(Wanting(req)) \in Nat
        /\ Cardinality(Wanting([req EXCEPT ![w] = r1])) \in Nat
        /\ Cardinality(Wanting([req EXCEPT ![w] = r1])) = Cardinality(Wanting(req)) - 1
    BY <1>1, <1>3, <1>4, <1>6, WantingEffect
  <2> QED BY <1>1, <2>1 DEF Reserve
<1>7. Len(r.want) <= 2
  BY <1>3, <1>4
<1> QED BY <1>1, <1>2, <1>3, <1>5, <1>6, <1>7, TakeLockOk DEF c

\* Unlocking the temporary locks, one by one.
LEMMA GiveBackOk ==
  ASSUME Inv, NEW w \in Worker, GiveBack(w)
  PROVE  Inv'
<1> DEFINE r == req[w]
           c == CollectExpiredNodes(m, r.now)
           h == Head(r.have)
           r1 == IF Len(r.have) = 1 THEN Idle ELSE [r EXCEPT !.have = Tail(@)]
<1>1. /\ req \in [Worker -> Request] /\ Safe(m, given, r) /\ r \in Request
      /\ Global(c, req, given)
  BY CollectKeeps DEF Inv, Global
<1>2. /\ r.pc = "unlocking" /\ req' = [req EXCEPT ![w] = r1]
      /\ m' = IF Verdict(c, h) = "ok" THEN Remove(c, {c.byToken[h]}) ELSE c
      /\ given' = given /\ clock' = clock
  BY DEF GiveBack, Unlocked
<1> HIDE DEF c
<1>3. /\ r.have # << >> /\ r.claim = {} /\ ~r.tagged /\ r.want = << >> /\ Distinct(r.have)
      /\ r.have \in Seq(Token)
  BY <1>1, <1>2, RequestFacts DEF Safe, Shape
<1>4. /\ Tail(r.have) \in Seq(Token) /\ Toks(r.have) = {h} \cup Toks(Tail(r.have))
      /\ h \notin Toks(Tail(r.have)) /\ Distinct(Tail(r.have))
      /\ (Tail(r.have) = << >> <=> Len(r.have) = 1)
  BY <1>3, PopToks
<1>5. CASE Len(r.have) = 1
  <2>1. r1 = Idle /\ Tail(r.have) = << >>
    BY <1>4, <1>5
  <2>2. Toks(r.have) = {h} \cup Toks(Idle.have) /\ h \notin Toks(Idle.have)
    BY <1>4, <2>1, EmptyToks, IdleFacts
  <2>3. Global(IF Verdict(c, h) = "ok" THEN Remove(c, {c.byToken[h]}) ELSE c,
               [req EXCEPT ![w] = Idle], given)
    BY <1>1, <1>3, <2>2, IdleFacts, DropOk
  <2> QED BY <1>2, <2>1, <2>3 DEF Inv
<1>6. CASE Len(r.have) # 1
  <2> DEFINE r2 == [r EXCEPT !.have = Tail(@)]
  <2>1. r1 = r2
    BY <1>6
  <2>2. /\ r2.pc = "unlocking" /\ r2.have = Tail(r.have) /\ r2.claim = {} /\ ~r2.tagged
        /\ r2.want = << >> /\ r2.src = r.src /\ r2.dst = r.dst /\ r2 \in Request
    BY <1>1, <1>2, <1>3, <1>4 DEF Request
  <2> HIDE DEF r2
  <2>3. RootsOf(r2) = RootsOf(r)
    BY <2>2 DEF RootsOf
  <2>4. Shape(r2)
    <3>1. Len(r2.want) = 0 /\ Toks(r2.want) = {}
      BY <2>2, EmptyToks
    <3>2. r2.have # << >> /\ Distinct(r2.have)
      BY <1>4, <1>6, <2>2
    <3> QED BY <2>2, <3>1, <3>2 DEF Shape
  <2>5. Global(IF Verdict(c, h) = "ok" THEN Remove(c, {c.byToken[h]}) ELSE c,
               [req EXCEPT ![w] = r2], given)
    <3>1. Toks(r.have) = {h} \cup Toks(r2.have) /\ h \notin Toks(r2.have)
      BY <1>4, <2>2
    <3> QED BY <1>1, <1>3, <2>2, <2>3, <2>4, <3>1, DropOk
  <2> QED BY <1>2, <2>1, <2>5 DEF Inv
<1> QED BY <1>5, <1>6

\* The next list of an If header, confirmed or not.
LEMMA TryListOk ==
  ASSUME Inv, NEW w \in Worker, NEW now, NEW r \in Request, NEW l \in List,
         TryList(w, now, r, l),
         r.have = << >>, r.want = << >>, r.claim = {}, ~r.tagged, r.lists # 0,
         req[w].have = << >>, req[w].claim = {}
  PROVE  Inv'
<1> DEFINE c == CollectExpiredNodes(m, now)
           src == IF l.tag = NoName THEN r.src ELSE l.tag
           named == {src, r.dst} \ {NoName}
           N == UNION {Lookup(c, x, l.tokens) : x \in named}
           confirmed == \A x \in named : Lookup(c, x, l.tokens) # {}
<1>1. /\ Global(c, req, given) /\ Sound(c) /\ given' = given /\ clock' = clock
      /\ req \in [Worker -> Request]
  BY CollectKeeps DEF Inv, Global, TryList
<1> HIDE DEF c
<1>2. CASE confirmed
  <2> DEFINE r1 == [r EXCEPT !.pc = "acting", !.lists = 0,
                             !.claim = {c.byName[n].token : n \in N},
                             !.tagged = l.tag # NoName]
  <2>1. m' = Hold(c, N) /\ req' = [req EXCEPT ![w] = r1]
    BY <1>2 DEF TryList, c
  <2>2. \A n \in N : /\ n \in Name /\ Locked(c, n) /\ ~c.byName[n].held
                     /\ c.byName[n].token \in given \cap Token
                     /\ c.byToken[c.byName[n].token] = n
    <3> SUFFICES ASSUME NEW x \in named, NEW n \in Lookup(c, x, l.tokens)
                 PROVE  /\ n \in Name /\ Locked(c, n) /\ ~c.byName[n].held
                        /\ c.byName[n].token \in given \cap Token
                        /\ c.byToken[c.byName[n].token] = n
      OBVIOUS
    <3>1. l.tokens \subseteq given
      BY DEF List
    <3> QED BY <1>1, <3>1, LookupMeans
  <2>3. \A x \in named : \E n \in N : Covers(c, n, x)
    <3> SUFFICES ASSUME NEW x \in named PROVE \E n \in N : Covers(c, n, x)
      OBVIOUS
    <3>1. PICK n \in Lookup(c, x, l.tokens) : TRUE
      BY <1>2
    <3>2. Covers(c, n, x)
      BY DEF Lookup
    <3> QED BY <3>1, <3>2
  <2>4. N \in SUBSET Name
    BY <2>2
  <2> HIDE DEF N
  <2>5. /\ r1.pc = "acting" /\ r1.have = << >> /\ r1.want = << >>
        /\ r1.claim = {c.byName[n].token : n \in N} /\ r1.src = r.src /\ r1.dst = r.dst
        /\ (r1.tagged <=> l.tag # NoName)
    BY DEF Request
  <2>6. r1 \in Request
    <3>1. {c.byName[n].token : n \in N} \subseteq Token
      BY <2>2
    <3>2. 0 \in 0 .. Lists /\ (l.tag # NoName) \in BOOLEAN
      BY DavAssumption
    <3> QED BY <3>1, <3>2 DEF Request
  <2> HIDE DEF r1
  <2>7. \A x \in GuardedOf(r1) : \E n \in N : Covers(c, n, x)
    <3>1. GuardedOf(r1) \subseteq named
      BY <2>5 DEF GuardedOf, RootsOf
    <3> QED BY <2>3, <3>1
  <2>8. Global(Hold(c, N), [req EXCEPT ![w] = r1], given)
    BY <1>1, <2>2, <2>4, <2>5, <2>6, <2>7, ClaimOk
  <2> QED BY <1>1, <2>1, <2>8 DEF Inv
<1>3. CASE ~confirmed /\ r.lists = 1
  <2>1. m' = c /\ req' = [req EXCEPT ![w] = Idle]
    BY <1>3 DEF TryList, c
  <2>2. Global(c, [req EXCEPT ![w] = Idle], given)
    BY <1>1, IdleFacts, RequestStep
  <2> QED BY <1>1, <2>1, <2>2 DEF Inv
<1>4. CASE ~confirmed /\ r.lists # 1
  <2> DEFINE r1 == [r EXCEPT !.pc = "confirming", !.lists = @ - 1]
  <2>1. m' = c /\ req' = [req EXCEPT ![w] = r1]
    BY <1>4 DEF TryList, c
  <2>2. /\ r1.pc = "confirming" /\ r1.have = << >> /\ r1.want = << >> /\ r1.claim = {}
        /\ ~r1.tagged /\ r1.lists = r.lists - 1
    BY DEF Request
  <2>3. r1.lists # 0 /\ r1.lists \in 0 .. Lists
    <3>1. r.lists \in 0 .. Lists /\ Lists \in Nat
      BY DavAssumption DEF Request
    <3> QED BY <1>4, <2>2, <3>1
  <2>4. r1 \in Request
    BY <2>3 DEF Request
  <2> HIDE DEF r1
  <2>5. Safe(c, given, r1)
    <3>1. Toks(r1.have) = {} /\ Distinct(r1.have) /\ Toks(r1.want) = {} /\ Len(r1.want) = 0
      BY <2>2, EmptyToks
    <3> QED BY <2>2, <2>3, <3>1 DEF Safe, Shape, OwnTokens, TempKept, ClaimHeld, Covered
  <2>6. Global(c, [req EXCEPT ![w] = r1], given)
    BY <1>1, <2>2, <2>4, <2>5, RequestStep
  <2> QED BY <1>1, <2>1, <2>6 DEF Inv
<1> QED BY <1>2, <1>3, <1>4

\* Trying the next list of an If header, first or later.
LEMMA ConfirmingOk ==
  ASSUME Inv, NEW w \in Worker, NEW now \in Readings, NEW l \in List,
         (\E t \in Targets : ArriveIf(w, now, t, l)) \/ TryNextList(w, now, l)
  PROVE  Inv'
<1>1. /\ req \in [Worker -> Request] /\ Safe(m, given, req[w]) /\ req[w] \in Request
  BY DEF Inv, Global
<1>2. ASSUME NEW t \in Targets, ArriveIf(w, now, t, l) PROVE Inv'
  <2> DEFINE r == [Idle EXCEPT !.src = t.src, !.dst = t.dst, !.lists = Lists]
  <2>1. req[w] = Idle /\ TryList(w, now, r, l)
    BY <1>1, <1>2 DEF ArriveIf, Safe, Shape
  <2>2. /\ r.src = t.src /\ r.dst = t.dst /\ r.lists = Lists /\ r.claim = {} /\ ~r.tagged
        /\ r.have = << >> /\ r.want = << >>
    BY DEF Idle
  <2>3. r \in Request /\ r.lists # 0
    <3>1. Lists \in 0 .. Lists /\ Lists # 0
      BY DavAssumption
    <3>2. t.src \in Resource \cup {NoName} /\ t.dst \in Resource \cup {NoName}
      BY TargetsFacts
    <3> QED BY <2>2, <3>1, <3>2, IdleFacts DEF Request
  <2> HIDE DEF r
  <2> QED BY <2>1, <2>2, <2>3, IdleFacts, TryListOk
<1>3. CASE TryNextList(w, now, l)
  <2>1. req[w].pc = "confirming" /\ TryList(w, now, req[w], l)
    BY <1>3 DEF TryNextList
  <2>2. /\ req[w].have = << >> /\ req[w].want = << >> /\ req[w].claim = {}
        /\ ~req[w].tagged /\ req[w].lists # 0
    BY <1>1, <2>1 DEF Safe, Shape
  <2> QED BY <1>1, <2>1, <2>2, TryListOk
<1> QED BY <1>2, <1>3

\* The deferred release: of a claim, or, when the request took temporary locks, of
\* nothing yet.
LEMMA FinishOk ==
  ASSUME Inv, NEW w \in Worker, Finish(w)
  PROVE  Inv'
<1> DEFINE r == req[w]
           r1 == IF r.have = << >> THEN Idle ELSE [r EXCEPT !.pc = "unlocking"]
<1>1. /\ req \in [Worker -> Request] /\ Safe(m, given, r) /\ r \in Request
      /\ Global(m, req, given)
  BY DEF Inv, Global
<1>2. /\ r.pc = "acting" /\ req' = [req EXCEPT ![w] = r1]
      /\ m' = Unhold(m, {m.byToken[t] : t \in req[w].claim})
      /\ given' = given /\ clock' = clock
  BY DEF Finish
<1>3. /\ r1 \in Request /\ Shape(r1) /\ r1.claim = {} /\ r1.want = << >>
      /\ Toks(r1.have) = Toks(r.have)
      /\ RootsOf(r1) = RootsOf(r) \/ Toks(r1.have) = {}
      /\ r1.pc \in {"idle", "unlocking"}
  <2>1. CASE r.have = << >>
    BY <2>1, IdleFacts
  <2>2. CASE r.have # << >>
    <3> DEFINE r2 == [r EXCEPT !.pc = "unlocking"]
    <3>1. /\ r2 \in Request /\ r2.pc = "unlocking" /\ r2.have = r.have /\ r2.want = r.want
          /\ r2.claim = r.claim /\ r2.tagged = r.tagged /\ r2.src = r.src /\ r2.dst = r.dst
      BY <1>1 DEF Request
    <3>2. r1 = r2
      BY <2>2
    <3> HIDE DEF r1, r2
    <3>3. r.claim = {} /\ ~r.tagged /\ r.want = << >> /\ Distinct(r.have)
      BY <1>1, <1>2, <2>2 DEF Safe, Shape
    <3>4. Shape(r2)
      <4>1. Len(r2.want) = 0 /\ Toks(r2.want) = {}
        BY <3>1, <3>3, EmptyToks
      <4> QED BY <2>2, <3>1, <3>3, <4>1 DEF Shape
    <3> QED BY <3>1, <3>2, <3>3, <3>4 DEF RootsOf
  <2> QED BY <2>1, <2>2
<1> HIDE DEF r1
<1>4. Global(Unhold(m, {m.byToken[t] : t \in req[w].claim}), [req EXCEPT ![w] = r1], given)
  BY <1>1, <1>3, ReleaseOk
<1> QED BY <1>2, <1>4 DEF Inv

\* LOCK creates a lock; its token is not known to clients yet.
LEMMA LockOk ==
  ASSUME Inv, NEW w \in Worker, NEW now \in Readings, NEW x \in Resource,
         NEW zeroDepth \in BOOLEAN, NEW duration \in Duration \cup {Infinite},
         Lock(w, now, x, zeroDepth, duration)
  PROVE  Inv'
<1> DEFINE c == CollectExpiredNodes(m, now)
           g == m.gen + 1
<1>1. /\ Global(c, req, given) /\ c.gen = m.gen /\ m.gen \in Nat /\ MaxGen \in Nat
      /\ req \in [Worker -> Request] /\ Safe(c, given, req[w])
  <2>1. Global(c, req, given) /\ c.gen = m.gen
    BY CollectKeeps DEF Inv
  <2>2. m.gen \in Nat /\ MaxGen \in Nat
    BY BoundAssumption DEF Inv, Global, Sound, Table
  <2> QED BY <2>1, <2>2 DEF Global
<1>2. /\ req[w] = Idle /\ given' = given /\ clock' = clock
      /\ m.gen + Cardinality(Wanting(req)) + 1 <= MaxGen
  BY <1>1 DEF Lock, CanIssue, Wanting, Safe, Shape
<1>3. now \in Nat /\ x \in Name
  BY DavAssumption DEF Readings, Inv
<1> HIDE DEF c
<1>4. CASE CanCreate(c, x, zeroDepth)
  <2> DEFINE r1 == [Idle EXCEPT !.pc = "creating", !.now = now, !.have = <<m.gen + 1>>]
  <2>1. /\ m' = Insert(c, now, x, zeroDepth, duration)
        /\ req' = [req EXCEPT ![w] = r1]
    BY <1>4 DEF Lock, c
  <2>2. /\ r1.pc = "creating" /\ r1.have = <<g>> /\ r1.want = << >> /\ r1.claim = {}
        /\ ~r1.tagged /\ r1.src = NoName /\ r1.dst = NoName
    BY DEF Idle
  <2>3. g \in Token
    <3>1. Cardinality(Wanting(req)) \in Nat
      BY <1>1, IdleFacts, WantingEffect
    <3> QED BY <1>1, <1>2, <3>1 DEF Token
  <2>4. /\ <<g>> \in Seq(Token) /\ <<g>> # << >> /\ DOMAIN <<g>> = {1} /\ <<g>>[1] = g
        /\ Len(<<g>>) = 1
    BY <2>3
  <2>5. r1 \in Request
    BY <1>3, <2>4, IdleFacts DEF Request
  <2>6. Toks(<<g>>) = {g} /\ Distinct(<<g>>)
    <3> HIDE DEF g
    <3> QED BY <2>4 DEF Toks, Distinct
  <2> HIDE DEF r1
  <2>7. RootsOf(r1) = {} /\ r1.pc \notin {"locking", "acting"}
    BY <2>2 DEF RootsOf
  <2>8. Shape(r1)
    <3>1. Len(r1.want) = 0 /\ Toks(r1.want) = {}
      BY <2>2, EmptyToks
    <3> QED BY <2>2, <2>4, <2>6, <2>7, <3>1 DEF Shape
  <2>9. Toks(r1.have) = {c.gen + 1} \cup Toks(req[w].have)
    BY <1>1, <1>2, <2>2, <2>6, IdleFacts
  <2>10. c.gen + 1 + Cardinality(Wanting([req EXCEPT ![w] = r1])) <= MaxGen
    <3>1. /\ Cardinality(Wanting(req)) \in Nat
          /\ Cardinality(Wanting([req EXCEPT ![w] = r1])) \in Nat
          /\ Cardinality(Wanting([req EXCEPT ![w] = r1])) <= Cardinality(Wanting(req))
      BY <1>1, <2>2, <2>5, WantingEffect
    <3> QED BY <1>1, <1>2, <3>1
  <2>11. Global(Insert(c, now, x, zeroDepth, duration), [req EXCEPT ![w] = r1], given)
    <3>1. r1.claim = {} /\ req[w].claim = {}
      BY <1>2, <2>2, IdleFacts
    <3> QED BY <1>1, <1>3, <1>4, <2>5, <2>7, <2>8, <2>9, <2>10, <3>1, InsertOk
  <2> QED BY <1>2, <2>1, <2>11 DEF Inv
<1>5. CASE ~CanCreate(c, x, zeroDepth)
  <2>1. m' = c /\ req' = req
    BY <1>5 DEF Lock, c
  <2> QED BY <1>1, <1>2, <2>1 DEF Inv
<1> QED BY <1>4, <1>5

\* The token of the new lock goes from the request to the clients.
LEMMA LockAnsweredOk ==
  ASSUME Inv, NEW w \in Worker, LockAnswered(w)
  PROVE  Inv'
<1> DEFINE h == Head(req[w].have)
           gv1 == given \cup {h}
<1>1. /\ req \in [Worker -> Request] /\ Sound(m) /\ given \subseteq 1 .. m.gen
      /\ m.gen \in Nat /\ MaxGen \in Nat
      /\ \A v \in Worker : req[v] \in Request /\ Safe(m, given, req[v])
      /\ \A v \in Worker : v # w => Apart(req[w], req[v])
      /\ Reserve(m, req) /\ HeldClaimed(m, req) /\ Accounted(m, req, given)
      /\ Global(m, req, given)
  BY BoundAssumption DEF Inv, Global, Sound, Table
<1>2. /\ req[w].pc = "creating" /\ given' = gv1 /\ req' = [req EXCEPT ![w] = Idle]
      /\ m' = m /\ clock' = clock
  BY DEF LockAnswered
<1>3. /\ req[w].have # << >> /\ req[w].claim = {} /\ RootsOf(req[w]) = {}
      /\ req[w].have \in Seq(Token)
  BY <1>1, <1>2, RequestFacts DEF Safe, Shape
<1>4. Toks(req[w].have) = {h} /\ h \in 1 .. m.gen
  <2>1. Len(req[w].have) = 1
    BY <1>1, <1>2 DEF Safe, Shape
  <2>2. Toks(Tail(req[w].have)) = {}
    BY <1>3, <2>1, PopToks, EmptyToks
  <2>3. Toks(req[w].have) = {h}
    BY <1>3, <2>2, PopToks
  <2> QED BY <1>1, <2>3 DEF Safe, OwnTokens
<1> HIDE DEF h
<1>5. ASSUME NEW v \in Worker, v # w
      PROVE  /\ \A t \in Protected(req[v]) : Same(m, m, t)
             /\ gv1 \cap Toks(req[v].have) = {}
             /\ Apart(Idle, req[v])
  <2>1. given \cap Toks(req[v].have) = {}
    BY <1>1 DEF Safe, OwnTokens
  <2>2. h \notin Toks(req[v].have)
    BY <1>1, <1>4, <1>5 DEF Apart
  <2> QED BY <2>1, <2>2, IdleFacts DEF Same, Apart
<1>6. ASSUME NEW n \in Name, m.byName[n].held
      PROVE  \/ m.byName[n].token \in Idle.claim
             \/ \E v \in Worker : v # w /\ m.byName[n].token \in req[v].claim
  BY <1>1, <1>3, <1>6 DEF HeldClaimed
<1>7. Reserve(m, [req EXCEPT ![w] = Idle])
  <2>1. /\ Cardinality(Wanting(req)) \in Nat
        /\ Cardinality(Wanting([req EXCEPT ![w] = Idle])) \in Nat
        /\ Cardinality(Wanting([req EXCEPT ![w] = Idle])) <= Cardinality(Wanting(req))
    BY <1>1, IdleFacts, WantingEffect
  <2> QED BY <1>1, <2>1 DEF Reserve
<1>8. ASSUME NEW t \in Live(m)
      PROVE  \/ t \in gv1 \/ t \in Toks(Idle.have)
             \/ \E v \in Worker : v # w /\ t \in Toks(req[v].have)
  BY <1>1, <1>4 DEF Accounted
<1>9. m.gen <= m.gen /\ given \subseteq gv1 /\ gv1 \subseteq 1 .. m.gen
  BY <1>1, <1>4
<1>10. Global(m, [req EXCEPT ![w] = Idle], gv1)
  <2>1. Idle \in Request /\ Safe(m, gv1, Idle)
    BY IdleFacts
  <2> HIDE DEF gv1
  <2> QED BY <1>1, <1>5, <1>6, <1>7, <1>8, <1>9, <2>1, StepOk
<1> QED BY <1>2, <1>10 DEF Inv

\* When the file could not be created LOCK turns to taking its lock back.
LEMMA LockFailedOk ==
  ASSUME Inv, NEW w \in Worker, LockFailed(w)
  PROVE  Inv'
<1> DEFINE r == req[w]
           r1 == [r EXCEPT !.pc = "unlocking"]
<1>1. /\ req \in [Worker -> Request] /\ Safe(m, given, r) /\ r \in Request
      /\ Global(m, req, given)
  BY DEF Inv, Global
<1>2. /\ r.pc = "creating" /\ req' = [req EXCEPT ![w] = r1]
      /\ m' = m /\ given' = given /\ clock' = clock
  BY DEF LockFailed
<1>3. /\ r1 \in Request /\ r1.pc = "unlocking" /\ r1.have = r.have /\ r1.want = r.want
      /\ r1.claim = r.claim /\ r1.tagged = r.tagged /\ r1.src = r.src /\ r1.dst = r.dst
  BY <1>1 DEF Request
<1> HIDE DEF r1
<1>4. r.have # << >> /\ r.claim = {} /\ ~r.tagged /\ r.want = << >> /\ Distinct(r.have)
  BY <1>1, <1>2 DEF Safe, Shape
<1>5. Safe(m, given, r1)
  <2>1. Shape(r1)
    <3>1. Len(r1.want) = 0 /\ Toks(r1.want) = {}
      BY <1>3, <1>4, EmptyToks
    <3> QED BY <1>3, <1>4, <3>1 DEF Shape
  <2>2. OwnTokens(m, given, r1) /\ TempKept(m, r1) /\ ClaimHeld(m, r1) /\ Covered(m, r1)
    BY <1>1, <1>3 DEF Safe, OwnTokens, TempKept, ClaimHeld, Covered, RootsOf
  <2> QED BY <2>1, <2>2 DEF Safe
<1>6. Global(m, [req EXCEPT ![w] = r1], given)
  BY <1>1, <1>3, <1>4, <1>5, RequestStep
<1> QED BY <1>2, <1>6 DEF Inv

\* A token a client knows is on no lock a request took for itself, and on a claimed
\* one only while that is held: what passes the test of Refresh and Unlock is none
\* that a request relies on.
LEMMA ClientTokenFree ==
  ASSUME NEW t0, NEW rq, NEW gv, Global(t0, rq, gv), NEW token \in gv,
         Verdict(t0, token) = "ok", NEW v \in Worker, NEW t \in Protected(rq[v])
  PROVE  /\ t0.byToken[token] \in Name /\ Locked(t0, t0.byToken[token])
         /\ ~t0.byName[t0.byToken[token]].held
         /\ t0.byToken[t] \in Name /\ t0.byToken[t] # t0.byToken[token]
<1>1. /\ Sound(t0) /\ gv \subseteq 1 .. t0.gen /\ rq[v] \in Request /\ Safe(t0, gv, rq[v])
      /\ token \in Token
  BY BoundAssumption DEF Global, Sound, Table, Token
<1>2. /\ t0.byToken[token] \in Name /\ Locked(t0, t0.byToken[token])
      /\ ~t0.byName[t0.byToken[token]].held /\ t0.byName[t0.byToken[token]].token = token
  BY <1>1, VerdictOk
<1>3. /\ t0.byToken[t] \in Name /\ t0.byName[t0.byToken[t]].token = t
      /\ t \in rq[v].claim \/ t \in Toks(rq[v].have)
      /\ t \in rq[v].claim => t0.byName[t0.byToken[t]].held
  BY <1>1, ProtectedMeans
<1>4. t \in Toks(rq[v].have) => t \notin gv
  BY <1>1 DEF Safe, OwnTokens
<1> QED BY <1>2, <1>3, <1>4

\* A refresh, with any token clients know.
LEMMA RefreshLockOk ==
  ASSUME Inv, NEW now \in Readings, NEW token \in given,
         NEW duration \in Duration \cup {Infinite}, RefreshLock(now, token, duration)
  PROVE  Inv'
<1> DEFINE c == CollectExpiredNodes(m, now)
           n == c.byToken[token]
           t1 == Extend(c, now, n, duration)
<1>1. /\ Global(c, req, given) /\ Sound(c) /\ given \subseteq 1 .. c.gen
      /\ c.gen \in Nat /\ now \in Nat
      /\ req' = req /\ given' = given /\ clock' = clock
      /\ m' = IF Verdict(c, token) = "ok" THEN t1 ELSE c
  <2>1. Global(c, req, given)
    BY CollectKeeps DEF Inv
  <2>2. now \in Nat
    BY DEF Readings, Inv
  <2> HIDE DEF t1, n
  <2>3. /\ req' = req /\ given' = given /\ clock' = clock
        /\ m' = IF Verdict(c, token) = "ok" THEN t1 ELSE c
    BY DEF RefreshLock, t1, n
  <2> HIDE DEF c
  <2> QED BY <2>1, <2>2, <2>3, BoundAssumption DEF Global, Sound, Table
<1> HIDE DEF c
<1>2. CASE Verdict(c, token) = "ok"
  <2>1. token \in Token
    BY <1>1, BoundAssumption DEF Sound, Table, Token
  <2>2. n \in Name /\ Locked(c, n) /\ ~c.byName[n].held
    BY <1>1, <1>2, <2>1, VerdictOk
  <2>3. \A v \in Worker : \A t \in Protected(req[v]) : c.byToken[t] \in Name /\ c.byToken[t] # n
    BY <1>1, <1>2, ClientTokenFree
  <2> HIDE DEF n
  <2>4. /\ Sound(t1) /\ t1.gen = c.gen /\ t1.byToken = c.byToken
        /\ \A k \in Name :
              /\ t1.byName[k].token = c.byName[k].token
              /\ t1.byName[k].held = c.byName[k].held
              /\ k # n => t1.byName[k] = c.byName[k]
    BY <1>1, <2>2, ExtendSound
  <2> HIDE DEF t1
  <2>5. \A v \in Worker : \A t \in Protected(req[v]) : Same(c, t1, t)
    BY <2>3, <2>4 DEF Same
  <2>6. Live(t1) \subseteq Live(c)
    BY <2>4 DEF Live
  <2>7. Global(t1, req, given)
    BY <1>1, <2>4, <2>5, <2>6, TableStep
  <2> QED BY <1>1, <1>2, <2>7 DEF Inv
<1>3. CASE Verdict(c, token) # "ok"
  BY <1>1, <1>3 DEF Inv
<1> QED BY <1>2, <1>3

\* UNLOCK, with any token clients know.
LEMMA UnlockOk ==
  ASSUME Inv, NEW now \in Readings, NEW token \in given, Unlock(now, token)
  PROVE  Inv'
<1> DEFINE c == CollectExpiredNodes(m, now)
           R == {c.byToken[token]}
<1>1. /\ Global(c, req, given) /\ Sound(c) /\ given \subseteq 1 .. c.gen /\ c.gen \in Nat
  <2>1. Global(c, req, given)
    BY CollectKeeps DEF Inv
  <2> HIDE DEF c
  <2> QED BY <2>1, BoundAssumption DEF Global, Sound, Table
<1>2. /\ req' = req /\ given' = given /\ clock' = clock
      /\ m' = IF Verdict(c, token) = "ok" THEN Remove(c, R) ELSE c
  BY DEF Unlock, Unlocked
<1> HIDE DEF c
<1>3. CASE Verdict(c, token) = "ok"
  <2>1. token \in Token
    BY <1>1, BoundAssumption DEF Sound, Table, Token
  <2>2. R \in SUBSET Name /\ \A n \in R : Locked(c, n) /\ ~c.byName[n].held
    BY <1>1, <1>3, <2>1, VerdictOk
  <2>3. \A v \in Worker : \A t \in Protected(req[v]) : c.byToken[t] \notin R
    BY <1>1, <1>3, ClientTokenFree
  <2> HIDE DEF R
  <2>4. Global(Remove(c, R), req, given)
    BY <1>1, <2>2, <2>3, RemoveKeeps
  <2> QED BY <1>2, <1>3, <2>4 DEF Inv
<1>4. CASE Verdict(c, token) # "ok"
  BY <1>1, <1>2, <1>4 DEF Inv
<1> QED BY <1>3, <1>4

\* The invariant holds at the start.
LEMMA InvInit == Init => Inv
<1> SUFFICES ASSUME Init PROVE Inv
  OBVIOUS
<1>1. m = NewMemLS /\ req = [w \in Worker |-> Idle] /\ given = {} /\ clock = 0
  BY DEF Init
<1>2. /\ Sound(NewMemLS) /\ NewMemLS.gen = 0 /\ Live(NewMemLS) = {}
      /\ \A n \in Name : ~NewMemLS.byName[n].held
  BY NewSound
<1>3. req \in [Worker -> Request] /\ \A w \in Worker : req[w] = Idle
  BY <1>1, IdleFacts
<1>4. Reserve(m, req)
  <2>1. Wanting(req) = {}
    BY <1>3, IdleFacts DEF Wanting
  <2> QED BY <1>1, <1>2, <2>1, FS_EmptySet, BoundAssumption DEF Reserve
<1>5. Global(m, req, given)
  <2>1. \A v, w \in Worker : Apart(req[v], req[w])
    BY <1>3, IdleFacts DEF Apart
  <2>2. HeldClaimed(m, req) /\ Accounted(m, req, given)
    BY <1>1, <1>2 DEF HeldClaimed, Accounted
  <2>3. given \subseteq 1 .. m.gen
    BY <1>1
  <2>4. \A w \in Worker : Safe(m, given, req[w])
    BY <1>3, IdleFacts
  <2> QED BY <1>1, <1>2, <1>3, <1>4, <2>1, <2>2, <2>3, <2>4 DEF Global
<1> QED BY <1>1, <1>5, DavAssumption DEF Inv

\* Every step keeps it.
LEMMA InvNext == Inv /\ [Next]_vars => Inv'
<1> SUFFICES ASSUME Inv, [Next]_vars PROVE Inv'
  OBVIOUS
<1>1. CASE Tick
  BY <1>1, DavAssumption DEF Tick, Inv
<1>2. ASSUME NEW w \in Worker, NEW now \in Readings, NEW t \in Targets, Arrive(w, now, t)
      PROVE  Inv'
  BY <1>2, ArriveOk
<1>3. ASSUME NEW w \in Worker, NEW now \in Readings, NEW l \in List,
             (\E t \in Targets : ArriveIf(w, now, t, l)) \/ TryNextList(w, now, l)
      PROVE  Inv'
  BY <1>3, ConfirmingOk
<1>4. ASSUME NEW w \in Worker, TakeSecondLock(w) PROVE Inv'
  BY <1>4, TakeSecondLockOk
<1>5. ASSUME NEW w \in Worker, Finish(w) PROVE Inv'
  BY <1>5, FinishOk
<1>6. ASSUME NEW w \in Worker, GiveBack(w) PROVE Inv'
  BY <1>6, GiveBackOk
<1>7. ASSUME NEW w \in Worker, NEW now \in Readings, NEW x \in Resource,
             NEW zeroDepth \in BOOLEAN, NEW duration \in Duration \cup {Infinite},
             Lock(w, now, x, zeroDepth, duration)
      PROVE  Inv'
  BY <1>7, LockOk
<1>8. ASSUME NEW w \in Worker, LockAnswered(w) PROVE Inv'
  BY <1>8, LockAnsweredOk
<1>9. ASSUME NEW w \in Worker, LockFailed(w) PROVE Inv'
  BY <1>9, LockFailedOk
<1>10. ASSUME NEW now \in Readings, NEW token \in given,
              NEW duration \in Duration \cup {Infinite}, RefreshLock(now, token, duration)
       PROVE  Inv'
  BY <1>10, RefreshLockOk
<1>11. ASSUME NEW now \in Readings, NEW token \in given, Unlock(now, token) PROVE Inv'
  BY <1>11, UnlockOk
<1>12. CASE UNCHANGED vars
  BY <1>12 DEF vars, Inv
<1> QED
  BY <1>1, <1>2, <1>3, <1>4, <1>5, <1>6, <1>7, <1>8, <1>9, <1>10, <1>11, <1>12 DEF Next

-----------------------------------------------------------------------------
(* The theorems.                                                           *)

\* Every reachable state satisfies the inductive invariant: each request under way has
\* the locks it relies on, tokens are not shared, and what is held or locked belongs
\* to somebody.
THEOREM Invariant == Spec => []Inv
<1>1. Init => Inv
  BY InvInit
<1>2. Inv /\ [Next]_vars => Inv'
  BY InvNext
<1> QED BY <1>1, <1>2, PTL DEF Spec

\* The table and the requests keep the types the Go code declares (webdav.go, lock.go).
THEOREM TypeCorrect == Spec => []TypeOK
<1>1. Inv => TypeOK
  BY BoundAssumption DEF Inv, Global, Sound, Table, TypeOK, Token
<1> QED BY <1>1, Invariant, PTL

\* A request in its file operation has a lock of its own on what it named.
LEMMA ActingHasLock ==
  ASSUME Inv, NEW w \in Acting, NEW x \in Guarded(w)
  PROVE  \E u \in Own(w) : /\ u \in Live(m) /\ m.byToken[u] \in Name
                           /\ Locked(m, m.byToken[u])
                           /\ m.byName[m.byToken[u]].token = u
                           /\ Covers(m, m.byToken[u], x) /\ x \in Name
<1>1. /\ Sound(m) /\ w \in Worker /\ req[w] \in Request /\ Safe(m, given, req[w])
      /\ req[w].pc = "acting"
  BY DEF Inv, Global, Acting
<1>2. x \in GuardedOf(req[w])
  BY DEF Guarded, GuardedOf, Roots, RootsOf
<1>3. Toks(req[w].want) = {}
  BY <1>1, EmptyToks DEF Safe, Shape
<1>4. PICK u \in Toks(req[w].have) \cup req[w].claim :
        m.byToken[u] # NoName /\ Covers(m, m.byToken[u], x)
  BY <1>1, <1>2, <1>3 DEF Safe, Covered, HasLock
<1>5. u \in Live(m) /\ u \in Own(w) /\ x \in Name
  BY <1>1, <1>2, <1>4, RequestFacts DEF Live, Own, Toks
<1> QED BY <1>1, <1>4, <1>5, LiveMeans

\* Two requests inside their file operation at the same time name no common resource,
\* however many workers, lists and tokens there are (confirmLocks, webdav.go).
THEOREM WritersAlwaysExclusive == Spec => []WritersExclusive
<1>1. Inv => WritersExclusive
  <2> SUFFICES ASSUME Inv, NEW v \in Acting, NEW w \in Acting, v # w,
                      NEW x \in Guarded(v) \cap Guarded(w)
               PROVE  FALSE
    BY DEF WritersExclusive
  <2>1. Sound(m)
    BY DEF Inv, Global
  <2>2. PICK u \in Own(v) : /\ u \in Live(m) /\ m.byToken[u] \in Name
                            /\ Locked(m, m.byToken[u])
                            /\ m.byName[m.byToken[u]].token = u
                            /\ Covers(m, m.byToken[u], x) /\ x \in Name
    BY ActingHasLock
  <2>3. PICK z \in Own(w) : /\ z \in Live(m) /\ m.byToken[z] \in Name
                            /\ Locked(m, m.byToken[z])
                            /\ m.byName[m.byToken[z]].token = z
                            /\ Covers(m, m.byToken[z], x)
    BY ActingHasLock
  <2>4. u = z
    BY <2>1, <2>2, <2>3, CoverUnique
  <2>5. /\ Apart(req[v], req[w]) /\ Safe(m, given, req[v]) /\ Safe(m, given, req[w])
    BY DEF Inv, Global, Acting
  <2>6. /\ u \in Toks(req[v].have) \cup req[v].claim
        /\ u \in Toks(req[w].have) \cup req[w].claim
    BY <2>2, <2>3, <2>4 DEF Own, Toks
  <2> QED BY <2>5, <2>6 DEF Apart, Safe, OwnTokens
<1> QED BY <1>1, Invariant, PTL

\* While a request is inside its file operation, no lock but its own covers a resource
\* it named (confirmLocks and the lock table, webdav.go).
THEOREM LockedAlwaysRespected == Spec => []LockedResourcesRespected
<1>1. Inv => LockedResourcesRespected
  <2> SUFFICES ASSUME Inv, NEW w \in Acting, NEW t \in Live(m), t \notin Own(w),
                      NEW x \in Guarded(w), Covers(m, m.byToken[t], x)
               PROVE  FALSE
    BY DEF LockedResourcesRespected
  <2>1. Sound(m)
    BY DEF Inv, Global
  <2>2. PICK u \in Own(w) : /\ u \in Live(m) /\ m.byToken[u] \in Name
                            /\ Locked(m, m.byToken[u])
                            /\ m.byName[m.byToken[u]].token = u
                            /\ Covers(m, m.byToken[u], x) /\ x \in Name
    BY ActingHasLock
  <2>3. /\ m.byToken[t] \in Name /\ m.byName[m.byToken[t]].token = t
        /\ Locked(m, m.byToken[t])
    BY <2>1, LiveMeans
  <2>4. t = u
    BY <2>1, <2>2, <2>3, CoverUnique
  <2> QED BY <2>2, <2>4
<1> QED BY <1>1, Invariant, PTL

\* Every lock of the table is a client's or that of a request under way, a request keeps
\* its temporary locks until it unlocks them, and a node is held exactly while a
\* request claims it: no path through a handler leaks a lock (confirmLocks and its
\* deferred release, webdav.go).
THEOREM LocksAlwaysAccounted == Spec => []LocksAccounted
<1>1. Inv => NoLockLeaks
  BY DEF Inv, Global, Accounted, NoLockLeaks, Own, Toks
<1>2. Inv => TemporaryLocksKept
  BY DEF Inv, Global, Safe, TempKept, TemporaryLocksKept, Roots, RootsOf, Toks
<1>3. Inv => HeldIsClaimed
  <2> SUFFICES ASSUME Inv PROVE HeldIsClaimed
    OBVIOUS
  <2>1. /\ Sound(m) /\ HeldClaimed(m, req)
        /\ \A w \in Worker : req[w] \in Request /\ Safe(m, given, req[w])
    BY DEF Inv, Global
  <2>2. ASSUME NEW t \in Live(m), m.byName[m.byToken[t]].held
        PROVE  \E w \in Worker : t \in req[w].claim
    <3>1. m.byToken[t] \in Name /\ m.byName[m.byToken[t]].token = t
      BY <2>1, LiveMeans
    <3> QED BY <2>1, <2>2, <3>1 DEF HeldClaimed
  <2>3. ASSUME NEW w \in Worker, NEW t \in req[w].claim
        PROVE  t \in Live(m) /\ m.byName[m.byToken[t]].held
    <3>1. t \in Token
      BY <2>1, RequestFacts
    <3> QED BY <2>1, <3>1 DEF Safe, ClaimHeld, Live
  <2> QED BY <2>2, <2>3 DEF HeldIsClaimed
<1>4. Inv => LocksAccounted
  BY <1>1, <1>2, <1>3 DEF LocksAccounted
<1> QED BY <1>4, Invariant, PTL

=============================================================================
