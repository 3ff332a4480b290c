------------------------- MODULE LockServiceProofs -------------------------
(***************************************************************************)
(* Proofs about the lock table for every tree of resources, every number   *)
(* of callers, tokens and ticks.  The lemmas about the table operators are *)
(* in MemLSProofs; the invariant of LockService follows from them, one     *)
(* action at a time, and from it that the table implements LockSystem.     *)
(***************************************************************************)
EXTENDS LockService, MemLSProofs

-----------------------------------------------------------------------------
(* The table together with the pending releases.                           *)

\* What the pending releases cl know of a table m0: the nodes they captured
\* are held and theirs alone, no other node is held, and the resources they
\* were confirmed for are covered.
ClaimsOn(m0, cl) ==
  /\ \A p \in Caller : \A t \in cl[p].tokens :
        m0.byToken[t] # NoName /\ m0.byName[m0.byToken[t]].held
  /\ \A p, q \in Caller : p # q => cl[p].tokens \cap cl[q].tokens = {}
  /\ \A n \in Name : m0.byName[n].held =>
        \E p \in Caller : m0.byName[n].token \in cl[p].tokens
  /\ \A p \in Caller : \A x \in cl[p].named :
        \E t \in cl[p].tokens :
          m0.byToken[t] # NoName /\ Covers(m0, m0.byToken[t], x)

Good(m0, cl) == Sound(m0) /\ cl \in [Caller -> Claim] /\ ClaimsOn(m0, cl)

\* Inv is the invariant of the lock table and of the claims on it, with the
\* clock in its range.
LEMMA InvIsGood ==
  Inv <=> /\ Good(m, claims)
          /\ clock \in 0 .. MaxTime /\ reply \in Replies
BY DEF Inv, TypeOK, Exclusive, IndexOK, ReleaseFindsItsNodes, ClaimsCovered,
       Good, Sound, ClaimsOn

\* The same of the state after a step.
LEMMA InvIsGoodNext ==
  Inv' <=> /\ Good(m', claims')
           /\ clock' \in 0 .. MaxTime /\ reply' \in Replies
BY DEF Inv, TypeOK, Exclusive, IndexOK, ReleaseFindsItsNodes, ClaimsCovered,
       Good, Sound, ClaimsOn

\* A step that keeps the claimed nodes and holds no further one keeps what the
\* pending releases know.
LEMMA KeepsClaims ==
  ASSUME NEW t0, NEW t1, NEW cl, Good(t0, cl), Sound(t1),
         \A t \in Token : (t0.byToken[t] # NoName /\ t0.byName[t0.byToken[t]].held) =>
            /\ t1.byToken[t] = t0.byToken[t]
            /\ t1.byName[t1.byToken[t]].held
            /\ t1.byName[t1.byToken[t]].zeroDepth = t0.byName[t0.byToken[t]].zeroDepth,
         \A n \in Name : t1.byName[n].held =>
            t0.byName[n].held /\ t1.byName[n].token = t0.byName[n].token
  PROVE  Good(t1, cl)
<1>1. \A p \in Caller : cl[p].tokens \subseteq Token /\ cl[p].named \subseteq Name
  BY DEF Good, Claim
<1>2. \A p \in Caller : \A t \in cl[p].tokens :
        /\ t0.byToken[t] # NoName /\ t0.byName[t0.byToken[t]].held
        /\ t1.byToken[t] = t0.byToken[t]
        /\ t1.byName[t1.byToken[t]].held
        /\ t1.byName[t1.byToken[t]].zeroDepth = t0.byName[t0.byToken[t]].zeroDepth
  BY <1>1 DEF Good, ClaimsOn
<1>3. \A p \in Caller : \A x \in cl[p].named : \E t \in cl[p].tokens :
        t1.byToken[t] # NoName /\ Covers(t1, t1.byToken[t], x)
  <2> TAKE p \in Caller
  <2> TAKE x \in cl[p].named
  <2>1. PICK t \in cl[p].tokens : Covers(t0, t0.byToken[t], x)
    BY DEF Good, ClaimsOn
  <2>2. Covers(t1, t1.byToken[t], x)
    BY <1>2, <2>1 DEF Covers
  <2> QED
    BY <1>2, <2>2
<1> QED
  BY <1>2, <1>3 DEF Good, ClaimsOn

\* Removing locks nobody holds, as Unlock and the expiry do, leaves the pending
\* releases their nodes.
LEMMA RemoveGood ==
  ASSUME NEW t0, NEW cl, Good(t0, cl), NEW R \in SUBSET Name,
         \A r \in R : Locked(t0, r) /\ ~t0.byName[r].held
  PROVE  Good(Remove(t0, R), cl)
<1> DEFINE t1 == Remove(t0, R)
<1>1. Sound(t0) /\ t0 \in Table /\ TokensInverse(t0) /\ HeapExact(t0)
  BY DEF Good, Sound, IndexesAgree
<1>2. Sound(t1)
  BY <1>1, RemoveSound
<1>3. /\ \A n \in Name : Locked(t1, n) <=> Locked(t0, n) /\ n \notin R
      /\ \A n \in Name : Locked(t1, n) =>
            /\ t1.byName[n].token = t0.byName[n].token
            /\ t1.byName[n].zeroDepth = t0.byName[n].zeroDepth
            /\ t1.byName[n].held = t0.byName[n].held
      /\ \A n \in Name : ~Locked(t1, n) => ~t1.byName[n].held
      /\ \A t \in Token : t1.byToken[t] =
            IF t0.byToken[t] \in R THEN NoName ELSE t0.byToken[t]
  BY <1>1, RemoveEffect
<1> HIDE DEF t1
<1>4. ASSUME NEW t \in Token, t0.byToken[t] # NoName, t0.byName[t0.byToken[t]].held
      PROVE  /\ t1.byToken[t] = t0.byToken[t]
             /\ t1.byName[t1.byToken[t]].held
             /\ t1.byName[t1.byToken[t]].zeroDepth
                  = t0.byName[t0.byToken[t]].zeroDepth
  <2>1. t0.byToken[t] \in Name /\ t0.byToken[t] \notin R
    BY <1>1, <1>4 DEF Table
  <2>2. Locked(t0, t0.byToken[t])
    BY <1>1, <1>4, <2>1 DEF HeapExact
  <2> QED
    BY <1>3, <1>4, <2>1, <2>2
<1>5. \A n \in Name : t1.byName[n].held =>
        t0.byName[n].held /\ t1.byName[n].token = t0.byName[n].token
  BY <1>3
<1>6. Good(t1, cl)
  BY <1>2, <1>4, <1>5, KeepsClaims
<1> QED
  BY <1>6 DEF t1

\* A held lock is off the heap: the expiry never takes it.
LEMMA CollectGood ==
  ASSUME NEW t0, NEW cl, Good(t0, cl), NEW now \in Nat
  PROVE  Good(CollectExpiredNodes(t0, now), cl)
<1>1. /\ Expired(t0, now) \in SUBSET Name
      /\ \A r \in Expired(t0, now) : Locked(t0, r) /\ ~t0.byName[r].held
  BY ExpiredMeans DEF Good
<1> QED BY <1>1, RemoveGood DEF CollectExpiredNodes

\* The action of Create.
LEMMA InsertGood ==
  ASSUME NEW t0, NEW cl, Good(t0, cl), t0.gen < MaxGen,
         NEW now \in Nat, NEW name \in Name, NEW zeroDepth \in BOOLEAN,
         NEW duration \in Duration \cup {Infinite},
         CanCreate(t0, name, zeroDepth)
  PROVE  Good(Insert(t0, now, name, zeroDepth, duration), cl)
<1> DEFINE t1 == Insert(t0, now, name, zeroDepth, duration)
<1>1. Sound(t0) /\ t0 \in Table
  BY DEF Good, Sound
<1>2. /\ Sound(t1)
      /\ \A t \in Token : t0.byToken[t] # NoName =>
            /\ t1.byToken[t] = t0.byToken[t]
            /\ t0.byToken[t] # name
      /\ \A n \in Name : n # name =>
            /\ t1.byName[n].token = t0.byName[n].token
            /\ t1.byName[n].zeroDepth = t0.byName[n].zeroDepth
            /\ t1.byName[n].held = t0.byName[n].held
      /\ ~t1.byName[name].held
  BY <1>1, InsertSound
<1> HIDE DEF t1
<1>3. \A t \in Token : t0.byToken[t] \in Name \cup {NoName}
  BY <1>1 DEF Table
<1>4. Good(t1, cl)
  <2>1. \A t \in Token : (t0.byToken[t] # NoName /\ t0.byName[t0.byToken[t]].held) =>
          /\ t1.byToken[t] = t0.byToken[t]
          /\ t1.byName[t1.byToken[t]].held
          /\ t1.byName[t1.byToken[t]].zeroDepth = t0.byName[t0.byToken[t]].zeroDepth
    BY <1>2, <1>3
  <2>2. \A n \in Name : t1.byName[n].held =>
          t0.byName[n].held /\ t1.byName[n].token = t0.byName[n].token
    BY <1>2
  <2> QED
    BY <1>2, <2>1, <2>2, KeepsClaims
<1> QED
  BY <1>4 DEF t1

\* The action of Refresh.
LEMMA ExtendGood ==
  ASSUME NEW t0, NEW cl, Good(t0, cl), NEW now \in Nat, NEW name \in Name,
         NEW duration \in Duration \cup {Infinite},
         Locked(t0, name), ~t0.byName[name].held
  PROVE  Good(Extend(t0, now, name, duration), cl)
<1> DEFINE t1 == Extend(t0, now, name, duration)
<1>1. Sound(t0) /\ t0 \in Table
  BY DEF Good, Sound
<1>2. /\ Sound(t1)
      /\ t1.byToken = t0.byToken
      /\ \A n \in Name :
            /\ t1.byName[n].token = t0.byName[n].token
            /\ t1.byName[n].zeroDepth = t0.byName[n].zeroDepth
            /\ t1.byName[n].held = t0.byName[n].held
  BY <1>1, ExtendSound
<1> HIDE DEF t1
<1>3. \A t \in Token : t0.byToken[t] \in Name \cup {NoName}
  BY <1>1 DEF Table
<1>4. Good(t1, cl)
  <2>1. \A t \in Token : (t0.byToken[t] # NoName /\ t0.byName[t0.byToken[t]].held) =>
          /\ t1.byToken[t] = t0.byToken[t]
          /\ t1.byName[t1.byToken[t]].held
          /\ t1.byName[t1.byToken[t]].zeroDepth = t0.byName[t0.byToken[t]].zeroDepth
    BY <1>2, <1>3
  <2>2. \A n \in Name : t1.byName[n].held =>
          t0.byName[n].held /\ t1.byName[n].token = t0.byName[n].token
    BY <1>2
  <2> QED
    BY <1>2, <2>1, <2>2, KeepsClaims
<1> QED
  BY <1>4 DEF t1

\* The action of a Confirm that succeeds: the nodes were unheld, hence in no
\* other claim.
LEMMA HoldGood ==
  ASSUME NEW t0, NEW cl, Good(t0, cl), NEW p \in Caller, cl[p] = NoClaim,
         NEW x \in Name, NEW y \in Name, NEW n0 \in Name, NEW n1 \in Name,
         Locked(t0, n0), Locked(t0, n1),
         ~t0.byName[n0].held, ~t0.byName[n1].held,
         Covers(t0, n0, x), Covers(t0, n1, y)
  PROVE  Good(Hold(t0, {n0, n1}),
              [cl EXCEPT ![p] = [named  |-> {x, y},
                                 tokens |-> {t0.byName[n0].token,
                                             t0.byName[n1].token}]])
<1> DEFINE t1 == Hold(t0, {n0, n1})
           claim == [named |-> {x, y},
                     tokens |-> {t0.byName[n0].token, t0.byName[n1].token}]
           cl1 == [cl EXCEPT ![p] = claim]
<1>1. /\ Sound(t0) /\ t0 \in Table /\ TokensInverse(t0) /\ HeapExact(t0)
      /\ cl \in [Caller -> Claim] /\ ClaimsOn(t0, cl)
  BY DEF Good, Sound, IndexesAgree
<1>2. /\ Sound(t1)
      /\ t1.byToken = t0.byToken
      /\ \A n \in Name :
            /\ t1.byName[n].token = t0.byName[n].token
            /\ t1.byName[n].zeroDepth = t0.byName[n].zeroDepth
            /\ t1.byName[n].held <=> n \in {n0, n1} \/ t0.byName[n].held
  BY <1>1, HoldSound
<1>3. \A n \in {n0, n1} :
        /\ t0.byName[n].token \in Token
        /\ t0.byToken[t0.byName[n].token] = n
        /\ t0.byToken[t0.byName[n].token] # NoName
  BY <1>1, NameAssumption DEF Table, Node, Locked, TokensInverse
<1>4. cl1 \in [Caller -> Claim] /\ cl1[p] = claim /\ \A q \in Caller : q # p => cl1[q] = cl[q]
  BY <1>1, <1>3 DEF Claim
<1>5. \A q \in Caller : \A t \in cl[q].tokens :
        /\ t \in Token /\ t0.byToken[t] \in Name
        /\ t0.byName[t0.byToken[t]].held
        /\ t \notin claim.tokens
  BY <1>1, <1>3 DEF ClaimsOn, Claim, Table
<1> HIDE DEF t1, cl1
<1>6. ClaimsOn(t1, cl1)
  <2>1. ASSUME NEW q \in Caller, NEW t \in cl1[q].tokens
        PROVE  t1.byToken[t] # NoName /\ t1.byName[t1.byToken[t]].held
    <3>1. CASE q = p
      BY <1>2, <1>3, <1>4, <2>1, <3>1, NameAssumption
    <3>2. CASE q # p
      BY <1>2, <1>4, <1>5, <2>1, <3>2, NameAssumption
    <3> QED
      BY <3>1, <3>2
  <2>2. ASSUME NEW q \in Caller, NEW r \in Caller, q # r
        PROVE  cl1[q].tokens \cap cl1[r].tokens = {}
    <3>1. CASE q = p
      BY <1>4, <1>5, <2>2, <3>1
    <3>2. CASE r = p
      BY <1>4, <1>5, <2>2, <3>2
    <3>3. CASE q # p /\ r # p
      BY <1>1, <1>4, <2>2, <3>3 DEF ClaimsOn
    <3> QED
      BY <3>1, <3>2, <3>3
  <2>3. ASSUME NEW n \in Name, t1.byName[n].held
        PROVE  \E q \in Caller : t1.byName[n].token \in cl1[q].tokens
    <3>1. CASE n \in {n0, n1}
      BY <1>2, <1>4, <3>1
    <3>2. CASE n \notin {n0, n1}
      <4>1. PICK q \in Caller : t0.byName[n].token \in cl[q].tokens
        BY <1>1, <1>2, <2>3, <3>2 DEF ClaimsOn
      <4>2. q # p
        BY <4>1 DEF NoClaim
      <4> QED
        BY <1>2, <1>4, <4>1, <4>2
    <3> QED
      BY <3>1, <3>2
  <2>4. ASSUME NEW q \in Caller, NEW z \in cl1[q].named
        PROVE  \E t \in cl1[q].tokens :
                 t1.byToken[t] # NoName /\ Covers(t1, t1.byToken[t], z)
    <3>1. CASE q = p
      <4>1. PICK n \in {n0, n1} : Covers(t0, n, z)
        BY <1>4, <2>4, <3>1
      <4>2. Covers(t1, n, z)
        BY <1>2, <4>1 DEF Covers
      <4>3. t0.byName[n].token \in cl1[q].tokens
        BY <1>4, <3>1
      <4> QED
        BY <1>2, <1>3, <4>2, <4>3
    <3>2. CASE q # p
      <4>1. PICK t \in cl[q].tokens : Covers(t0, t0.byToken[t], z)
        BY <1>1, <1>4, <2>4, <3>2 DEF ClaimsOn
      <4>2. Covers(t1, t1.byToken[t], z)
        BY <1>2, <1>5, <4>1 DEF Covers
      <4> QED
        BY <1>2, <1>4, <1>5, <3>2, <4>1, <4>2, NameAssumption
    <3> QED
      BY <3>1, <3>2
  <2> QED
    BY <2>1, <2>2, <2>3, <2>4 DEF ClaimsOn
<1> QED
  BY <1>2, <1>4, <1>6 DEF Good, t1, cl1

\* The action of a release: its nodes are locked, and in no other claim.
LEMMA UnholdGood ==
  ASSUME NEW t0, NEW cl, Good(t0, cl), NEW p \in Caller
  PROVE  Good(Unhold(t0, {t0.byToken[t] : t \in cl[p].tokens}),
              [cl EXCEPT ![p] = NoClaim])
<1> DEFINE N == {t0.byToken[t] : t \in cl[p].tokens}
           t1 == Unhold(t0, N)
           cl1 == [cl EXCEPT ![p] = NoClaim]
<1>1. /\ Sound(t0) /\ t0 \in Table /\ TokensInverse(t0) /\ HeapExact(t0)
      /\ cl \in [Caller -> Claim] /\ ClaimsOn(t0, cl)
  BY DEF Good, Sound, IndexesAgree
<1>2. \A q \in Caller : \A t \in cl[q].tokens :
        /\ t \in Token /\ t0.byToken[t] \in Name
        /\ t0.byName[t0.byToken[t]].held
        /\ t0.byName[t0.byToken[t]].token = t
  BY <1>1 DEF ClaimsOn, Claim, Table, TokensInverse
<1>3. N \in SUBSET Name /\ \A n \in N : Locked(t0, n)
  BY <1>1, <1>2 DEF HeapExact
<1>4. /\ Sound(t1)
      /\ t1.byToken = t0.byToken
      /\ \A n \in Name :
            /\ t1.byName[n].token = t0.byName[n].token
            /\ t1.byName[n].zeroDepth = t0.byName[n].zeroDepth
            /\ t1.byName[n].held <=> n \notin N /\ t0.byName[n].held
  <2> HIDE DEF N
  <2> QED
    BY <1>1, <1>3, UnholdSound
<1>5. /\ cl1 \in [Caller -> Claim] /\ cl1[p] = NoClaim
      /\ \A q \in Caller : q # p => cl1[q] = cl[q]
  BY <1>1 DEF Claim, NoClaim
<1>6. \A q \in Caller : q # p => \A t \in cl[q].tokens : t0.byToken[t] \notin N
  BY <1>1, <1>2 DEF ClaimsOn
<1>7. \A n \in Name : (t0.byName[n].held /\ n \notin N) =>
        \E q \in Caller : q # p /\ t0.byName[n].token \in cl[q].tokens
  <2> SUFFICES ASSUME NEW n \in Name, t0.byName[n].held, n \notin N
               PROVE  \E q \in Caller : q # p /\ t0.byName[n].token \in cl[q].tokens
    OBVIOUS
  <2>1. PICK q \in Caller : t0.byName[n].token \in cl[q].tokens
    BY <1>1 DEF ClaimsOn
  <2>2. t0.byToken[t0.byName[n].token] = n
    BY <1>1, <1>2, <2>1 DEF TokensInverse
  <2> QED
    BY <2>1, <2>2
<1> HIDE DEF t1, cl1, N
<1>8. ClaimsOn(t1, cl1)
  <2>1. ASSUME NEW q \in Caller, NEW t \in cl1[q].tokens
        PROVE  t1.byToken[t] # NoName /\ t1.byName[t1.byToken[t]].held
    <3>1. q # p
      BY <1>5, <2>1 DEF NoClaim
    <3> QED
      BY <1>2, <1>4, <1>5, <1>6, <2>1, <3>1, NameAssumption
  <2>2. ASSUME NEW q \in Caller, NEW r \in Caller, q # r
        PROVE  cl1[q].tokens \cap cl1[r].tokens = {}
    BY <1>1, <1>5, <2>2 DEF ClaimsOn, NoClaim
  <2>3. ASSUME NEW n \in Name, t1.byName[n].held
        PROVE  \E q \in Caller : t1.byName[n].token \in cl1[q].tokens
    BY <1>4, <1>5, <1>7, <2>3
  <2>4. ASSUME NEW q \in Caller, NEW z \in cl1[q].named
        PROVE  \E t \in cl1[q].tokens :
                 t1.byToken[t] # NoName /\ Covers(t1, t1.byToken[t], z)
    <3>1. q # p
      BY <1>5, <2>4 DEF NoClaim
    <3>2. PICK t \in cl[q].tokens : Covers(t0, t0.byToken[t], z)
      BY <1>1, <1>5, <2>4, <3>1 DEF ClaimsOn
    <3>3. Covers(t1, t1.byToken[t], z)
      BY <1>2, <1>4, <3>2 DEF Covers
    <3> QED
      BY <1>2, <1>4, <1>5, <3>1, <3>2, <3>3, NameAssumption
  <2> QED
    BY <2>1, <2>2, <2>3, <2>4 DEF ClaimsOn
<1> QED
  BY <1>4, <1>5, <1>8 DEF Good, t1, cl1, N

-----------------------------------------------------------------------------
(* The invariant of the service.                                           *)

\* The service starts with an empty table, the root alone, and no claim.
LEMMA InitInv == Init => Inv
<1> SUFFICES ASSUME Init PROVE Inv
  OBVIOUS
<1>1. m = NewMemLS /\ claims = [p \in Caller |-> NoClaim] /\ clock = 0 /\ reply = "none"
  BY DEF Init
<1>2. Sound(m) /\ \A n \in Name : ~m.byName[n].held
  BY <1>1, NewSound
<1>3. ClaimsOn(m, claims) /\ claims \in [Caller -> Claim]
  BY <1>1, <1>2 DEF ClaimsOn, NoClaim, Claim
<1> QED
  BY <1>1, <1>2, <1>3, TimeAssumption, InvIsGood
     DEF Good, Replies

\* Create: the node is free for a lock, so the new token is exclusive.
LEMMA CreateInv ==
  ASSUME Inv, NEW now \in Readings, NEW name \in Name, NEW zeroDepth \in BOOLEAN,
         NEW duration \in Duration \cup {Infinite},
         Create(now, name, zeroDepth, duration)
  PROVE  Inv'
<1> DEFINE c == CollectExpiredNodes(m, now)
<1>1. now \in Nat
  BY DEF Readings
<1>2. Good(m, claims) /\ clock \in 0 .. MaxTime
  BY InvIsGood
<1>3. Good(c, claims) /\ c.gen = m.gen
  BY <1>1, <1>2, CollectGood DEF CollectExpiredNodes, Remove
<1>4. claims' = claims /\ clock' = clock /\ reply' \in Replies
  BY DEF Create, Replies
<1>5. Good(m', claims)
  <2>1. CASE CanCreate(c, name, zeroDepth)
    <3>1. m' = Insert(c, now, name, zeroDepth, duration) /\ c.gen < MaxGen
      BY <1>3, <2>1 DEF Create
    <3> HIDE DEF c
    <3> QED
      BY <1>1, <1>3, <2>1, <3>1, InsertGood
  <2>2. CASE ~CanCreate(c, name, zeroDepth)
    <3>1. m' = c
      BY <2>2 DEF Create
    <3> QED
      BY <1>3, <3>1
  <2> QED
    BY <2>1, <2>2
<1> QED
  BY <1>2, <1>4, <1>5, InvIsGoodNext

\* Refresh changes the expiry of one lock that nobody holds.
LEMMA RefreshInv ==
  ASSUME Inv, NEW now \in Readings, NEW token \in Token,
         NEW duration \in Duration \cup {Infinite},
         Refresh(now, token, duration)
  PROVE  Inv'
<1> DEFINE c == CollectExpiredNodes(m, now)
<1>1. now \in Nat
  BY DEF Readings
<1>2. Good(m, claims) /\ clock \in 0 .. MaxTime
  BY InvIsGood
<1>3. Good(c, claims) /\ Sound(c)
  BY <1>1, <1>2, CollectGood DEF Good
<1>4. claims' = claims /\ clock' = clock /\ reply' \in Replies
  BY DEF Refresh, Verdict, Replies
<1>5. m' = IF Verdict(c, token) = "ok"
           THEN Extend(c, now, c.byToken[token], duration) ELSE c
  BY DEF Refresh
<1> HIDE DEF c
<1>6. Good(m', claims)
  BY <1>1, <1>3, <1>5, VerdictOk, ExtendGood
<1> QED
  BY <1>2, <1>4, <1>6, InvIsGoodNext

\* Unlock removes a lock that nobody holds, so no claim loses its token.
LEMMA UnlockInv ==
  ASSUME Inv, NEW now \in Readings, NEW token \in Token, Unlock(now, token)
  PROVE  Inv'
<1> DEFINE c == CollectExpiredNodes(m, now)
<1>1. now \in Nat
  BY DEF Readings
<1>2. Good(m, claims) /\ clock \in 0 .. MaxTime
  BY InvIsGood
<1>3. Good(c, claims) /\ Sound(c)
  BY <1>1, <1>2, CollectGood DEF Good
<1>4. claims' = claims /\ clock' = clock /\ reply' \in Replies
  BY DEF Unlock, Verdict, Replies
<1>5. m' = IF Verdict(c, token) = "ok" THEN Remove(c, {c.byToken[token]}) ELSE c
  BY DEF Unlock, Unlocked
<1> HIDE DEF c
<1>6. Good(m', claims)
  <2>1. CASE Verdict(c, token) = "ok"
    <3>1. /\ {c.byToken[token]} \in SUBSET Name
          /\ \A r \in {c.byToken[token]} : Locked(c, r) /\ ~c.byName[r].held
      BY <1>3, <2>1, VerdictOk
    <3> QED
      BY <1>3, <1>5, <2>1, <3>1, RemoveGood
  <2> QED
    BY <1>3, <1>5, <2>1
<1> QED
  BY <1>2, <1>4, <1>6, InvIsGoodNext

\* Confirm holds the locks it answers with, and they were free before.
LEMMA ConfirmInv ==
  ASSUME Inv, NEW p \in Caller, NEW now \in Readings,
         NEW x \in Name, NEW y \in Name, NEW tokens, Confirm(p, now, x, y, tokens)
  PROVE  Inv'
<1> DEFINE c == CollectExpiredNodes(m, now)
           claim(n0, n1) == [named  |-> {x, y},
                             tokens |-> {c.byName[n0].token, c.byName[n1].token}]
<1>1. now \in Nat
  BY DEF Readings
<1>2. Good(m, claims) /\ clock \in 0 .. MaxTime
  BY InvIsGood
<1>3. Good(c, claims) /\ Sound(c)
  BY <1>1, <1>2, CollectGood DEF Good
<1>4. clock' = clock /\ reply' \in Replies /\ claims[p] = NoClaim
  BY DEF Confirm, Replies
<1>5. \/ \E n0 \in Lookup(c, x, tokens), n1 \in Lookup(c, y, tokens) :
            /\ m' = Hold(c, {n0, n1})
            /\ claims' = [claims EXCEPT ![p] = claim(n0, n1)]
      \/ m' = c /\ claims' = claims
  BY DEF Confirm
<1> HIDE DEF c
<1>6. Good(m', claims')
  <2>1. CASE m' = c /\ claims' = claims
    BY <1>3, <2>1
  <2>2. ASSUME NEW n0 \in Lookup(c, x, tokens), NEW n1 \in Lookup(c, y, tokens),
               m' = Hold(c, {n0, n1}),
               claims' = [claims EXCEPT ![p] = claim(n0, n1)]
        PROVE  Good(m', claims')
    <3>1. \A n \in {n0, n1} : n \in Name /\ Locked(c, n) /\ ~c.byName[n].held
      BY <1>3, LookupMeans
    <3>2. Covers(c, n0, x) /\ Covers(c, n1, y)
      BY <1>3, LookupMeans
    <3>3. Good(Hold(c, {n0, n1}), [claims EXCEPT ![p] = claim(n0, n1)])
      BY <1>3, <1>4, <3>1, <3>2, HoldGood
    <3> QED
      BY <2>2, <3>3
  <2> QED
    BY <1>5, <2>1, <2>2
<1> QED
  BY <1>2, <1>4, <1>6, InvIsGoodNext

\* The release closure finds its nodes and gives them back.
LEMMA ReleaseInv ==
  ASSUME Inv, NEW p \in Caller, Release(p)
  PROVE  Inv'
<1>1. Good(m, claims) /\ clock \in 0 .. MaxTime
  BY InvIsGood
<1>2. /\ m' = Unhold(m, {m.byToken[t] : t \in claims[p].tokens})
      /\ claims' = [claims EXCEPT ![p] = NoClaim]
      /\ clock' = clock /\ reply' \in Replies
  BY DEF Release, Replies
<1>3. Good(m', claims')
  BY <1>1, <1>2, UnholdGood
<1> QED
  BY <1>1, <1>2, <1>3, InvIsGoodNext

\* Every method of the lock system keeps the invariant.
LEMMA NextInv == Inv /\ [Next]_vars => Inv'
<1> SUFFICES ASSUME Inv, [Next]_vars PROVE Inv'
  OBVIOUS
<1>1. CASE UNCHANGED vars
  BY <1>1, InvIsGood, InvIsGoodNext DEF vars
<1>2. CASE Tick
  <2>1. m' = m /\ claims' = claims /\ reply' = reply /\ clock' \in 0 .. MaxTime
    BY <1>2, InvIsGood, TimeAssumption DEF Tick
  <2> QED
    BY <2>1, InvIsGood, InvIsGoodNext
<1>3. ASSUME NEW now \in Readings, NEW name \in Name, NEW zeroDepth \in BOOLEAN,
             NEW duration \in Duration \cup {Infinite},
             Create(now, name, zeroDepth, duration)
      PROVE  Inv'
  BY <1>3, CreateInv
<1>4. ASSUME NEW now \in Readings, NEW token \in Token,
             NEW duration \in Duration \cup {Infinite},
             Refresh(now, token, duration)
      PROVE  Inv'
  BY <1>4, RefreshInv
<1>5. ASSUME NEW now \in Readings, NEW token \in Token, Unlock(now, token)
      PROVE  Inv'
  BY <1>5, UnlockInv
<1>6. ASSUME NEW now \in Readings, NEW p \in Caller, NEW x \in Name, NEW y \in Name,
             NEW tokens \in SUBSET (1 .. m.gen), Confirm(p, now, x, y, tokens)
      PROVE  Inv'
  BY <1>6, ConfirmInv
<1>7. ASSUME NEW p \in Caller, Release(p)
      PROVE  Inv'
  BY <1>7, ReleaseInv
<1> QED
  BY <1>1, <1>2, <1>3, <1>4, <1>5, <1>6, <1>7 DEF Next

-----------------------------------------------------------------------------
(* The theorems.                                                           *)

\* After every call of the mutex, in every order and at every clock reading, the
\* table's indexes agree, no two locks conflict, and every pending release will
\* find the nodes it held.
THEOREM InvAlways == Spec => []Inv
<1>1. Init => Inv
  BY InitInv
<1>2. Inv /\ [Next]_vars => Inv'
  BY NextInv
<1> QED
  BY <1>1, <1>2, PTL DEF Spec

\* The table and the claims are always of their types.
THEOREM TypeCorrect == Spec => []TypeOK
BY InvAlways, PTL DEF Inv

\* Token index, reference counts and expiry heap agree with the locks, and only
\* nodes with a pending release are held.
THEOREM IndexesConsistent == Spec => []IndexOK
BY InvAlways, PTL DEF Inv

\* What canCreate decides, over reference counts on the way to the root, keeps
\* every two locks of the table from covering the root of one another.
THEOREM LocksExclusive == Spec => []Exclusive
BY InvAlways, PTL DEF Inv

\* A release finds the nodes it held, still held and by nobody else: the panic
\* "inconsistent held state" of unhold is unreachable.
THEOREM ReleaseSafe == Spec => []ReleaseFindsItsNodes
BY InvAlways, PTL DEF Inv

\* While a claim is pending, a lock it holds covers every resource its caller named,
\* whatever the other callers did and however late their clock readings came.
THEOREM ClaimsAlwaysCovered == Spec => []ClaimsCovered
BY InvAlways, PTL DEF Inv

\* Confirm gives exclusive access: two unheld locks that cover one resource
\* cannot exist side by side, so a resource named by one pending claim is named
\* by no other.
LEMMA InvDisjoint == Inv => ClaimsDisjoint
<1> SUFFICES ASSUME Inv, NEW p \in Caller, NEW q \in Caller, p # q,
                    NEW x \in claims[p].named, x \in claims[q].named
             PROVE  FALSE
  BY DEF ClaimsDisjoint
<1>1. Sound(m) /\ claims \in [Caller -> Claim] /\ ClaimsOn(m, claims)
  BY InvIsGood DEF Good
<1>2. PICK t \in claims[p].tokens : m.byToken[t] # NoName /\ Covers(m, m.byToken[t], x)
  BY <1>1 DEF ClaimsOn
<1>3. PICK u \in claims[q].tokens : m.byToken[u] # NoName /\ Covers(m, m.byToken[u], x)
  BY <1>1 DEF ClaimsOn
<1>4. t # u /\ t \in Token /\ u \in Token /\ x \in Name
  BY <1>1 DEF ClaimsOn, Claim
<1> DEFINE n == m.byToken[t]
           k == m.byToken[u]
<1>5. /\ n \in Name /\ m.byName[n].token = t
      /\ k \in Name /\ m.byName[k].token = u
  BY <1>1, <1>2, <1>3, <1>4 DEF Sound, Table, IndexesAgree, TokensInverse
<1>6. n # k /\ Locked(m, n) /\ Locked(m, k)
  BY <1>4, <1>5, BoundAssumption DEF Locked, Token, NoToken
<1>7. Covers(m, n, x) /\ Covers(m, k, x)
  BY <1>2, <1>3
<1> HIDE DEF n, k
<1> QED BY <1>1, <1>4, <1>5, <1>6, <1>7, CoverUnique

\* Two callers between Confirm and release never share a lock.
THEOREM ClaimsExclusive == Spec => []ClaimsDisjoint
BY InvAlways, InvDisjoint, PTL

-----------------------------------------------------------------------------
(* The table implements the interface.                                     *)

\* The locks that a table shows.
LocksOf(m0) ==
  [t \in Live(m0) |->
     [root      |-> m0.byToken[t],
      zeroDepth |-> m0.byName[m0.byToken[t]].zeroDepth,
      deadline  |-> IF m0.byName[m0.byToken[t]].duration = Infinite THEN Infinite
                    ELSE m0.byName[m0.byToken[t]].expiry]]

\* The locks that are claimed are those of the nodes that are held.
LEMMA ClaimedMeans ==
  ASSUME NEW t0, NEW cl, Good(t0, cl)
  PROVE  \A t \in Live(t0) :
           t0.byName[t0.byToken[t]].held <=> t \in UNION {cl[p].tokens : p \in Caller}
<1> SUFFICES ASSUME NEW t \in Live(t0)
             PROVE  t0.byName[t0.byToken[t]].held <=> \E p \in Caller : t \in cl[p].tokens
  OBVIOUS
<1>1. t0.byToken[t] \in Name /\ t0.byName[t0.byToken[t]].token = t
  BY LiveMeans DEF Good
<1> QED BY <1>1 DEF Good, ClaimsOn

\* Two tables with the same tokens, depths and deadlines show the same locks.
LEMMA SameLocks ==
  ASSUME NEW t0, NEW t1, Sound(t0), t1.byToken = t0.byToken,
         \A n \in Name : /\ t1.byName[n].zeroDepth = t0.byName[n].zeroDepth
                         /\ t1.byName[n].duration = t0.byName[n].duration
                         /\ t1.byName[n].expiry = t0.byName[n].expiry
  PROVE  LocksOf(t1) = LocksOf(t0)
<1>1. Live(t1) = Live(t0)
  BY DEF Live
<1>2. \A t \in Live(t0) : LocksOf(t1)[t] = LocksOf(t0)[t]
  BY <1>1, LiveMeans DEF LocksOf
<1> QED BY <1>1, <1>2 DEF LocksOf

\* What is left after a removal.
LEMMA RemoveShows ==
  ASSUME NEW t0, Sound(t0), NEW R \in SUBSET Name,
         \A r \in R : Locked(t0, r) /\ ~t0.byName[r].held
  PROVE  LocksOf(Remove(t0, R)) =
           [t \in {u \in Live(t0) : t0.byToken[u] \notin R} |-> LocksOf(t0)[t]]
<1> DEFINE t1 == Remove(t0, R)
<1>1. /\ t1 \in Table
      /\ \A n \in Name : Locked(t1, n) <=> Locked(t0, n) /\ n \notin R
      /\ \A n \in Name : Locked(t1, n) =>
            /\ t1.byName[n].zeroDepth = t0.byName[n].zeroDepth
            /\ t1.byName[n].duration = t0.byName[n].duration
            /\ t1.byName[n].expiry = t0.byName[n].expiry
      /\ \A t \in Token : t1.byToken[t] =
            IF t0.byToken[t] \in R THEN NoName ELSE t0.byToken[t]
  BY RemoveEffect
<1> HIDE DEF t1
<1>2. Live(t1) = {u \in Live(t0) : t0.byToken[u] \notin R}
  BY <1>1, NameAssumption DEF Live
<1>3. ASSUME NEW t \in Live(t1) PROVE LocksOf(t1)[t] = LocksOf(t0)[t]
  <2>1. t \in Live(t0) /\ t0.byToken[t] \notin R /\ t1.byToken[t] = t0.byToken[t]
    BY <1>1, <1>2 DEF Live
  <2>2. t0.byToken[t] \in Name /\ Locked(t0, t0.byToken[t])
    BY <2>1, LiveMeans
  <2> QED BY <1>1, <2>1, <2>2 DEF LocksOf
<1>4. LocksOf(t1) = [t \in Live(t1) |-> LocksOf(t1)[t]]
  BY DEF LocksOf
<1> QED BY <1>2, <1>3, <1>4 DEF t1

\* The locks the refinement takes for granted are those of the table, before a step and
\* after it.
LEMMA GrantedIs == Granted = LocksOf(m) /\ Granted' = LocksOf(m')
BY DEF Granted, LocksOf, DeadlineOf

\* What a call forgets is what the interface lets it forget.
LEMMA CollectIsAlive ==
  ASSUME Inv, NEW now \in Nat
  PROVE  LocksOf(CollectExpiredNodes(m, now)) = Interface!Alive(now)
<1>1. Good(m, claims) /\ Sound(m) /\ HeapExact(m)
  BY InvIsGood DEF Good, Sound, IndexesAgree
<1>2. /\ Expired(m, now) \in SUBSET Name
      /\ \A r \in Expired(m, now) : Locked(m, r) /\ ~m.byName[r].held
  BY <1>1, ExpiredMeans
<1>3. LocksOf(CollectExpiredNodes(m, now)) =
        [t \in {u \in Live(m) : m.byToken[u] \notin Expired(m, now)} |-> LocksOf(m)[t]]
  BY <1>1, <1>2, RemoveShows DEF CollectExpiredNodes
<1>4. ASSUME NEW u \in Live(m)
      PROVE  m.byToken[u] \notin Expired(m, now) <=>
               \/ u \in Interface!Claimed
               \/ LocksOf(m)[u].deadline = Interface!Infinite
               \/ LocksOf(m)[u].deadline > now
  <2> DEFINE n == m.byToken[u]
  <2>1. n \in Name /\ m.byName[n] \in Node /\ Locked(m, n)
    BY <1>1, LiveMeans
  <2>2. m.byName[n].held <=> u \in Interface!Claimed
    BY <1>1, ClaimedMeans DEF Interface!Claimed
  <2>3. m.byName[n].expiry \in Nat
    BY <2>1 DEF Node
  <2>4. LocksOf(m)[u].deadline = IF m.byName[n].duration = Infinite THEN Infinite
                                 ELSE m.byName[n].expiry
    BY DEF LocksOf
  <2>5. n \in Expired(m, now) <=> /\ m.byName[n].duration # Infinite /\ ~m.byName[n].held
                                  /\ m.byName[n].expiry <= now
    BY <1>1, <2>1 DEF HeapExact, Expired
  <2> HIDE DEF n
  <2>6. \/ LocksOf(m)[u].deadline = Interface!Infinite
        \/ LocksOf(m)[u].deadline > now
        <=> ~(m.byName[n].duration # Infinite /\ m.byName[n].expiry <= now)
    BY <2>3, <2>4 DEF Infinite, Interface!Infinite
  <2> QED BY <2>2, <2>5, <2>6 DEF n
<1>5. DOMAIN LocksOf(m) = Live(m)
  BY DEF LocksOf
<1> QED BY <1>3, <1>4, <1>5, GrantedIs DEF Interface!Alive

\* When canCreate refuses, it does so because of a lock that the new one would conflict
\* with, wherever on the way to the root or below it met the sign of it.
LEMMA RefusedMeans ==
  ASSUME NEW t0, Sound(t0), NEW name \in Name, NEW zeroDepth \in BOOLEAN,
         ~CanCreate(t0, name, zeroDepth)
  PROVE  \E k \in Name : Locked(t0, k) /\
           (Covers(t0, k, name) \/ (~zeroDepth /\ name \in WalkToRoot[k]))
<1>1. PICK x \in WalkToRoot[name] :
        /\ Present(t0, x)
        /\ ~(IF x = name THEN ~Locked(t0, x) /\ zeroDepth
                         ELSE Locked(t0, x) => t0.byName[x].zeroDepth)
  BY DEF CanCreate
<1>2. x \in Name
  BY NameAssumption
<1>3. CASE x # name
  BY <1>1, <1>2, <1>3 DEF Covers
<1>4. CASE x = name /\ Locked(t0, x)
  BY <1>2, <1>4 DEF Covers
<1>5. CASE x = name /\ ~Locked(t0, x)
  <2>1. t0.byName[name].refCount = Cardinality(LockedBelow(t0, name))
    BY DEF Sound, IndexesAgree, RefCountsExact
  <2>2. LockedBelow(t0, name) # {}
    BY <1>1, <1>5, <2>1, FS_EmptySet DEF Present
  <2>3. PICK k \in Name : Locked(t0, k) /\ name \in WalkToRoot[k]
    BY <2>2 DEF LockedBelow
  <2> QED BY <1>1, <1>5, <2>3
<1> QED BY <1>3, <1>4, <1>5

\* canCreate, over the counts on the way to the root, is the test of all pairs.
LEMMA CanCreateIsFree ==
  ASSUME NEW t0, Sound(t0), NEW name \in Name, NEW zeroDepth \in BOOLEAN, NEW deadline
  PROVE  LET lock == [root |-> name, zeroDepth |-> zeroDepth, deadline |-> deadline]
         IN  CanCreate(t0, name, zeroDepth) <=>
               \A t \in DOMAIN LocksOf(t0) : ~Interface!Conflict(lock, LocksOf(t0)[t])
<1> DEFINE lock == [root |-> name, zeroDepth |-> zeroDepth, deadline |-> deadline]
           clash(k) == Covers(t0, k, name) \/ k = name \/ (~zeroDepth /\ name \in WalkToRoot[k])
<1>1. ASSUME NEW t \in Live(t0)
      PROVE  Interface!Conflict(lock, LocksOf(t0)[t]) <=> clash(t0.byToken[t])
  BY LiveMeans DEF LocksOf, Interface!Conflict, Interface!CoveredBy, Covers
<1>2. DOMAIN LocksOf(t0) = Live(t0)
  BY DEF LocksOf
<1>3. ASSUME CanCreate(t0, name, zeroDepth), NEW t \in Live(t0) PROVE ~clash(t0.byToken[t])
  <2>1. t0.byToken[t] \in Name /\ Locked(t0, t0.byToken[t])
    BY LiveMeans
  <2> QED BY <1>3, <2>1, CanCreateMeans
<1>4. ASSUME ~CanCreate(t0, name, zeroDepth) PROVE \E t \in Live(t0) : clash(t0.byToken[t])
  <2>1. PICK k \in Name : Locked(t0, k) /\ clash(k)
    BY <1>4, RefusedMeans
  <2>2. t0.byName[k].token \in Token /\ t0.byToken[t0.byName[k].token] = k
    BY <2>1 DEF Sound, Table, Node, Locked, IndexesAgree, TokensInverse
  <2>3. t0.byName[k].token \in Live(t0)
    BY <2>2, NameAssumption DEF Live
  <2> QED BY <2>1, <2>2, <2>3
<1> HIDE DEF lock, clash
<1>5. CanCreate(t0, name, zeroDepth) <=>
        \A t \in DOMAIN LocksOf(t0) : ~Interface!Conflict(lock, LocksOf(t0)[t])
  BY <1>1, <1>2, <1>3, <1>4
<1> QED BY <1>5 DEF lock

\* The locks after a Create that was granted.
WithLock(locks, token, root, zeroDepth, deadline) ==
  [t \in DOMAIN locks \cup {token} |->
     IF t = token THEN [root |-> root, zeroDepth |-> zeroDepth, deadline |-> deadline]
     ELSE locks[t]]

\* A new lock shows as such, the others as before.
LEMMA InsertShows ==
  ASSUME NEW t0, Sound(t0), t0.gen < MaxGen,
         NEW now \in Nat, NEW name \in Name, NEW zeroDepth \in BOOLEAN,
         NEW duration \in Duration \cup {Infinite},
         CanCreate(t0, name, zeroDepth)
  PROVE  LocksOf(Insert(t0, now, name, zeroDepth, duration)) =
           WithLock(LocksOf(t0), t0.gen + 1, name, zeroDepth,
                    Interface!Deadline(now, duration))
<1> DEFINE t1 == Insert(t0, now, name, zeroDepth, duration)
           tok == t0.gen + 1
           lock == [root |-> name, zeroDepth |-> zeroDepth,
                    deadline |-> Interface!Deadline(now, duration)]
<1>1. /\ Sound(t1) /\ t0.byToken[t1.gen] = NoName
      /\ \A t \in Token : t0.byToken[t] # NoName =>
            /\ t1.byToken[t] = t0.byToken[t]
            /\ t0.byToken[t] # name
      /\ \A n \in Name : n # name =>
            /\ t1.byName[n].zeroDepth = t0.byName[n].zeroDepth
            /\ t1.byName[n].duration = t0.byName[n].duration
            /\ t1.byName[n].expiry = t0.byName[n].expiry
  BY InsertSound
<1>2. /\ t1.gen = tok /\ t1.byToken = [t0.byToken EXCEPT ![tok] = name]
      /\ t1.byName[name].zeroDepth = zeroDepth /\ t1.byName[name].duration = duration
      /\ t1.byName[name].expiry = IF duration # Infinite THEN now + duration ELSE 0
  BY DEF Insert
<1>3. tok \in Token /\ t0.byToken \in [Token -> Name \cup {NoName}]
  BY BoundAssumption DEF Sound, Table, Token
<1> HIDE DEF t1
<1>4. /\ t1.byToken[tok] = name
      /\ \A t \in Token : t # tok => t1.byToken[t] = t0.byToken[t]
  BY <1>2, <1>3
<1>5. Live(t1) = Live(t0) \cup {tok} /\ tok \notin Live(t0)
  BY <1>1, <1>2, <1>3, <1>4, NameAssumption DEF Live
<1>6. LocksOf(t1)[tok] = lock
  BY <1>2, <1>4, <1>5 DEF LocksOf, Interface!Deadline, Interface!Infinite, Infinite
<1>7. ASSUME NEW t \in Live(t0) PROVE LocksOf(t1)[t] = LocksOf(t0)[t]
  <2>1. t \in Token /\ t0.byToken[t] \in Name /\ t0.byToken[t] # NoName
    BY LiveMeans DEF Live
  <2> QED BY <1>1, <1>5, <2>1 DEF LocksOf
<1>8. LocksOf(t1) = [t \in Live(t1) |-> LocksOf(t1)[t]]
  BY DEF LocksOf
<1> HIDE DEF lock, tok
<1>9. LocksOf(t1) = [t \in Live(t0) \cup {tok} |-> IF t = tok THEN lock ELSE LocksOf(t0)[t]]
  BY <1>5, <1>6, <1>7, <1>8
<1>10. DOMAIN LocksOf(t0) = Live(t0)
  BY DEF LocksOf
<1> QED BY <1>9, <1>10 DEF t1, lock, tok, WithLock

\* A refreshed lock shows its new deadline.
LEMMA ExtendShows ==
  ASSUME NEW t0, Sound(t0), NEW now \in Nat, NEW token \in Live(t0),
         NEW duration \in Duration \cup {Infinite}
  PROVE  LocksOf(Extend(t0, now, t0.byToken[token], duration)) =
           [LocksOf(t0) EXCEPT ![token].deadline = Interface!Deadline(now, duration)]
<1> DEFINE n == t0.byToken[token]
           t1 == Extend(t0, now, n, duration)
<1>1. n \in Name /\ Locked(t0, n)
  BY LiveMeans
<1> HIDE DEF n
<1>2. t1.byToken = t0.byToken
  BY DEF Extend
<1>3. t0.byName[n] \in Node /\ t0.byName \in [Name -> Node]
  BY <1>1 DEF Sound, Table
<1>4. /\ \A k \in Name : /\ t1.byName[k].zeroDepth = t0.byName[k].zeroDepth
                         /\ k # n => t1.byName[k] = t0.byName[k]
      /\ t1.byName[n].duration = duration
      /\ t1.byName[n].expiry = IF duration # Infinite THEN now + duration ELSE 0
  BY <1>1, <1>3 DEF Extend, Node
<1> HIDE DEF t1
<1>5. Live(t1) = Live(t0)
  BY <1>2 DEF Live
<1>6. ASSUME NEW t \in Live(t0), t # token PROVE LocksOf(t1)[t] = LocksOf(t0)[t]
  <2>1. t0.byToken[t] \in Name /\ t0.byToken[t] # n
    BY <1>6, LiveMeans DEF n
  <2> QED BY <1>2, <1>4, <1>5, <2>1 DEF LocksOf
<1>7. LocksOf(t1)[token] = [LocksOf(t0)[token] EXCEPT !.deadline = Interface!Deadline(now, duration)]
  BY <1>1, <1>2, <1>4, <1>5 DEF n, LocksOf, Interface!Deadline, Interface!Infinite, Infinite
<1>8. /\ LocksOf(t1) = [t \in Live(t0) |-> LocksOf(t1)[t]]
      /\ LocksOf(t0) = [t \in Live(t0) |-> LocksOf(t0)[t]]
  BY <1>5 DEF LocksOf
<1>9. LocksOf(t1) = [LocksOf(t0) EXCEPT ![token].deadline = Interface!Deadline(now, duration)]
  BY <1>6, <1>7, <1>8
<1> QED BY <1>9 DEF t1, n

\* The two verdicts on a token agree.
LEMMA VerdictAgrees ==
  ASSUME NEW t0, Good(t0, claims), NEW token \in Token
  PROVE  Interface!Verdict(LocksOf(t0), token) = Verdict(t0, token)
<1>1. DOMAIN LocksOf(t0) = Live(t0)
  BY DEF LocksOf
<1>2. token \in Live(t0) <=> t0.byToken[token] # NoName
  BY DEF Live
<1>3. token \in Live(t0) =>
        (t0.byName[t0.byToken[token]].held <=> token \in Interface!Claimed)
  BY ClaimedMeans DEF Interface!Claimed
<1> QED BY <1>1, <1>2, <1>3 DEF Verdict, Interface!Verdict

\* What lookup may find for a resource is what the interface may claim for it.
LEMMA UsableIsLookup ==
  ASSUME NEW t0, Good(t0, claims), NEW x \in Name, NEW tokens
  PROVE  /\ \A n \in Lookup(t0, x, tokens) :
              t0.byName[n].token \in Interface!Usable(LocksOf(t0), x, tokens)
         /\ Interface!Usable(LocksOf(t0), x, tokens) # {} => Lookup(t0, x, tokens) # {}
<1>1. DOMAIN LocksOf(t0) = Live(t0) /\ Sound(t0)
  BY DEF LocksOf, Good
<1>2. ASSUME NEW t \in Live(t0)
      PROVE  Interface!CoveredBy(LocksOf(t0)[t], x) <=> Covers(t0, t0.byToken[t], x)
  BY DEF LocksOf, Interface!CoveredBy, Covers
<1>3. \A t \in Live(t0) :
        t0.byName[t0.byToken[t]].held <=> t \in Interface!Claimed
  BY ClaimedMeans DEF Interface!Claimed
<1>4. ASSUME NEW n \in Lookup(t0, x, tokens)
      PROVE  t0.byName[n].token \in Interface!Usable(LocksOf(t0), x, tokens)
  <2>1. /\ n \in Name /\ ~t0.byName[n].held /\ Covers(t0, n, x)
        /\ t0.byName[n].token \in tokens \cap Token
        /\ t0.byToken[t0.byName[n].token] = n
    BY <1>1, LookupMeans
  <2>2. t0.byName[n].token \in Live(t0)
    BY <2>1, NameAssumption DEF Live
  <2> QED BY <1>1, <1>2, <1>3, <2>1, <2>2 DEF Interface!Usable
<1>5. ASSUME NEW t \in Interface!Usable(LocksOf(t0), x, tokens)
      PROVE  t0.byToken[t] \in Lookup(t0, x, tokens)
  <2>1. /\ t \in tokens /\ t \in Live(t0) /\ t \notin Interface!Claimed
        /\ Interface!CoveredBy(LocksOf(t0)[t], x)
    BY <1>1 DEF Interface!Usable
  <2>2. t \in Token /\ t0.byToken[t] \in Name
    BY <1>1, <2>1, LiveMeans
  <2> QED BY <1>2, <1>3, <2>1, <2>2 DEF Lookup
<1> QED BY <1>4, <1>5

\* An empty table shows no lock.
LEMMA InitImplements == Init => Interface!Init
<1> SUFFICES ASSUME Init PROVE Interface!Init
  OBVIOUS
<1>1. Live(m) = {}
  BY DEF Init, NewMemLS, Live
<1>2. Granted = << >>
  BY <1>1 DEF Granted
<1> QED BY <1>2 DEF Init, Interface!Init, NewMemLS, NoClaim, Interface!NoClaim

\* What a call finds once it has forgotten the expired locks.
LEMMA AfterCollect ==
  ASSUME Inv, NEW now \in Readings
  PROVE  LET c == CollectExpiredNodes(m, now)
         IN  /\ now \in Nat /\ now \in 0 .. clock
             /\ Good(c, claims) /\ Sound(c)
             /\ c.gen = m.gen
             /\ LocksOf(c) = Interface!Alive(now)
             /\ DOMAIN LocksOf(c) = Live(c)
<1>1. now \in Nat /\ now \in 0 .. clock /\ Good(m, claims)
  BY InvIsGood DEF Readings
<1>2. Good(CollectExpiredNodes(m, now), claims)
  BY <1>1, CollectGood
<1>3. Sound(CollectExpiredNodes(m, now))
  BY <1>2 DEF Good
<1>4. LocksOf(CollectExpiredNodes(m, now)) = Interface!Alive(now)
  BY <1>1, CollectIsAlive
<1> QED BY <1>1, <1>2, <1>3, <1>4 DEF CollectExpiredNodes, Remove, LocksOf

\* Create of the table is Create of the interface.
LEMMA CreateImplements ==
  ASSUME Inv, NEW now \in Readings, NEW name \in Name, NEW zeroDepth \in BOOLEAN,
         NEW duration \in Duration \cup {Infinite},
         Create(now, name, zeroDepth, duration)
  PROVE  Interface!Create(Interface!Alive(now), now, name, zeroDepth, duration)
<1> DEFINE c == CollectExpiredNodes(m, now)
           lock == [root |-> name, zeroDepth |-> zeroDepth,
                    deadline |-> Interface!Deadline(now, duration)]
           free == \A t \in DOMAIN LocksOf(c) : ~Interface!Conflict(lock, LocksOf(c)[t])
<1>1. /\ now \in Nat /\ Sound(c) /\ c.gen = m.gen
      /\ LocksOf(c) = Interface!Alive(now) /\ DOMAIN LocksOf(c) = Live(c)
  BY AfterCollect
<1>2. claims' = claims /\ clock' = clock
  BY DEF Create
<1>3. IF CanCreate(c, name, zeroDepth)
      THEN m.gen < MaxGen /\ m' = Insert(c, now, name, zeroDepth, duration) /\ reply' = "ok"
      ELSE m' = c /\ reply' = "locked"
  BY DEF Create
<1> HIDE DEF c
<1>4. CanCreate(c, name, zeroDepth) <=> free
  BY <1>1, CanCreateIsFree
<1>5. CASE CanCreate(c, name, zeroDepth)
  <2>1. m.gen < MaxGen /\ m' = Insert(c, now, name, zeroDepth, duration) /\ reply' = "ok"
    BY <1>3, <1>5
  <2>2. m'.gen = m.gen + 1
    BY <1>1, <2>1 DEF Insert
  <2>3. Granted' = WithLock(LocksOf(c), c.gen + 1, name, zeroDepth,
                            Interface!Deadline(now, duration))
    BY <1>1, <1>5, <2>1, InsertShows, GrantedIs
  <2>4. Granted' = [t \in DOMAIN LocksOf(c) \cup {m.gen + 1} |->
                      IF t = m.gen + 1 THEN lock ELSE LocksOf(c)[t]]
    BY <1>1, <2>3 DEF WithLock
  <2> QED BY <1>1, <1>2, <1>4, <1>5, <2>1, <2>2, <2>4 DEF Interface!Create
<1>6. CASE ~CanCreate(c, name, zeroDepth)
  <2>1. m' = c /\ reply' = "locked"
    BY <1>3, <1>6
  <2>2. Granted' = Interface!Alive(now) /\ m'.gen = m.gen
    BY <1>1, <2>1, GrantedIs
  <2> QED BY <1>1, <1>2, <1>4, <1>6, <2>1, <2>2 DEF Interface!Create
<1> QED BY <1>5, <1>6

\* Refresh of the table is Refresh of the interface.
LEMMA RefreshImplements ==
  ASSUME Inv, NEW now \in Readings, NEW token \in Token,
         NEW duration \in Duration \cup {Infinite}, Refresh(now, token, duration)
  PROVE  Interface!Refresh(Interface!Alive(now), now, token, duration)
<1> DEFINE c == CollectExpiredNodes(m, now)
<1>1. /\ now \in Nat /\ Good(c, claims) /\ Sound(c) /\ c.gen = m.gen
      /\ LocksOf(c) = Interface!Alive(now)
  BY AfterCollect
<1>2. claims' = claims /\ clock' = clock
  BY DEF Refresh
<1>3. /\ reply' = Verdict(c, token)
      /\ m' = IF Verdict(c, token) = "ok"
              THEN Extend(c, now, c.byToken[token], duration) ELSE c
  BY DEF Refresh
<1> HIDE DEF c
<1>4. Interface!Verdict(LocksOf(c), token) = Verdict(c, token)
  BY <1>1, VerdictAgrees
<1>5. CASE Verdict(c, token) = "ok"
  <2>1. m' = Extend(c, now, c.byToken[token], duration)
    BY <1>3, <1>5
  <2>2. m'.gen = m.gen
    BY <1>1, <2>1 DEF Extend
  <2>3. token \in Live(c)
    BY <1>5 DEF Verdict, Live
  <2>4. Granted' = [LocksOf(c) EXCEPT ![token].deadline = Interface!Deadline(now, duration)]
    BY <1>1, <2>1, <2>3, ExtendShows, GrantedIs
  <2> QED BY <1>1, <1>2, <1>3, <1>4, <1>5, <2>2, <2>4 DEF Interface!Refresh
<1>6. CASE Verdict(c, token) # "ok"
  <2>1. Granted' = LocksOf(c) /\ m'.gen = m.gen
    BY <1>1, <1>3, <1>6, GrantedIs
  <2> QED BY <1>1, <1>2, <1>3, <1>4, <1>6, <2>1 DEF Interface!Refresh
<1> QED BY <1>5, <1>6

\* Unlock of the table is Unlock of the interface.
LEMMA UnlockImplements ==
  ASSUME Inv, NEW now \in Readings, NEW token \in Token, Unlock(now, token)
  PROVE  Interface!Unlock(Interface!Alive(now), token)
<1> DEFINE c == CollectExpiredNodes(m, now)
           n == c.byToken[token]
<1>1. /\ now \in Nat /\ Good(c, claims) /\ Sound(c) /\ c.gen = m.gen
      /\ LocksOf(c) = Interface!Alive(now) /\ DOMAIN LocksOf(c) = Live(c)
  BY AfterCollect
<1>2. claims' = claims /\ clock' = clock
  BY DEF Unlock
<1>3. /\ reply' = Verdict(c, token)
      /\ m' = IF Verdict(c, token) = "ok" THEN Remove(c, {n}) ELSE c
  BY DEF Unlock, Unlocked
<1> HIDE DEF c
<1>4. Interface!Verdict(LocksOf(c), token) = Verdict(c, token)
  BY <1>1, VerdictAgrees
<1>5. CASE Verdict(c, token) = "ok"
  <2>1. m' = Remove(c, {n})
    BY <1>3, <1>5
  <2>2. m'.gen = m.gen
    BY <1>1, <2>1 DEF Remove
  <2>3. n \in Name /\ c.byName[n].token = token /\ Locked(c, n) /\ ~c.byName[n].held
    BY <1>1, <1>5, VerdictOk
  <2>4. \A u \in Live(c) : c.byToken[u] \notin {n} <=> u # token
    <3> SUFFICES ASSUME NEW u \in Live(c) PROVE c.byToken[u] = n <=> u = token
      OBVIOUS
    <3>1. c.byName[c.byToken[u]].token = u
      BY <1>1, LiveMeans
    <3> QED BY <2>3, <3>1
  <2>5. LocksOf(Remove(c, {n})) = [t \in {u \in Live(c) : c.byToken[u] \notin {n}} |-> LocksOf(c)[t]]
    <3> HIDE DEF n
    <3>1. {n} \in SUBSET Name /\ \A r \in {n} : Locked(c, r) /\ ~c.byName[r].held
      BY <2>3
    <3> QED BY <1>1, <3>1, RemoveShows
  <2>6. {u \in Live(c) : c.byToken[u] \notin {n}} = Live(c) \ {token}
    BY <2>4
  <2> HIDE DEF n
  <2>7. Granted' = [t \in DOMAIN LocksOf(c) \ {token} |-> LocksOf(c)[t]]
    BY <1>1, <2>1, <2>5, <2>6, GrantedIs
  <2> QED BY <1>1, <1>2, <1>3, <1>4, <1>5, <2>2, <2>7 DEF Interface!Unlock
<1>6. CASE Verdict(c, token) # "ok"
  <2>1. Granted' = LocksOf(c) /\ m'.gen = m.gen
    BY <1>1, <1>3, <1>6, GrantedIs
  <2> QED BY <1>1, <1>2, <1>3, <1>4, <1>6, <2>1 DEF Interface!Unlock
<1> QED BY <1>5, <1>6

\* Confirm of the table is Confirm of the interface.
LEMMA ConfirmImplements ==
  ASSUME Inv, NEW p \in Caller, NEW now \in Readings,
         NEW x \in Name, NEW y \in Name, NEW tokens, Confirm(p, now, x, y, tokens)
  PROVE  Interface!Confirm(p, Interface!Alive(now), x, y, tokens)
<1> DEFINE c == CollectExpiredNodes(m, now)
<1>1. /\ now \in Nat /\ Good(c, claims) /\ Sound(c) /\ c.gen = m.gen
      /\ LocksOf(c) = Interface!Alive(now)
  BY AfterCollect
<1>2. clock' = clock /\ claims[p] = NoClaim
  BY DEF Confirm
<1>3. \/ \E n0 \in Lookup(c, x, tokens), n1 \in Lookup(c, y, tokens) :
           /\ m' = Hold(c, {n0, n1})
           /\ claims' = [claims EXCEPT ![p] =
                           [named  |-> {x, y},
                            tokens |-> {c.byName[n0].token, c.byName[n1].token}]]
           /\ reply' = "ok"
      \/ /\ Lookup(c, x, tokens) = {} \/ Lookup(c, y, tokens) = {}
         /\ m' = c
         /\ reply' = "confirmation failed"
         /\ claims' = claims
  BY DEF Confirm
<1> HIDE DEF c
<1>4. \A z \in {x, y} :
        /\ \A n \in Lookup(c, z, tokens) :
             c.byName[n].token \in Interface!Usable(LocksOf(c), z, tokens)
        /\ Interface!Usable(LocksOf(c), z, tokens) # {} => Lookup(c, z, tokens) # {}
  BY <1>1, UsableIsLookup
<1>5. claims[p] = Interface!NoClaim
  BY <1>2 DEF NoClaim, Interface!NoClaim
<1>6. ASSUME NEW n0 \in Lookup(c, x, tokens), NEW n1 \in Lookup(c, y, tokens),
             m' = Hold(c, {n0, n1}),
             claims' = [claims EXCEPT ![p] =
                          [named  |-> {x, y},
                           tokens |-> {c.byName[n0].token, c.byName[n1].token}]],
             reply' = "ok"
      PROVE  Interface!Confirm(p, Interface!Alive(now), x, y, tokens)
  <2>1. {n0, n1} \in SUBSET Name /\ \A n \in {n0, n1} : Locked(c, n)
    BY <1>1, LookupMeans
  <2>2. /\ Hold(c, {n0, n1}).gen = c.gen /\ Hold(c, {n0, n1}).byToken = c.byToken
        /\ \A n \in Name :
             /\ Hold(c, {n0, n1}).byName[n].zeroDepth = c.byName[n].zeroDepth
             /\ Hold(c, {n0, n1}).byName[n].duration = c.byName[n].duration
             /\ Hold(c, {n0, n1}).byName[n].expiry = c.byName[n].expiry
    BY <1>1, <2>1, HoldSound
  <2>3. Granted' = Interface!Alive(now) /\ m'.gen = m.gen
    BY <1>1, <1>6, <2>2, SameLocks, GrantedIs
  <2>4. /\ c.byName[n0].token \in Interface!Usable(Interface!Alive(now), x, tokens)
        /\ c.byName[n1].token \in Interface!Usable(Interface!Alive(now), y, tokens)
    BY <1>1, <1>4
  <2> QED BY <1>2, <1>5, <1>6, <2>3, <2>4 DEF Interface!Confirm
<1>7. CASE /\ Lookup(c, x, tokens) = {} \/ Lookup(c, y, tokens) = {}
           /\ m' = c
           /\ reply' = "confirmation failed"
           /\ claims' = claims
  <2>1. Granted' = Interface!Alive(now) /\ m'.gen = m.gen
    BY <1>1, <1>7, GrantedIs
  <2>2. \/ Interface!Usable(Interface!Alive(now), x, tokens) = {}
        \/ Interface!Usable(Interface!Alive(now), y, tokens) = {}
    BY <1>1, <1>4, <1>7
  <2> QED BY <1>2, <1>5, <1>7, <2>1, <2>2 DEF Interface!Confirm
<1> QED BY <1>3, <1>6, <1>7

\* A release shows nothing of the locks it gives back.
LEMMA ReleaseImplements ==
  ASSUME Inv, NEW p \in Caller, Release(p)
  PROVE  Interface!Release(p)
<1> DEFINE N == {m.byToken[t] : t \in claims[p].tokens}
<1>1. Sound(m) /\ claims \in [Caller -> Claim] /\ ClaimsOn(m, claims)
  BY InvIsGood DEF Good
<1>2. /\ claims[p] # Interface!NoClaim /\ m' = Unhold(m, N) /\ reply' = "ok"
      /\ claims' = [claims EXCEPT ![p] = Interface!NoClaim] /\ clock' = clock
  BY DEF Release, NoClaim, Interface!NoClaim
<1>3. N \in SUBSET Name /\ \A n \in N : Locked(m, n)
  <2> SUFFICES ASSUME NEW t \in claims[p].tokens
               PROVE  m.byToken[t] \in Name /\ Locked(m, m.byToken[t])
    OBVIOUS
  <2>1. t \in Token /\ m.byToken[t] # NoName
    BY <1>1 DEF ClaimsOn, Claim
  <2>2. t \in Live(m)
    BY <2>1 DEF Live
  <2> QED BY <1>1, <2>2, LiveMeans
<1> HIDE DEF N
<1>4. /\ Unhold(m, N).gen = m.gen /\ Unhold(m, N).byToken = m.byToken
      /\ \A n \in Name :
           /\ Unhold(m, N).byName[n].zeroDepth = m.byName[n].zeroDepth
           /\ Unhold(m, N).byName[n].duration = m.byName[n].duration
           /\ Unhold(m, N).byName[n].expiry = m.byName[n].expiry
  BY <1>1, <1>3, UnholdSound
<1>5. LocksOf(Unhold(m, N)) = LocksOf(m)
  BY <1>1, <1>4, SameLocks
<1>6. Granted' = Granted /\ m'.gen = m.gen
  BY <1>2, <1>4, <1>5, GrantedIs
<1> QED BY <1>2, <1>6 DEF Interface!Release

\* Every step of the table is a step of the interface, or shows nothing.
LEMMA StepImplements == Inv /\ [Next]_vars => [Interface!Next]_(Interface!vars)
<1> SUFFICES ASSUME Inv, [Next]_vars PROVE [Interface!Next]_(Interface!vars)
  OBVIOUS
<1>1. CASE UNCHANGED vars
  BY <1>1, GrantedIs DEF vars, Interface!vars
<1>2. CASE Tick
  <2>1. Interface!Tick
    BY <1>2, GrantedIs DEF Tick, Interface!Tick
  <2> QED BY <2>1 DEF Interface!Next
<1>3. ASSUME NEW now \in Readings, NEW name \in Name, NEW zeroDepth \in BOOLEAN,
             NEW duration \in Duration \cup {Infinite},
             Create(now, name, zeroDepth, duration)
      PROVE  Interface!Next
  <2>1. Interface!Create(Interface!Alive(now), now, name, zeroDepth, duration)
    BY <1>3, CreateImplements
  <2>2. now \in 0 .. clock
    BY DEF Readings
  <2> QED BY <2>1, <2>2 DEF Interface!Next, Interface!Call, Interface!Infinite, Infinite
<1>4. ASSUME NEW now \in Readings, NEW token \in Token,
             NEW duration \in Duration \cup {Infinite},
             Refresh(now, token, duration)
      PROVE  Interface!Next
  <2>1. Interface!Refresh(Interface!Alive(now), now, token, duration)
    BY <1>4, RefreshImplements
  <2>2. now \in 0 .. clock /\ token \in 1 .. MaxGen
    BY DEF Readings, Token
  <2> QED BY <2>1, <2>2 DEF Interface!Next, Interface!Call, Interface!Infinite, Infinite
<1>5. ASSUME NEW now \in Readings, NEW token \in Token, Unlock(now, token)
      PROVE  Interface!Next
  <2>1. Interface!Unlock(Interface!Alive(now), token)
    BY <1>5, UnlockImplements
  <2>2. now \in 0 .. clock /\ token \in 1 .. MaxGen
    BY DEF Readings, Token
  <2> QED BY <2>1, <2>2 DEF Interface!Next, Interface!Call
<1>6. ASSUME NEW now \in Readings, NEW p \in Caller, NEW x \in Name, NEW y \in Name,
             NEW tokens \in SUBSET (1 .. m.gen), Confirm(p, now, x, y, tokens)
      PROVE  Interface!Next
  <2>1. Interface!Confirm(p, Interface!Alive(now), x, y, tokens)
    BY <1>6, ConfirmImplements
  <2>2. now \in 0 .. clock
    BY DEF Readings
  <2>3. tokens \in SUBSET (1 .. MaxGen)
    <3>1. m.gen \in 0 .. MaxGen
      BY DEF Inv, TypeOK, Table
    <3> QED BY <3>1, BoundAssumption
  <2> QED BY <2>1, <2>2, <2>3 DEF Interface!Next, Interface!Call
<1>7. ASSUME NEW p \in Caller, Release(p)
      PROVE  Interface!Next
  <2>1. Interface!Release(p)
    BY <1>7, ReleaseImplements
  <2> QED BY <2>1 DEF Interface!Next
<1> QED
  BY <1>1, <1>2, <1>3, <1>4, <1>5, <1>6, <1>7 DEF Next

\* What the callers of the lock system see of the tree of reference counts, the
\* token index and the expiry heap is a set of granted locks that changes only as
\* the interface promises: canCreate grants exactly what conflicts with no lock,
\* the expiry heap forgets exactly the unclaimed locks whose deadline has passed,
\* and lookup finds a usable lock whenever there is one.
THEOREM TableImplements == Spec => Implements
<1>1. Init => Interface!Init
  BY InitImplements
<1>2. Inv /\ [Next]_vars => [Interface!Next]_(Interface!vars)
  BY StepImplements
<1> QED BY <1>1, <1>2, InvAlways, PTL DEF Spec, Implements, Interface!Spec

=============================================================================
