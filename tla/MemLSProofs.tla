----------------------------- MODULE MemLSProofs -----------------------------
(***************************************************************************)
(* Lemmas about the operators of the lock table, for every tree of names   *)
(* and every number of tokens: each method keeps a table whose indexes     *)
(* agree and whose locks do not conflict, and says what it changed.  The   *)
(* proofs about LockService and DavLocking, whose actions these operators  *)
(* are, rest on them.                                                      *)
(***************************************************************************)
EXTENDS MemLS, FiniteSetTheorems, TLAPS

\* A table on which the indexes agree and no two locks conflict.
Sound(m0) == m0 \in Table /\ IndexesAgree(m0) /\ NoConflict(m0)

\* A node at or above a lock is in the map, so canCreate finds it.
LEMMA LockedIsPresent ==
  ASSUME NEW t0, Sound(t0), NEW n \in Name, NEW k \in Name,
         Locked(t0, k), n \in WalkToRoot[k]
  PROVE  Present(t0, n)
<1>1. k \in LockedBelow(t0, n)
  BY DEF LockedBelow
<1>2. IsFiniteSet(LockedBelow(t0, n))
  BY NameAssumption, FS_Subset DEF LockedBelow
<1>3. Cardinality(LockedBelow(t0, n)) # 0
  BY <1>1, <1>2, FS_EmptySet
<1> QED
  BY <1>3 DEF Sound, IndexesAgree, RefCountsExact, Present

\* The table of a service that just started.
LEMMA NewSound ==
  /\ Sound(NewMemLS) /\ NewMemLS.gen = 0 /\ Live(NewMemLS) = {}
  /\ \A n \in Name : ~NewMemLS.byName[n].held
<1> DEFINE t0 == NewMemLS
<1>1. t0 \in Table
  BY BoundAssumption DEF NewMemLS, Table, Node, NoNode, Token
<1>2. /\ \A n \in Name : t0.byName[n] = NoNode /\ ~Locked(t0, n) /\ ~t0.byName[n].held
      /\ \A t \in Token : t0.byToken[t] = NoName
      /\ t0.gen = 0 /\ t0.byExpiry = {}
  BY DEF NewMemLS, NoNode, Locked
<1> HIDE DEF t0
<1>3. TokensInverse(t0)
  BY <1>2, NameAssumption, BoundAssumption DEF TokensInverse, NoNode, NoToken, Token
<1>4. RefCountsExact(t0)
  <2> SUFFICES ASSUME NEW n \in Name
               PROVE  t0.byName[n].refCount = Cardinality(LockedBelow(t0, n))
    BY DEF RefCountsExact
  <2>1. LockedBelow(t0, n) = {}
    BY <1>2 DEF LockedBelow
  <2> QED
    BY <1>2, <2>1, FS_EmptySet DEF NoNode
<1>5. HeapExact(t0) /\ TokensIssued(t0) /\ NoConflict(t0) /\ Live(t0) = {}
  BY <1>2 DEF HeapExact, TokensIssued, NoConflict, Live
<1> QED
  BY <1>1, <1>2, <1>3, <1>4, <1>5 DEF t0, Sound, IndexesAgree

\* The new table and the tree seen through Remove.
LEMMA RemoveEffect ==
  ASSUME NEW t0, Sound(t0), NEW R \in SUBSET Name,
         \A r \in R : Locked(t0, r) /\ ~t0.byName[r].held
  PROVE  LET t1 == Remove(t0, R)
         IN  /\ t1 \in Table
             /\ t1.gen = t0.gen
             /\ \A n \in Name : Locked(t1, n) <=> Locked(t0, n) /\ n \notin R
             /\ \A n \in Name : Locked(t1, n) =>
                   /\ t1.byName[n].token = t0.byName[n].token
                   /\ t1.byName[n].zeroDepth = t0.byName[n].zeroDepth
                   /\ t1.byName[n].duration = t0.byName[n].duration
                   /\ t1.byName[n].expiry = t0.byName[n].expiry
                   /\ t1.byName[n].held = t0.byName[n].held
             /\ \A n \in Name : ~Locked(t1, n) => ~t1.byName[n].held
             /\ \A t \in Token : t1.byToken[t] =
                   IF t0.byToken[t] \in R THEN NoName ELSE t0.byToken[t]
             /\ RefCountsExact(t1)
<1> DEFINE t1 == Remove(t0, R)
           gone(n) == {r \in R : n \in WalkToRoot[r]}
           left(n) == t0.byName[n].refCount - Cardinality(gone(n))
<1>1. t0 \in Table /\ TokensInverse(t0) /\ RefCountsExact(t0) /\ HeapExact(t0)
  BY DEF Sound, IndexesAgree
<1>2. ASSUME NEW n \in Name
      PROVE  /\ left(n) \in Nat
             /\ left(n) = Cardinality(LockedBelow(t0, n) \ gone(n))
  <2>1. IsFiniteSet(LockedBelow(t0, n))
    BY NameAssumption, FS_Subset DEF LockedBelow
  <2>2. gone(n) \subseteq LockedBelow(t0, n)
    BY DEF LockedBelow
  <2>3. LockedBelow(t0, n) \cap gone(n) = gone(n)
    BY <2>2
  <2>4. /\ IsFiniteSet(LockedBelow(t0, n) \ gone(n))
        /\ Cardinality(LockedBelow(t0, n) \ gone(n))
             = Cardinality(LockedBelow(t0, n)) - Cardinality(gone(n))
    <3>1. /\ IsFiniteSet(LockedBelow(t0, n) \ gone(n))
          /\ Cardinality(LockedBelow(t0, n) \ gone(n))
               = Cardinality(LockedBelow(t0, n)) - Cardinality(LockedBelow(t0, n) \cap gone(n))
      BY <2>1, FS_Difference
    <3> HIDE DEF gone
    <3> QED
      BY <2>3, <3>1
  <2>5. Cardinality(LockedBelow(t0, n) \ gone(n)) \in Nat
    BY <2>4, FS_CardinalityType
  <2> QED
    BY <1>1, <2>4, <2>5 DEF RefCountsExact
<1>3. ASSUME NEW n \in Name, left(n) = 0
      PROVE  Locked(t0, n) => n \in R
  <2>1. SUFFICES ASSUME Locked(t0, n), n \notin R PROVE FALSE
    OBVIOUS
  <2>2. n \in LockedBelow(t0, n) \ gone(n)
    BY <2>1, NameAssumption DEF LockedBelow
  <2>3. IsFiniteSet(LockedBelow(t0, n) \ gone(n))
    BY NameAssumption, FS_Subset DEF LockedBelow
  <2> QED
    BY <1>2, <1>3, <2>2, <2>3, FS_EmptySet
<1>4. /\ t1.gen = t0.gen
      /\ t1.byExpiry = t0.byExpiry \ R
      /\ t1.byToken = [t \in Token |-> IF \E r \in R : t0.byName[r].token = t
                                       THEN NoName ELSE t0.byToken[t]]
      /\ t1.byName = [n \in Name |->
                        IF left(n) = 0 THEN NoNode
                        ELSE IF n \in R THEN [NoNode EXCEPT !.refCount = left(n)]
                        ELSE [t0.byName[n] EXCEPT !.refCount = left(n)]]
  BY <1>1 DEF Remove, Table
<1>5. ASSUME NEW n \in Name
      PROVE  /\ t1.byName[n] \in Node
             /\ t1.byName[n].refCount = left(n)
             /\ Locked(t1, n) <=> Locked(t0, n) /\ n \notin R
             /\ Locked(t1, n) =>
                   /\ t1.byName[n].token = t0.byName[n].token
                   /\ t1.byName[n].zeroDepth = t0.byName[n].zeroDepth
                   /\ t1.byName[n].duration = t0.byName[n].duration
                   /\ t1.byName[n].expiry = t0.byName[n].expiry
                   /\ t1.byName[n].held = t0.byName[n].held
             /\ ~Locked(t1, n) => ~t1.byName[n].held
  <2>1. t0.byName[n] \in Node /\ left(n) \in Nat
    BY <1>1, <1>2 DEF Table
  <2>2. CASE left(n) = 0
    BY <1>3, <1>4, <2>1, <2>2 DEF Node, NoNode, Locked, NoToken
  <2>3. CASE left(n) # 0 /\ n \in R
    <3>1. t1.byName[n] = [NoNode EXCEPT !.refCount = left(n)]
      BY <1>4, <2>3
    <3>2. t1.byName[n] = [token |-> NoToken, zeroDepth |-> FALSE, duration |-> 0,
                          expiry |-> 0, refCount |-> left(n), held |-> FALSE]
      BY <3>1 DEF NoNode
    <3> HIDE DEF t1, left, gone
    <3> QED
      BY <2>1, <2>3, <3>2 DEF Node, Locked, NoToken
  <2>4. CASE left(n) # 0 /\ n \notin R
    BY <1>1, <1>4, <2>1, <2>4 DEF Node, Locked, HeapExact
  <2> QED
    BY <2>2, <2>3, <2>4
<1>6. ASSUME NEW t \in Token
      PROVE  t1.byToken[t] = IF t0.byToken[t] \in R THEN NoName ELSE t0.byToken[t]
  BY <1>1, <1>4 DEF TokensInverse
<1>7. t1 \in Table
  <2>1. t1 = [gen |-> t1.gen, byName |-> t1.byName,
              byToken |-> t1.byToken, byExpiry |-> t1.byExpiry]
    BY DEF Remove
  <2>2. t1.byName \in [Name -> Node]
    BY <1>4, <1>5
  <2>3. t1.byToken \in [Token -> Name \cup {NoName}]
    BY <1>1, <1>4 DEF Table
  <2> QED
    BY <1>1, <1>4, <2>1, <2>2, <2>3 DEF Table
<1>8. RefCountsExact(t1)
  <2> SUFFICES ASSUME NEW n \in Name
               PROVE  t1.byName[n].refCount = Cardinality(LockedBelow(t1, n))
    BY DEF RefCountsExact
  <2>1. LockedBelow(t1, n) = LockedBelow(t0, n) \ gone(n)
    BY <1>5 DEF LockedBelow
  <2> QED
    BY <1>2, <1>5, <2>1
<1> QED
  BY <1>4, <1>5, <1>6, <1>7, <1>8

\* remove keeps the table consistent: locks that stay keep their details.
LEMMA RemoveSound ==
  ASSUME NEW t0, Sound(t0), NEW R \in SUBSET Name,
         \A r \in R : Locked(t0, r) /\ ~t0.byName[r].held
  PROVE  Sound(Remove(t0, R))
<1> DEFINE t1 == Remove(t0, R)
<1>1. /\ t1 \in Table
      /\ t1.gen = t0.gen
      /\ \A n \in Name : Locked(t1, n) <=> Locked(t0, n) /\ n \notin R
      /\ \A n \in Name : Locked(t1, n) =>
            /\ t1.byName[n].token = t0.byName[n].token
            /\ t1.byName[n].zeroDepth = t0.byName[n].zeroDepth
            /\ t1.byName[n].duration = t0.byName[n].duration
            /\ t1.byName[n].held = t0.byName[n].held
      /\ \A n \in Name : ~Locked(t1, n) => ~t1.byName[n].held
      /\ \A t \in Token : t1.byToken[t] =
            IF t0.byToken[t] \in R THEN NoName ELSE t0.byToken[t]
      /\ RefCountsExact(t1)
  BY RemoveEffect
<1>2. /\ t0 \in Table /\ TokensInverse(t0) /\ TokensIssued(t0) /\ HeapExact(t0)
      /\ NoConflict(t0)
      /\ t1.byExpiry = t0.byExpiry \ R
  BY DEF Sound, IndexesAgree, Remove
<1> HIDE DEF t1
<1>3. TokensInverse(t1)
  <2> SUFFICES ASSUME NEW t \in Token, NEW n \in Name
               PROVE  t1.byToken[t] = n <=> t1.byName[n].token = t
    BY DEF TokensInverse
  <2>1. t # NoToken
    BY BoundAssumption DEF Token, NoToken
  <2>2. t0.byToken[t] = n <=> t0.byName[n].token = t
    BY <1>2 DEF TokensInverse
  <2>3. CASE n \in R
    BY <1>1, <2>1, <2>3, NameAssumption DEF Locked
  <2>4. CASE n \notin R
    BY <1>1, <2>1, <2>2, <2>4, NameAssumption DEF Locked
  <2> QED
    BY <2>3, <2>4
<1>4. TokensIssued(t1)
  BY <1>1, <1>2 DEF TokensIssued
<1>5. HeapExact(t1)
  BY <1>1, <1>2 DEF HeapExact
<1>6. NoConflict(t1)
  BY <1>1, <1>2 DEF NoConflict, Covers
<1> QED
  BY <1>1, <1>3, <1>4, <1>5, <1>6 DEF Sound, IndexesAgree, t1

\* What canCreate answers means that the new lock conflicts with no lock.
LEMMA CanCreateMeans ==
  ASSUME NEW t0, Sound(t0), NEW name \in Name, NEW zeroDepth \in BOOLEAN,
         CanCreate(t0, name, zeroDepth)
  PROVE  /\ ~Locked(t0, name)
         /\ \A k \in Name : Locked(t0, k) =>
               /\ ~Covers(t0, k, name)
               /\ ~zeroDepth => name \notin WalkToRoot[k]
<1>1. ~Locked(t0, name)
  <2>1. SUFFICES ASSUME Locked(t0, name) PROVE FALSE
    OBVIOUS
  <2>2. name \in WalkToRoot[name]
    BY NameAssumption
  <2>3. Present(t0, name)
    BY <2>1, <2>2, LockedIsPresent
  <2> QED
    BY <2>1, <2>2, <2>3 DEF CanCreate
<1>2. ASSUME NEW k \in Name, Locked(t0, k)
      PROVE  ~Covers(t0, k, name)
  <2>1. SUFFICES ASSUME Covers(t0, k, name) PROVE FALSE
    OBVIOUS
  <2>2. k # name /\ k \in WalkToRoot[name] /\ ~t0.byName[k].zeroDepth
    BY <1>1, <1>2, <2>1 DEF Covers
  <2>3. Present(t0, k)
    BY <1>2, NameAssumption, LockedIsPresent
  <2> QED
    BY <1>2, <2>2, <2>3 DEF CanCreate
<1>3. ASSUME NEW k \in Name, Locked(t0, k), ~zeroDepth, name \in WalkToRoot[k]
      PROVE  FALSE
  <2>1. Present(t0, name)
    BY <1>3, LockedIsPresent
  <2> QED
    BY <1>3, <2>1, NameAssumption DEF CanCreate
<1> QED
  BY <1>1, <1>2, <1>3

\* Create keeps the table consistent.
LEMMA InsertSound ==
  ASSUME NEW t0, Sound(t0), t0.gen < MaxGen,
         NEW now \in Nat, NEW name \in Name, NEW zeroDepth \in BOOLEAN,
         NEW duration \in Duration \cup {Infinite},
         CanCreate(t0, name, zeroDepth)
  PROVE  LET t1 == Insert(t0, now, name, zeroDepth, duration)
         IN  /\ Sound(t1)
             /\ t0.byToken[t1.gen] = NoName
             /\ \A t \in Token : t0.byToken[t] # NoName =>
                   /\ t1.byToken[t] = t0.byToken[t]
                   /\ t0.byToken[t] # name
             /\ \A n \in Name : n # name =>
                   /\ t1.byName[n].token = t0.byName[n].token
                   /\ t1.byName[n].zeroDepth = t0.byName[n].zeroDepth
                   /\ t1.byName[n].duration = t0.byName[n].duration
                   /\ t1.byName[n].expiry = t0.byName[n].expiry
                   /\ t1.byName[n].held = t0.byName[n].held
             /\ ~t1.byName[name].held
<1> DEFINE t1 == Insert(t0, now, name, zeroDepth, duration)
           tok == t0.gen + 1
           counted(n) == t0.byName[n].refCount
                           + (IF n \in WalkToRoot[name] THEN 1 ELSE 0)
<1>1. /\ t0 \in Table /\ TokensInverse(t0) /\ TokensIssued(t0)
      /\ RefCountsExact(t0) /\ HeapExact(t0) /\ NoConflict(t0)
  BY DEF Sound, IndexesAgree
<1>2. /\ ~Locked(t0, name)
      /\ \A k \in Name : Locked(t0, k) =>
            /\ ~Covers(t0, k, name)
            /\ ~zeroDepth => name \notin WalkToRoot[k]
  BY CanCreateMeans
<1>3. tok \in Token /\ tok # NoToken /\ t0.byToken[tok] = NoName
  BY <1>1, BoundAssumption DEF Table, Token, TokensIssued, NoToken
<1>4. \A t \in Token : t0.byToken[t] # NoName => t # tok /\ t0.byToken[t] # name
  <2> SUFFICES ASSUME NEW t \in Token, t0.byToken[t] # NoName
               PROVE  t # tok /\ t0.byToken[t] # name
    OBVIOUS
  <2>1. t # tok
    BY <1>3
  <2>2. ASSUME t0.byToken[t] = name PROVE FALSE
    BY <1>1, <1>2, <2>2, BoundAssumption DEF TokensInverse, Locked, Token, NoToken
  <2> QED
    BY <2>1, <2>2
<1>5. /\ t1.gen = tok
      /\ t1.byToken = [t0.byToken EXCEPT ![tok] = name]
      /\ t1.byExpiry = IF duration # Infinite THEN t0.byExpiry \cup {name}
                                              ELSE t0.byExpiry
      /\ t1 = [gen |-> t1.gen, byName |-> t1.byName,
               byToken |-> t1.byToken, byExpiry |-> t1.byExpiry]
      /\ t1.byName[name] = [token |-> tok, zeroDepth |-> zeroDepth,
                            duration |-> duration,
                            expiry |-> IF duration # Infinite THEN now + duration ELSE 0,
                            refCount |-> counted(name),
                            held |-> t0.byName[name].held]
      /\ \A n \in Name \ {name} :
            t1.byName[n] = [t0.byName[n] EXCEPT !.refCount = counted(n)]
      /\ DOMAIN t1.byName = Name
      /\ t1.byName = [n \in Name |-> t1.byName[n]]
  BY DEF Insert
<1> HIDE DEF t1
<1>6. \A n \in Name : counted(n) \in Nat /\ t0.byName[n] \in Node
  BY <1>1 DEF Table, Node
<1>7. \A n \in Name :
        /\ t1.byName[n] \in Node
        /\ t1.byName[n].refCount = counted(n)
        /\ t1.byName[n].held = t0.byName[n].held
  <2> SUFFICES ASSUME NEW n \in Name
               PROVE  /\ t1.byName[n] \in Node
                      /\ t1.byName[n].refCount = counted(n)
                      /\ t1.byName[n].held = t0.byName[n].held
    OBVIOUS
  <2>1. CASE n = name
    <3>1. /\ duration \in Nat \cup {Infinite}
          /\ (IF duration # Infinite THEN now + duration ELSE 0) \in Nat
      BY BoundAssumption
    <3>2. t0.byName[name].held \in BOOLEAN
      BY <1>6 DEF Node
    <3> HIDE DEF counted
    <3> QED
      BY <1>3, <1>5, <1>6, <2>1, <3>1, <3>2 DEF Node
  <2>2. CASE n # name
    <3>1. t1.byName[n] = [t0.byName[n] EXCEPT !.refCount = counted(n)]
      BY <1>5, <2>2
    <3> HIDE DEF counted
    <3> QED
      BY <1>6, <3>1 DEF Node
  <2> QED
    BY <2>1, <2>2
<1>8. \A n \in Name \ {name} :
        /\ t1.byName[n].token = t0.byName[n].token
        /\ t1.byName[n].zeroDepth = t0.byName[n].zeroDepth
        /\ t1.byName[n].duration = t0.byName[n].duration
        /\ t1.byName[n].expiry = t0.byName[n].expiry
  <2> SUFFICES ASSUME NEW n \in Name \ {name}
               PROVE  /\ t1.byName[n].token = t0.byName[n].token
                      /\ t1.byName[n].zeroDepth = t0.byName[n].zeroDepth
                      /\ t1.byName[n].duration = t0.byName[n].duration
                      /\ t1.byName[n].expiry = t0.byName[n].expiry
    OBVIOUS
  <2>1. t1.byName[n] = [t0.byName[n] EXCEPT !.refCount = counted(n)]
    BY <1>5
  <2> HIDE DEF counted
  <2> QED
    BY <1>6, <2>1 DEF Node
<1>9. /\ t1.byName[name].token = tok
      /\ t1.byName[name].zeroDepth = zeroDepth
      /\ t1.byName[name].duration = duration
  BY <1>5
<1>10. t1 \in Table
  <2>1. t1.gen \in 0 .. MaxGen
    BY <1>1, <1>5, BoundAssumption DEF Table
  <2>2. t1.byName \in [Name -> Node]
    BY <1>5, <1>7
  <2>3. t1.byToken \in [Token -> Name \cup {NoName}]
    <3>1. t0.byToken \in [Token -> Name \cup {NoName}]
      BY <1>1 DEF Table
    <3>2. t1.byToken = [t0.byToken EXCEPT ![tok] = name]
      BY <1>5
    <3> HIDE DEF t1, tok
    <3> QED
      BY <3>1, <3>2
  <2>4. t1.byExpiry \in SUBSET Name
    BY <1>1, <1>5 DEF Table
  <2> QED
    BY <1>5, <2>1, <2>2, <2>3, <2>4 DEF Table
<1>11. \A n \in Name : Locked(t1, n) <=> Locked(t0, n) \/ n = name
  BY <1>3, <1>8, <1>9 DEF Locked
<1>12. TokensInverse(t1)
  <2> SUFFICES ASSUME NEW t \in Token, NEW n \in Name
               PROVE  t1.byToken[t] = n <=> t1.byName[n].token = t
    BY DEF TokensInverse
  <2>1. t1.byToken[t] = IF t = tok THEN name ELSE t0.byToken[t]
    BY <1>1, <1>5 DEF Table
  <2>2. t0.byToken[t] = n <=> t0.byName[n].token = t
    BY <1>1 DEF TokensInverse
  <2>3. CASE n = name
    BY <1>3, <1>4, <1>9, <2>1, <2>3, NameAssumption
  <2>4. CASE n # name
    BY <1>3, <1>8, <2>1, <2>2, <2>4, NameAssumption
  <2> QED
    BY <2>3, <2>4
<1>13. TokensIssued(t1)
  <2> SUFFICES ASSUME NEW t \in Token, t1.byToken[t] # NoName
               PROVE  t <= t1.gen
    BY DEF TokensIssued
  <2>1. t1.byToken[t] = IF t = tok THEN name ELSE t0.byToken[t]
    BY <1>1, <1>5 DEF Table
  <2> QED
    BY <1>1, <1>5, <2>1, BoundAssumption DEF TokensIssued, Table, Token
<1>14. RefCountsExact(t1)
  <2> SUFFICES ASSUME NEW n \in Name
               PROVE  t1.byName[n].refCount = Cardinality(LockedBelow(t1, n))
    BY DEF RefCountsExact
  <2>1. IsFiniteSet(LockedBelow(t0, n)) /\ name \notin LockedBelow(t0, n)
    BY <1>2, NameAssumption, FS_Subset DEF LockedBelow
  <2>2. t0.byName[n].refCount = Cardinality(LockedBelow(t0, n))
    BY <1>1 DEF RefCountsExact
  <2>3. CASE n \in WalkToRoot[name]
    <3>1. LockedBelow(t1, n) = LockedBelow(t0, n) \cup {name}
      BY <1>11, <2>3 DEF LockedBelow
    <3>2. Cardinality(LockedBelow(t0, n) \cup {name})
            = Cardinality(LockedBelow(t0, n)) + 1
      BY <2>1, FS_AddElement
    <3>3. counted(n) = t0.byName[n].refCount + 1
      BY <2>3
    <3> QED
      BY <1>7, <2>2, <3>1, <3>2, <3>3
  <2>4. CASE n \notin WalkToRoot[name]
    <3>1. LockedBelow(t1, n) = LockedBelow(t0, n)
      BY <1>11, <2>4 DEF LockedBelow
    <3>2. t0.byName[n].refCount \in Nat
      BY <1>6 DEF Node
    <3> QED
      BY <1>7, <2>2, <2>4, <3>1, <3>2
  <2> QED
    BY <2>3, <2>4
<1>15. ~t0.byName[name].held
  BY <1>1, <1>2 DEF HeapExact
<1>16. HeapExact(t1)
  <2>1. t1.byExpiry = {n \in Name : /\ Locked(t1, n)
                                    /\ t1.byName[n].duration # Infinite
                                    /\ ~t1.byName[n].held}
    BY <1>1, <1>2, <1>5, <1>7, <1>8, <1>9, <1>11, <1>15 DEF HeapExact
  <2>2. \A n \in Name : t1.byName[n].held => Locked(t1, n)
    BY <1>1, <1>7, <1>11 DEF HeapExact
  <2> QED
    BY <2>1, <2>2 DEF HeapExact
<1>17. NoConflict(t1)
  <2> SUFFICES ASSUME NEW k \in Name, NEW l \in Name,
                      Locked(t1, k), Locked(t1, l), k # l, Covers(t1, k, l)
               PROVE  FALSE
    BY DEF NoConflict
  <2>1. CASE k = name
    BY <1>2, <1>9, <1>11, <2>1 DEF Covers
  <2>2. CASE l = name
    BY <1>2, <1>8, <1>11, <2>2 DEF Covers
  <2>3. CASE k # name /\ l # name
    BY <1>1, <1>8, <1>11, <2>3 DEF NoConflict, Covers
  <2> QED
    BY <2>1, <2>2, <2>3
<1>18. \A t \in Token : t0.byToken[t] # NoName => t1.byToken[t] = t0.byToken[t]
  BY <1>1, <1>4, <1>5 DEF Table
<1> QED
  BY <1>3, <1>4, <1>5, <1>7, <1>8, <1>10, <1>12, <1>13, <1>14, <1>15, <1>16,
     <1>17, <1>18 DEF Sound, IndexesAgree, t1

\* Refresh keeps the table consistent and changes the timeout of one lock only.
LEMMA ExtendSound ==
  ASSUME NEW t0, Sound(t0), NEW now \in Nat, NEW name \in Name,
         NEW duration \in Duration \cup {Infinite},
         Locked(t0, name), ~t0.byName[name].held
  PROVE  LET t1 == Extend(t0, now, name, duration)
         IN  /\ Sound(t1)
             /\ t1.gen = t0.gen /\ t1.byToken = t0.byToken
             /\ \A n \in Name :
                   /\ t1.byName[n].token = t0.byName[n].token
                   /\ t1.byName[n].zeroDepth = t0.byName[n].zeroDepth
                   /\ t1.byName[n].held = t0.byName[n].held
                   /\ n # name => t1.byName[n] = t0.byName[n]
             /\ t1.byName[name].duration = duration
             /\ t1.byName[name].expiry =
                   IF duration # Infinite THEN now + duration ELSE 0
<1> DEFINE t1 == Extend(t0, now, name, duration)
           expiry == IF duration # Infinite THEN now + duration ELSE 0
<1>1. /\ t0 \in Table /\ TokensInverse(t0) /\ TokensIssued(t0)
      /\ RefCountsExact(t0) /\ HeapExact(t0) /\ NoConflict(t0)
  BY DEF Sound, IndexesAgree
<1>2. t0.byName[name] \in Node /\ duration \in Nat \cup {Infinite} /\ expiry \in Nat
  BY <1>1, BoundAssumption DEF Table
<1>3. /\ t1.gen = t0.gen
      /\ t1.byToken = t0.byToken
      /\ t1.byExpiry = IF duration # Infinite THEN t0.byExpiry \cup {name}
                                              ELSE t0.byExpiry \ {name}
      /\ t1.byName[name] = [t0.byName[name] EXCEPT !.duration = duration,
                                                  !.expiry = expiry]
      /\ \A n \in Name \ {name} : t1.byName[n] = t0.byName[n]
      /\ t1 = [gen |-> t1.gen, byName |-> t1.byName,
               byToken |-> t1.byToken, byExpiry |-> t1.byExpiry]
      /\ t1.byName = [n \in Name |-> t1.byName[n]]
  BY <1>1 DEF Extend, Table
<1> HIDE DEF t1, expiry
<1>4. /\ t1.byName[name] \in Node
      /\ t1.byName[name].token = t0.byName[name].token
      /\ t1.byName[name].zeroDepth = t0.byName[name].zeroDepth
      /\ t1.byName[name].refCount = t0.byName[name].refCount
      /\ t1.byName[name].held = t0.byName[name].held
      /\ t1.byName[name].duration = duration
      /\ t1.byName[name].expiry = expiry
  BY <1>2, <1>3 DEF Node
<1>5. t1 \in Table
  <2>1. t1.byName \in [Name -> Node]
    BY <1>1, <1>3, <1>4 DEF Table
  <2> QED
    BY <1>1, <1>3, <2>1 DEF Table
<1>6. \A n \in Name : t1.byName[n].token = t0.byName[n].token
                       /\ (Locked(t1, n) <=> Locked(t0, n))
  BY <1>3, <1>4 DEF Locked
<1>7. TokensInverse(t1) /\ TokensIssued(t1)
  BY <1>1, <1>3, <1>6 DEF TokensInverse, TokensIssued
<1>8. RefCountsExact(t1)
  <2>1. \A n \in Name : LockedBelow(t1, n) = LockedBelow(t0, n)
    BY <1>6 DEF LockedBelow
  <2>2. \A n \in Name : t1.byName[n].refCount = t0.byName[n].refCount
    BY <1>3, <1>4
  <2>3. \A n \in Name : t0.byName[n].refCount = Cardinality(LockedBelow(t0, n))
    BY <1>1 DEF RefCountsExact
  <2> QED
    BY <2>1, <2>2, <2>3 DEF RefCountsExact
<1>9. HeapExact(t1)
  <2>1. \A n \in Name : t1.byName[n].held = t0.byName[n].held
    BY <1>3, <1>4
  <2>2. \A n \in Name :
          n \in t1.byExpiry <=> /\ Locked(t1, n)
                               /\ t1.byName[n].duration # Infinite
                               /\ ~t1.byName[n].held
    <3> TAKE n \in Name
    <3>1. CASE n = name
      BY <1>3, <1>4, <1>6, <3>1
    <3>2. CASE n # name
      BY <1>1, <1>3, <1>6, <3>2 DEF HeapExact
    <3> QED
      BY <3>1, <3>2
  <2>3. t1.byExpiry \subseteq Name
    BY <1>5 DEF Table
  <2> QED
    BY <1>1, <1>6, <2>1, <2>2, <2>3 DEF HeapExact
<1>10. NoConflict(t1)
  BY <1>1, <1>3, <1>4, <1>6 DEF NoConflict, Covers
<1> QED
  BY <1>3, <1>4, <1>5, <1>7, <1>8, <1>9, <1>10 DEF Sound, IndexesAgree, t1, expiry

\* A table with the same locks is as consistent, if its heap is.
LEMMA SameLocksSound ==
  ASSUME NEW t0, Sound(t0), NEW t1 \in Table, HeapExact(t1),
         t1.gen = t0.gen, t1.byToken = t0.byToken,
         \A n \in Name : /\ t1.byName[n].token = t0.byName[n].token
                         /\ t1.byName[n].zeroDepth = t0.byName[n].zeroDepth
                         /\ t1.byName[n].refCount = t0.byName[n].refCount
  PROVE  Sound(t1)
<1>1. /\ TokensInverse(t0) /\ TokensIssued(t0)
      /\ RefCountsExact(t0) /\ NoConflict(t0)
  BY DEF Sound, IndexesAgree
<1>2. \A n \in Name : Locked(t1, n) <=> Locked(t0, n)
  BY DEF Locked
<1>3. TokensInverse(t1) /\ TokensIssued(t1)
  BY <1>1 DEF TokensInverse, TokensIssued
<1>4. RefCountsExact(t1)
  <2>1. \A n \in Name : LockedBelow(t1, n) = LockedBelow(t0, n)
    BY <1>2 DEF LockedBelow
  <2> QED
    BY <1>1, <2>1 DEF RefCountsExact
<1>5. NoConflict(t1)
  BY <1>1, <1>2 DEF NoConflict, Covers
<1> QED
  BY <1>3, <1>4, <1>5 DEF Sound, IndexesAgree

\* hold marks some locked nodes and takes the timed ones off the heap.
LEMMA HoldSound ==
  ASSUME NEW t0, Sound(t0), NEW N \in SUBSET Name, \A n \in N : Locked(t0, n)
  PROVE  LET t1 == Hold(t0, N)
         IN  /\ Sound(t1)
             /\ t1.gen = t0.gen /\ t1.byToken = t0.byToken
             /\ \A n \in Name :
                   /\ t1.byName[n].token = t0.byName[n].token
                   /\ t1.byName[n].zeroDepth = t0.byName[n].zeroDepth
                   /\ t1.byName[n].duration = t0.byName[n].duration
                   /\ t1.byName[n].expiry = t0.byName[n].expiry
                   /\ t1.byName[n].held <=> n \in N \/ t0.byName[n].held
<1> DEFINE t1 == Hold(t0, N)
<1>1. t0 \in Table /\ HeapExact(t0)
  BY DEF Sound, IndexesAgree
<1>2. /\ t1 = [gen |-> t1.gen, byName |-> t1.byName,
               byToken |-> t1.byToken, byExpiry |-> t1.byExpiry]
      /\ t1.gen = t0.gen
      /\ t1.byToken = t0.byToken
      /\ t1.byExpiry = t0.byExpiry \ Timed(t0, N)
      /\ t1.byName = WithHeld(t0, N, TRUE)
  BY DEF Hold
<1> HIDE DEF t1
<1>3. /\ DOMAIN t1.byName = Name
      /\ t1.byName = [n \in Name |-> t1.byName[n]]
      /\ \A n \in Name :
        /\ t1.byName[n] \in Node
        /\ t1.byName[n].token = t0.byName[n].token
        /\ t1.byName[n].zeroDepth = t0.byName[n].zeroDepth
        /\ t1.byName[n].duration = t0.byName[n].duration
        /\ t1.byName[n].expiry = t0.byName[n].expiry
        /\ t1.byName[n].refCount = t0.byName[n].refCount
        /\ t1.byName[n].held <=> n \in N \/ t0.byName[n].held
  <2>1. /\ DOMAIN t1.byName = Name
        /\ t1.byName = [n \in Name |-> t1.byName[n]]
    BY <1>2 DEF WithHeld
  <2>2. ASSUME NEW n \in Name
        PROVE  /\ t1.byName[n] \in Node
               /\ t1.byName[n].token = t0.byName[n].token
               /\ t1.byName[n].zeroDepth = t0.byName[n].zeroDepth
               /\ t1.byName[n].duration = t0.byName[n].duration
               /\ t1.byName[n].expiry = t0.byName[n].expiry
               /\ t1.byName[n].refCount = t0.byName[n].refCount
               /\ t1.byName[n].held <=> n \in N \/ t0.byName[n].held
    <3>1. t0.byName[n] \in Node
      BY <1>1 DEF Table
    <3>2. t1.byName[n] = IF n \in N THEN [t0.byName[n] EXCEPT !.held = TRUE]
                         ELSE t0.byName[n]
      BY <1>2 DEF WithHeld
    <3>3. CASE n \in N
      BY <3>1, <3>2, <3>3 DEF Node
    <3>4. CASE n \notin N
      BY <3>1, <3>2, <3>4 DEF Node
    <3> QED
      BY <3>3, <3>4
  <2> QED
    BY <2>1, <2>2
<1>4. t1 \in Table
  <2>1. t1.byName \in [Name -> Node]
    BY <1>3
  <2>2. t1.byExpiry \in SUBSET Name
    BY <1>1, <1>2 DEF Table, Timed
  <2> QED
    BY <1>1, <1>2, <2>1, <2>2 DEF Table
<1>5. HeapExact(t1)
  <2>1. \A n \in Name : Locked(t1, n) <=> Locked(t0, n)
    BY <1>3 DEF Locked
  <2>2. \A n \in Name : t1.byName[n].held => Locked(t1, n)
    BY <1>1, <1>3, <2>1 DEF HeapExact
  <2>3. ASSUME NEW n \in Name
        PROVE  n \in t1.byExpiry <=>
                 Locked(t1, n) /\ t1.byName[n].duration # Infinite /\ ~t1.byName[n].held
    <3>1. n \in t0.byExpiry <=>
            Locked(t0, n) /\ t0.byName[n].duration # Infinite /\ ~t0.byName[n].held
      BY <1>1 DEF HeapExact
    <3>2. n \in Timed(t0, N) <=> n \in N /\ t0.byName[n].duration # Infinite
      BY DEF Timed
    <3>3. t1.byName[n].duration = t0.byName[n].duration
      BY <1>3
    <3>4. t1.byName[n].held <=> n \in N \/ t0.byName[n].held
      BY <1>3
    <3>5. n \in t1.byExpiry <=> n \in t0.byExpiry /\ n \notin Timed(t0, N)
      BY <1>2
    <3>6. n \in N => Locked(t0, n)
      OBVIOUS
    <3> QED
      BY <2>1, <3>1, <3>2, <3>3, <3>4, <3>5, <3>6
  <2>4. t1.byExpiry \subseteq Name
    BY <1>4 DEF Table
  <2> QED
    BY <2>2, <2>3, <2>4 DEF HeapExact
<1>6. Sound(t1)
  <2>1. \A n \in Name : /\ t1.byName[n].token = t0.byName[n].token
                        /\ t1.byName[n].zeroDepth = t0.byName[n].zeroDepth
                        /\ t1.byName[n].refCount = t0.byName[n].refCount
    BY <1>3
  <2>2. t1.gen = t0.gen /\ t1.byToken = t0.byToken
    BY <1>2
  <2> QED
    BY <1>4, <1>5, <2>1, <2>2, SameLocksSound
<1> QED
  BY <1>2, <1>3, <1>6 DEF t1

\* unhold clears the mark and puts the timed ones back.
LEMMA UnholdSound ==
  ASSUME NEW t0, Sound(t0), NEW N \in SUBSET Name, \A n \in N : Locked(t0, n)
  PROVE  LET t1 == Unhold(t0, N)
         IN  /\ Sound(t1)
             /\ t1.gen = t0.gen /\ t1.byToken = t0.byToken
             /\ \A n \in Name :
                   /\ t1.byName[n].token = t0.byName[n].token
                   /\ t1.byName[n].zeroDepth = t0.byName[n].zeroDepth
                   /\ t1.byName[n].duration = t0.byName[n].duration
                   /\ t1.byName[n].expiry = t0.byName[n].expiry
                   /\ t1.byName[n].held <=> n \notin N /\ t0.byName[n].held
<1> DEFINE t1 == Unhold(t0, N)
<1>1. t0 \in Table /\ HeapExact(t0)
  BY DEF Sound, IndexesAgree
<1>2. /\ t1 = [gen |-> t1.gen, byName |-> t1.byName,
               byToken |-> t1.byToken, byExpiry |-> t1.byExpiry]
      /\ t1.gen = t0.gen
      /\ t1.byToken = t0.byToken
      /\ t1.byExpiry = t0.byExpiry \cup Timed(t0, N)
      /\ t1.byName = WithHeld(t0, N, FALSE)
  BY DEF Unhold
<1> HIDE DEF t1
<1>3. /\ DOMAIN t1.byName = Name
      /\ t1.byName = [n \in Name |-> t1.byName[n]]
      /\ \A n \in Name :
        /\ t1.byName[n] \in Node
        /\ t1.byName[n].token = t0.byName[n].token
        /\ t1.byName[n].zeroDepth = t0.byName[n].zeroDepth
        /\ t1.byName[n].duration = t0.byName[n].duration
        /\ t1.byName[n].expiry = t0.byName[n].expiry
        /\ t1.byName[n].refCount = t0.byName[n].refCount
        /\ t1.byName[n].held <=> n \notin N /\ t0.byName[n].held
  <2>1. /\ DOMAIN t1.byName = Name
        /\ t1.byName = [n \in Name |-> t1.byName[n]]
    BY <1>2 DEF WithHeld
  <2>2. ASSUME NEW n \in Name
        PROVE  /\ t1.byName[n] \in Node
               /\ t1.byName[n].token = t0.byName[n].token
               /\ t1.byName[n].zeroDepth = t0.byName[n].zeroDepth
               /\ t1.byName[n].duration = t0.byName[n].duration
               /\ t1.byName[n].expiry = t0.byName[n].expiry
               /\ t1.byName[n].refCount = t0.byName[n].refCount
               /\ t1.byName[n].held <=> n \notin N /\ t0.byName[n].held
    <3>1. t0.byName[n] \in Node
      BY <1>1 DEF Table
    <3>2. t1.byName[n] = IF n \in N THEN [t0.byName[n] EXCEPT !.held = FALSE]
                         ELSE t0.byName[n]
      BY <1>2 DEF WithHeld
    <3>3. CASE n \in N
      BY <3>1, <3>2, <3>3 DEF Node
    <3>4. CASE n \notin N
      BY <3>1, <3>2, <3>4 DEF Node
    <3> QED
      BY <3>3, <3>4
  <2> QED
    BY <2>1, <2>2
<1>4. t1 \in Table
  <2>1. t1.byName \in [Name -> Node]
    BY <1>3
  <2>2. t1.byExpiry \in SUBSET Name
    BY <1>1, <1>2 DEF Table, Timed
  <2> QED
    BY <1>1, <1>2, <2>1, <2>2 DEF Table
<1>5. HeapExact(t1)
  <2>1. \A n \in Name : Locked(t1, n) <=> Locked(t0, n)
    BY <1>3 DEF Locked
  <2>2. \A n \in Name : t1.byName[n].held => Locked(t1, n)
    BY <1>1, <1>3, <2>1 DEF HeapExact
  <2>3. ASSUME NEW n \in Name
        PROVE  n \in t1.byExpiry <=>
                 Locked(t1, n) /\ t1.byName[n].duration # Infinite /\ ~t1.byName[n].held
    <3>1. n \in t0.byExpiry <=>
            Locked(t0, n) /\ t0.byName[n].duration # Infinite /\ ~t0.byName[n].held
      BY <1>1 DEF HeapExact
    <3>2. n \in Timed(t0, N) <=> n \in N /\ t0.byName[n].duration # Infinite
      BY DEF Timed
    <3>3. t1.byName[n].duration = t0.byName[n].duration
      BY <1>3
    <3>4. t1.byName[n].held <=> n \notin N /\ t0.byName[n].held
      BY <1>3
    <3>5. n \in t1.byExpiry <=> n \in t0.byExpiry \/ n \in Timed(t0, N)
      BY <1>2
    <3>6. n \in N => Locked(t0, n)
      OBVIOUS
    <3> QED
      BY <2>1, <3>1, <3>2, <3>3, <3>4, <3>5, <3>6
  <2>4. t1.byExpiry \subseteq Name
    BY <1>4 DEF Table
  <2> QED
    BY <2>2, <2>3, <2>4 DEF HeapExact
<1>6. Sound(t1)
  <2>1. \A n \in Name : /\ t1.byName[n].token = t0.byName[n].token
                        /\ t1.byName[n].zeroDepth = t0.byName[n].zeroDepth
                        /\ t1.byName[n].refCount = t0.byName[n].refCount
    BY <1>3
  <2>2. t1.gen = t0.gen /\ t1.byToken = t0.byToken
    BY <1>2
  <2> QED
    BY <1>4, <1>5, <2>1, <2>2, SameLocksSound
<1> QED
  BY <1>2, <1>3, <1>6 DEF t1

-----------------------------------------------------------------------------
(* Reading a consistent table.                                             *)

\* A live token is that of the node it names.
LEMMA LiveMeans ==
  ASSUME NEW t0, Sound(t0), NEW t \in Live(t0)
  PROVE  /\ t \in Token /\ t0.byToken[t] \in Name /\ t0.byName[t0.byToken[t]] \in Node
         /\ t0.byName[t0.byToken[t]].token = t /\ Locked(t0, t0.byToken[t])
<1>1. t \in Token /\ t0.byToken[t] \in Name /\ t0.byName[t0.byToken[t]] \in Node
  BY DEF Live, Sound, Table
<1>2. t0.byName[t0.byToken[t]].token = t
  BY <1>1 DEF Sound, IndexesAgree, TokensInverse
<1> QED BY <1>1, <1>2, BoundAssumption DEF Locked, Token, NoToken

\* A token that passes the test of Refresh and Unlock is that of a lock nobody
\* holds.
LEMMA VerdictOk ==
  ASSUME NEW t0, Sound(t0), NEW token \in Token, Verdict(t0, token) = "ok"
  PROVE  /\ t0.byToken[token] \in Name
         /\ t0.byName[t0.byToken[token]].token = token
         /\ Locked(t0, t0.byToken[token])
         /\ ~t0.byName[t0.byToken[token]].held
<1>1. t0.byToken[token] \in Name /\ ~t0.byName[t0.byToken[token]].held
  BY DEF Verdict, Sound, Table
<1>2. t0.byName[t0.byToken[token]].token = token
  BY <1>1 DEF Sound, IndexesAgree, TokensInverse
<1> QED
  BY <1>1, <1>2, BoundAssumption DEF Locked, Token, NoToken

\* What lookup finds is a lock nobody holds, covering the resource.
LEMMA LookupMeans ==
  ASSUME NEW t0, Sound(t0), NEW x, NEW tokens, NEW n \in Lookup(t0, x, tokens)
  PROVE  /\ n \in Name
         /\ Locked(t0, n)
         /\ ~t0.byName[n].held
         /\ Covers(t0, n, x)
         /\ t0.byName[n].token \in tokens \cap Token
         /\ t0.byToken[t0.byName[n].token] = n
<1>1. n \in Name /\ ~t0.byName[n].held /\ Covers(t0, n, x)
  BY DEF Lookup
<1>2. PICK t \in tokens \cap Token : t0.byToken[t] = n
  BY DEF Lookup
<1>3. t0.byName[n].token = t
  BY <1>1, <1>2 DEF Sound, IndexesAgree, TokensInverse
<1> QED
  BY <1>1, <1>2, <1>3, BoundAssumption DEF Locked, Token, NoToken

\* Two locks that cover one resource are the same lock: the ancestors of a name
\* are a chain, so one of the two would cover the root of the other.
LEMMA CoverUnique ==
  ASSUME NEW t0, Sound(t0), NEW n \in Name, NEW k \in Name, NEW x \in Name,
         Locked(t0, n), Locked(t0, k), Covers(t0, n, x), Covers(t0, k, x)
  PROVE  n = k
<1> SUFFICES ASSUME n # k PROVE FALSE
  OBVIOUS
<1>1. ~Covers(t0, n, k) /\ ~Covers(t0, k, n)
  BY DEF Sound, NoConflict
<1>2. x # n /\ x # k
  BY <1>1
<1>3. /\ n \in WalkToRoot[x] /\ ~t0.byName[n].zeroDepth
      /\ k \in WalkToRoot[x] /\ ~t0.byName[k].zeroDepth
  BY <1>2 DEF Covers
<1>4. n \in WalkToRoot[k] \/ k \in WalkToRoot[n]
  BY <1>3, NameAssumption
<1> QED BY <1>1, <1>3, <1>4 DEF Covers

\* What a call forgets first: timed locks that nobody holds.
LEMMA ExpiredMeans ==
  ASSUME NEW t0, Sound(t0), NEW now
  PROVE  /\ Expired(t0, now) \in SUBSET Name
         /\ \A r \in Expired(t0, now) :
              Locked(t0, r) /\ ~t0.byName[r].held /\ t0.byName[r].duration # Infinite
<1>1. HeapExact(t0)
  BY DEF Sound, IndexesAgree
<1> QED BY <1>1 DEF HeapExact, Expired

=============================================================================
