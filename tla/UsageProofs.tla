----------------------------- MODULE UsageProofs -----------------------------
(***************************************************************************)
(* Proofs about the count of the bytes, for any files, sizes, quota and    *)
(* requests in progress.  The row and the bytes are sums over finite sets: *)
(* what a fold computes is shown first, by induction on subsets.  The      *)
(* invariant then says what each request has read of the disk and relies   *)
(* on, and who keeps the others from changing it: the locks of WebDAV, or  *)
(* nobody, in which case the count is disturbed.                           *)
(***************************************************************************)
EXTENDS Usage, FiniteSetTheorems, TLAPS

-----------------------------------------------------------------------------
(* The sum of a function over a finite set.                                *)

\* The element that the fold takes next.
Pick(s) == CHOOSE x \in s : TRUE

\* What the fold computes for a set, when g is what it computes for smaller ones.
Step(g, f, s) == IF s = {} THEN 0 ELSE f[Pick(s)] + g[s \ {Pick(s)}]

\* g is the fold of f on the subsets of S.
IsFold(g, f, S) == g = [s \in SUBSET S |-> Step(g, f, s)]

\* A set of numbers that holds 0, and with every number the next one, holds all.
LEMMA NatSetInduction ==
  ASSUME NEW T, 0 \in T, \A n \in Nat : n \in T => n + 1 \in T
  PROVE  Nat \subseteq T
<1> SUFFICES ASSUME Nat \ T # {} PROVE FALSE
  OBVIOUS
<1> DEFINE less == OpToRel(<, Nat)
<1>1. PICK n \in Nat \ T : \A m \in Nat \ T : <<m, n>> \notin less
  <2> DEFINE rest == Nat \ T
  <2>1. rest \subseteq Nat /\ rest # {} /\ IsWellFoundedOn(less, Nat)
    BY NatLessThanWellFounded
  <2> HIDE DEF less, rest
  <2>2. \E x \in rest : \A y \in rest : <<y, x>> \notin less
    BY <2>1, WFMin
  <2> QED BY <2>2 DEF rest
<1>2. n - 1 \in Nat /\ (n - 1) + 1 = n
  BY n # 0
<1>3. n - 1 \in Nat \ T /\ <<n - 1, n>> \in less
  BY <1>2 DEF OpToRel
<1> QED BY <1>1, <1>3

\* What holds of the empty set, and of a set if it holds of all that have one element
\* less, holds of all subsets of a finite set.
LEMMA FiniteSetInduction ==
  ASSUME NEW S, IsFiniteSet(S), NEW T,
         \A s \in SUBSET S : (\A x \in s : s \ {x} \in T) => s \in T
  PROVE  SUBSET S \subseteq T
<1> DEFINE N == {n \in Nat : \A s \in SUBSET S : Cardinality(s) = n => s \in T}
<1>1. \A s \in SUBSET S : IsFiniteSet(s) /\ Cardinality(s) \in Nat
  BY FS_Subset, FS_CardinalityType
<1>2. 0 \in N
  <2>1. ASSUME NEW s \in SUBSET S, Cardinality(s) = 0 PROVE s \in T
    BY <1>1, <2>1, FS_EmptySet
  <2> QED BY <2>1
<1>3. ASSUME NEW n \in Nat, n \in N PROVE n + 1 \in N
  <2>1. ASSUME NEW s \in SUBSET S, Cardinality(s) = n + 1 PROVE s \in T
    <3>1. ASSUME NEW x \in s PROVE s \ {x} \in T
      <4>1. Cardinality(s \ {x}) = n
        BY <1>1, <2>1, FS_RemoveElement
      <4> QED BY <1>3, <4>1
    <3> QED BY <3>1
  <2> QED BY <2>1
<1> HIDE DEF N
<1>4. Nat \subseteq N
  BY <1>2, <1>3, NatSetInduction
<1> QED BY <1>1, <1>4 DEF N

\* There is a function that follows the fold on the subsets of S.
LEMMA FoldExists ==
  ASSUME NEW f, NEW S, IsFiniteSet(S)
  PROVE  \E g : IsFold(g, f, S)
<1> DEFINE D(n) == {s \in SUBSET S : Cardinality(s) <= n}
           N == {n \in Nat : \E g : g = [s \in D(n) |-> Step(g, f, s)]}
<1>1. \A s \in SUBSET S : IsFiniteSet(s) /\ Cardinality(s) \in Nat
  BY FS_Subset, FS_CardinalityType
<1>2. \A s \in SUBSET S : s # {} => /\ Pick(s) \in s
                                    /\ Cardinality(s \ {Pick(s)}) = Cardinality(s) - 1
  BY <1>1, FS_RemoveElement DEF Pick
<1>3. 0 \in N
  <2> DEFINE g == [s \in D(0) |-> 0]
  <2>1. ASSUME NEW s \in D(0) PROVE s = {}
    BY <1>1, FS_EmptySet
  <2>2. g = [s \in D(0) |-> Step(g, f, s)]
    BY <2>1 DEF Step
  <2> HIDE DEF g
  <2> QED BY <2>2
<1>4. ASSUME NEW n \in Nat, n \in N PROVE n + 1 \in N
  <2>1. PICK g : g = [s \in D(n) |-> Step(g, f, s)]
    BY <1>4
  <2> DEFINE h == [s \in D(n + 1) |-> Step(g, f, s)]
  <2>2. D(n) \subseteq D(n + 1)
    BY <1>1
  <2>3. \A s \in D(n) : h[s] = g[s]
    BY <2>1, <2>2
  <2>4. \A s \in D(n + 1) : s # {} => s \ {Pick(s)} \in D(n)
    BY <1>1, <1>2
  <2>5. \A s \in D(n + 1) : Step(g, f, s) = Step(h, f, s)
    <3> HIDE DEF h, D
    <3> QED BY <2>3, <2>4 DEF Step
  <2>6. h = [s \in D(n + 1) |-> Step(h, f, s)]
    <3> HIDE DEF D
    <3> QED BY <2>5
  <2> HIDE DEF h, D
  <2>7. n + 1 \in Nat /\ \E k : k = [s \in D(n + 1) |-> Step(k, f, s)]
    BY <2>6
  <2> QED BY <2>7
<1>5. Cardinality(S) \in N
  <2> HIDE DEF N
  <2>1. Nat \subseteq N
    BY <1>3, <1>4, NatSetInduction
  <2> QED BY <1>1, <2>1
<1>6. D(Cardinality(S)) = SUBSET S
  BY FS_Subset
<1> QED BY <1>5, <1>6 DEF IsFold

\* Total is what such a function says of S.
LEMMA TotalFold ==
  ASSUME NEW f, NEW S, IsFiniteSet(S)
  PROVE  \E g : IsFold(g, f, S) /\ Total(f, S) = g[S]
<1> DEFINE g == CHOOSE h : IsFold(h, f, S)
<1>1. Total(f, S) = g[S]
  BY DEF Total, MapThenSumSet, MapThenFoldSet, IsFold, Step, Pick
<1>2. IsFold(g, f, S)
  BY FoldExists
<1> HIDE DEF g
<1> QED BY <1>1, <1>2

\* Two such functions agree where both speak.
LEMMA FoldUnique ==
  ASSUME NEW f, NEW S, NEW R, IsFiniteSet(S), R \subseteq S, NEW g, NEW h,
         IsFold(g, f, S), IsFold(h, f, R)
  PROVE  \A s \in SUBSET R : g[s] = h[s]
<1> DEFINE T == {s \in SUBSET R : g[s] = h[s]}
<1>1. ASSUME NEW s \in SUBSET R, \A x \in s : s \ {x} \in T PROVE s \in T
  <2>1. g[s] = Step(g, f, s) /\ h[s] = Step(h, f, s)
    BY DEF IsFold
  <2>2. s # {} => g[s \ {Pick(s)}] = h[s \ {Pick(s)}]
    BY <1>1 DEF Pick
  <2> QED BY <2>1, <2>2 DEF Step
<1>2. IsFiniteSet(R)
  BY FS_Subset
<1> HIDE DEF T
<1>3. SUBSET R \subseteq T
  BY <1>1, <1>2, FiniteSetInduction
<1> QED BY <1>3 DEF T

\* The sum over no element.
LEMMA TotalEmpty == ASSUME NEW f PROVE Total(f, {}) = 0
<1>1. PICK g : IsFold(g, f, {}) /\ Total(f, {}) = g[{}]
  BY TotalFold, FS_EmptySet
<1> QED BY <1>1 DEF IsFold, Step

\* The fold takes one element, and goes on with the others.
LEMMA TotalPick ==
  ASSUME NEW f, NEW S, IsFiniteSet(S), S # {}
  PROVE  Total(f, S) = f[Pick(S)] + Total(f, S \ {Pick(S)})
<1> DEFINE R == S \ {Pick(S)}
<1>1. PICK g : IsFold(g, f, S) /\ Total(f, S) = g[S]
  BY TotalFold
<1>2. IsFiniteSet(R) /\ R \subseteq S
  BY FS_Subset
<1> HIDE DEF R
<1>3. PICK h : IsFold(h, f, R) /\ Total(f, R) = h[R]
  BY <1>2, TotalFold
<1>4. g[R] = h[R]
  BY <1>1, <1>2, <1>3, FoldUnique
<1>5. g[S] = Step(g, f, S)
  BY <1>1 DEF IsFold
<1> QED BY <1>1, <1>3, <1>4, <1>5 DEF Step, R

\* A sum of numbers is a number.
LEMMA TotalInt ==
  ASSUME NEW f, NEW S, IsFiniteSet(S), \A x \in S : f[x] \in Int
  PROVE  Total(f, S) \in Int
<1> DEFINE T == {s \in SUBSET S : Total(f, s) \in Int}
<1>1. ASSUME NEW s \in SUBSET S, \A x \in s : s \ {x} \in T PROVE s \in T
  <2>1. CASE s = {}
    BY <2>1, TotalEmpty
  <2>2. CASE s # {}
    <3>1. Pick(s) \in s
      BY <2>2 DEF Pick
    <3>2. Total(f, s) = f[Pick(s)] + Total(f, s \ {Pick(s)})
      BY <2>2, TotalPick, FS_Subset
    <3> QED BY <1>1, <3>1, <3>2
  <2> QED BY <2>1, <2>2
<1> HIDE DEF T
<1>2. SUBSET S \subseteq T
  BY <1>1, FiniteSetInduction
<1> QED BY <1>2 DEF T

\* Sums of equal functions are equal.
LEMMA TotalSame ==
  ASSUME NEW f, NEW g, NEW S, IsFiniteSet(S), \A x \in S : f[x] = g[x]
  PROVE  Total(f, S) = Total(g, S)
<1> DEFINE T == {s \in SUBSET S : Total(f, s) = Total(g, s)}
<1>1. ASSUME NEW s \in SUBSET S, \A x \in s : s \ {x} \in T PROVE s \in T
  <2>1. CASE s = {}
    BY <2>1, TotalEmpty
  <2>2. CASE s # {}
    <3>1. Pick(s) \in s
      BY <2>2 DEF Pick
    <3>2. /\ Total(f, s) = f[Pick(s)] + Total(f, s \ {Pick(s)})
          /\ Total(g, s) = g[Pick(s)] + Total(g, s \ {Pick(s)})
      BY <2>2, TotalPick, FS_Subset
    <3> QED BY <1>1, <3>1, <3>2
  <2> QED BY <2>1, <2>2
<1> HIDE DEF T
<1>2. SUBSET S \subseteq T
  BY <1>1, FiniteSetInduction
<1> QED BY <1>2 DEF T

\* Which element is taken out of a sum first does not matter.
LEMMA TotalTake ==
  ASSUME NEW f, NEW S, IsFiniteSet(S), \A x \in S : f[x] \in Int, NEW x \in S
  PROVE  Total(f, S) = f[x] + Total(f, S \ {x})
<1> DEFINE T == {s \in SUBSET S : \A y \in s : Total(f, s) = f[y] + Total(f, s \ {y})}
<1>1. \A s \in SUBSET S : IsFiniteSet(s) /\ Total(f, s) \in Int
  BY FS_Subset, TotalInt
<1>2. ASSUME NEW s \in SUBSET S, \A y \in s : s \ {y} \in T PROVE s \in T
  <2>1. ASSUME NEW y \in s PROVE Total(f, s) = f[y] + Total(f, s \ {y})
    <3> DEFINE p == Pick(s)
    <3>1. p \in s /\ Total(f, s) = f[p] + Total(f, s \ {p})
      BY <1>1, <2>1, TotalPick DEF Pick
    <3> HIDE DEF p
    <3>2. CASE y = p
      BY <3>1, <3>2
    <3>3. CASE y # p
      <4>1. Total(f, s \ {p}) = f[y] + Total(f, (s \ {p}) \ {y})
        BY <1>2, <2>1, <3>1, <3>3
      <4>2. Total(f, s \ {y}) = f[p] + Total(f, (s \ {y}) \ {p})
        BY <1>2, <2>1, <3>1, <3>3
      <4>3. (s \ {p}) \ {y} = (s \ {y}) \ {p}
        OBVIOUS
      <4> DEFINE r == Total(f, (s \ {y}) \ {p})
      <4>4. r \in Int /\ f[y] \in Int /\ f[p] \in Int
        BY <1>1, <3>1
      <4> HIDE DEF r
      <4>5. Total(f, s) = f[p] + (f[y] + r) /\ Total(f, s \ {y}) = f[p] + r
        BY <3>1, <4>1, <4>2, <4>3 DEF r
      <4> QED BY <4>4, <4>5
    <3> QED BY <3>2, <3>3
  <2> QED BY <2>1
<1> HIDE DEF T
<1>3. SUBSET S \subseteq T
  BY <1>2, FiniteSetInduction
<1> QED BY <1>3 DEF T

\* The sum over a subset and the sum over the rest.
LEMMA TotalSplit ==
  ASSUME NEW f, NEW S, IsFiniteSet(S), \A x \in S : f[x] \in Int, NEW R \in SUBSET S
  PROVE  Total(f, S) = Total(f, R) + Total(f, S \ R)
<1> DEFINE T == {s \in SUBSET R : Total(f, S) = Total(f, s) + Total(f, S \ s)}
<1>1. \A s \in SUBSET S : IsFiniteSet(s) /\ Total(f, s) \in Int
  BY FS_Subset, TotalInt
<1>2. ASSUME NEW s \in SUBSET R, \A y \in s : s \ {y} \in T PROVE s \in T
  <2>1. CASE s = {}
    BY <1>1, <2>1, TotalEmpty
  <2>2. CASE s # {}
    <3>1. PICK y \in s : TRUE
      BY <2>2
    <3>2. Total(f, s) = f[y] + Total(f, s \ {y})
      BY <1>1, <3>1, TotalTake
    <3>3. Total(f, S \ (s \ {y})) = f[y] + Total(f, S \ s)
      <4>1. (S \ (s \ {y})) \ {y} = S \ s /\ y \in S \ (s \ {y})
        BY <3>1
      <4> DEFINE q == S \ (s \ {y})
      <4>2. IsFiniteSet(q) /\ (\A x \in q : f[x] \in Int) /\ y \in q
        BY <1>1, <4>1
      <4> HIDE DEF q
      <4>3. Total(f, q) = f[y] + Total(f, q \ {y})
        BY <4>2, TotalTake
      <4> QED BY <4>1, <4>3 DEF q
    <3>4. Total(f, S) = Total(f, s \ {y}) + Total(f, S \ (s \ {y}))
      BY <1>2, <3>1
    <3>5. /\ f[y] \in Int /\ Total(f, s \ {y}) \in Int /\ Total(f, S \ s) \in Int
      BY <1>1, <3>1
    <3>6. Total(f, S) = Total(f, s) + Total(f, S \ s)
      BY <3>2, <3>3, <3>4, <3>5
    <3> QED BY <3>6
  <2> QED BY <2>1, <2>2
<1>3. IsFiniteSet(R)
  BY <1>1
<1> HIDE DEF T
<1>4. SUBSET R \subseteq T
  BY <1>2, <1>3, FiniteSetInduction
<1> QED BY <1>4 DEF T

\* A sum of one, of zeros, and of what is not negative.
LEMMA TotalOne ==
  ASSUME NEW f, NEW x, f[x] \in Int
  PROVE  Total(f, {x}) = f[x]
<1>1. IsFiniteSet({x}) /\ {x} \ {x} = {}
  BY FS_Singleton
<1>2. Total(f, {x}) = f[x] + Total(f, {x} \ {x})
  BY <1>1, TotalTake
<1> QED BY <1>1, <1>2, TotalEmpty

\* A sum of natural numbers is one.
LEMMA TotalNat ==
  ASSUME NEW f, NEW S, IsFiniteSet(S), \A x \in S : f[x] \in Nat
  PROVE  Total(f, S) \in Nat
<1> DEFINE T == {s \in SUBSET S : Total(f, s) \in Nat}
<1>1. ASSUME NEW s \in SUBSET S, \A x \in s : s \ {x} \in T PROVE s \in T
  <2>1. CASE s = {}
    BY <2>1, TotalEmpty
  <2>2. CASE s # {}
    <3>1. Pick(s) \in s
      BY <2>2 DEF Pick
    <3>2. Total(f, s) = f[Pick(s)] + Total(f, s \ {Pick(s)})
      BY <2>2, TotalPick, FS_Subset
    <3> QED BY <1>1, <3>1, <3>2
  <2> QED BY <2>1, <2>2
<1> HIDE DEF T
<1>2. SUBSET S \subseteq T
  BY <1>1, FiniteSetInduction
<1> QED BY <1>2 DEF T

\* A sum of zeros is zero.
LEMMA TotalZero ==
  ASSUME NEW f, NEW S, IsFiniteSet(S), \A x \in S : f[x] = 0
  PROVE  Total(f, S) = 0
<1> DEFINE T == {s \in SUBSET S : Total(f, s) = 0}
<1>1. ASSUME NEW s \in SUBSET S, \A x \in s : s \ {x} \in T PROVE s \in T
  <2>1. CASE s = {}
    BY <2>1, TotalEmpty
  <2>2. CASE s # {}
    <3>1. Pick(s) \in s
      BY <2>2 DEF Pick
    <3>2. Total(f, s) = f[Pick(s)] + Total(f, s \ {Pick(s)})
      BY <2>2, TotalPick, FS_Subset
    <3> QED BY <1>1, <3>1, <3>2
  <2> QED BY <2>1, <2>2
<1> HIDE DEF T
<1>2. SUBSET S \subseteq T
  BY <1>1, FiniteSetInduction
<1> QED BY <1>2 DEF T

\* What a change inside R does to a sum over S.
LEMMA TotalChange ==
  ASSUME NEW f, NEW g, NEW S, IsFiniteSet(S), NEW R \in SUBSET S,
         \A x \in S : f[x] \in Int /\ g[x] \in Int, \A x \in S \ R : f[x] = g[x]
  PROVE  Total(g, S) = Total(f, S) - Total(f, R) + Total(g, R)
<1>1. IsFiniteSet(R) /\ IsFiniteSet(S \ R)
  BY FS_Subset
<1>2. /\ Total(f, R) \in Int /\ Total(g, R) \in Int
      /\ Total(f, S \ R) \in Int /\ Total(g, S \ R) \in Int
  BY <1>1, TotalInt
<1>3. Total(f, S \ R) = Total(g, S \ R)
  BY <1>1, TotalSame
<1>4. /\ Total(f, S) = Total(f, R) + Total(f, S \ R)
      /\ Total(g, S) = Total(g, R) + Total(g, S \ R)
  BY TotalSplit
<1> QED BY <1>2, <1>3, <1>4

-----------------------------------------------------------------------------
(* The inductive invariant.                                                *)

\* The bytes of the files of S on the disk f.
Bytes(f) == [p \in Path |-> IF f[p] = Absent THEN 0 ELSE f[p]]

\* What a request looks like, by its kind.
Shape(j) ==
  CASE j.kind = "put"         -> /\ j.at \in {"start", "body", "publish", "commit"}
                                 /\ j.dst \in Path
    [] j.kind \in {"delete", "panelDelete"}
                              -> j.at \in {"start", "remove", "removed"} /\ j.tree \in Trees
    [] j.kind = "copy"        -> /\ j.at \in {"start", "remove", "removed", "open", "body",
                                              "publish", "commit"}
                                 /\ j.dst \in Path /\ j.tree = {j.dst}
    [] j.kind = "move"        -> /\ j.at \in {"start", "remove", "removed", "rename", "commit"}
                                 /\ {j.src, j.dst} \subseteq Path /\ j.src # j.dst
                                 /\ j.tree = {j.dst}
    [] j.kind \in {"panelCopy", "panelMove"}
                              -> /\ j.at \in {"start", "apply", "commit"}
                                 /\ {j.src, j.dst} \subseteq Path
                                 /\ j.kind = "panelMove" /\ j.at # "start" => j.src # j.dst
    [] j.kind = "upload"      -> j.at \in {"session", "place", "commit"} /\ j.dst \in Path
    [] j.kind = "recalculate" -> j.at \in {"walk", "set"}
    [] OTHER                  -> j = Idle

\* What it has read of the disk f, and relies on.
Knows(j, f) ==
  /\ j.at \in {"body", "publish"} => j.prev = Bytes(f)[j.dst]
  /\ j.at = "remove" => j.delta = -Total(Bytes(f), j.tree)
  /\ j.at = "apply" =>
       j.delta = (IF j.kind = "panelCopy" THEN Bytes(f)[j.src] ELSE 0) - Bytes(f)[j.dst]
  /\ j.at = "session" =>
       j.prev = IF j.conflict = "overwrite" THEN Bytes(f)[j.dst] ELSE 0
  /\ j.at = "place" => j.prev = Bytes(f)[j.dst]
  /\ j.at \in {"walk", "set"} =>
       /\ \A p \in j.tree : f[p] # Absent
       /\ j.size + Total(Bytes(f), j.tree) = Total(Bytes(f), Path)
       /\ j.at = "set" => j.tree = {}

Alone(w) == \A v \in Worker \ {w} : job[v] = Idle

Underway(j) == j.at \notin {"idle", "start"}

\* No two requests hold the lock of one name.
LocksDisjoint ==
  \A v, w \in Worker : v # w /\ Underway(job[v]) /\ Underway(job[w])
    => LockNames(job[v]) \cap LockNames(job[w]) = {}

\* While the count is clean, no two requests meet on a file without a lock in common.
Undisturbed == \A v, w \in Worker : v # w => ~Interfere(job[v], job[w])

\* What is read stays true.
ReadsHold == \A w \in Worker : clean \/ job[w].solo => Knows(job[w], files)

\* With the row u, the quota has room for what the request is about to do.
Fits(j, u) ==
  /\ j.kind \in {"put", "copy"} /\ j.at \notin {"publish", "commit"} => j.used = u
  /\ j.at = "publish" => j.count = 0 \/ u + j.count - j.prev <= Quota
  /\ j.kind = "panelCopy" /\ j.at = "apply" => u + j.delta <= Quota
  /\ j.at \in {"session", "place"} => u + j.size - j.prev <= Quota

\* A request that has met no other goes by the row as it is.
Careful == \A w \in Worker : job[w].solo /\ Quota > 0 => Fits(job[w], usage)

Inv ==
  /\ TypeOK
  /\ \A w \in Worker : Shape(job[w])
  /\ \A w \in Worker : job[w].solo => Alone(w)
  /\ LocksDisjoint
  /\ clean => Undisturbed
  /\ ReadsHold
  /\ Accounted
  /\ Careful

-----------------------------------------------------------------------------
(* What requests read, and what they owe.                                  *)

\* A disk: the files with their sizes.
Disk == [Path -> Nat \cup {Absent}]

\* What a request owes to the row.
DueOf(j) == IF j.at \in {"commit", "removed"} THEN j.delta ELSE 0

\* The bytes on a disk are numbers, and so is their sum.
LEMMA BytesTyped ==
  ASSUME NEW f \in Disk
  PROVE  /\ Bytes(f) \in [Path -> Nat]
         /\ \A S \in SUBSET Path : IsFiniteSet(S) /\ Total(Bytes(f), S) \in Nat
<1>1. Bytes(f) \in [Path -> Nat]
  BY DEF Bytes, Disk, Absent
<1>2. ASSUME NEW S \in SUBSET Path PROVE IsFiniteSet(S) /\ Total(Bytes(f), S) \in Nat
  <2>1. IsFiniteSet(S)
    BY UsageAssumption, FS_Subset
  <2> QED BY <1>1, <2>1, TotalNat
<1> QED BY <1>1, <1>2

\* BytesOf is the sum of the bytes on the disk.
LEMMA BytesOfTotal == ASSUME NEW S PROVE BytesOf(S) = Total(Bytes(files), S)
BY DEF BytesOf, Bytes

\* The bytes of one file.
LEMMA BytesOfOne ==
  ASSUME NEW f \in Disk, NEW p \in Path
  PROVE  Total(Bytes(f), {p}) = Bytes(f)[p]
<1>1. Bytes(f)[p] \in Int
  BY BytesTyped
<1> QED BY <1>1, TotalOne

\* What a change of the files of R does to the bytes of all.
LEMMA BytesChange ==
  ASSUME NEW f \in Disk, NEW g \in Disk, NEW R \in SUBSET Path,
         \A p \in Path \ R : g[p] = f[p]
  PROVE  Total(Bytes(g), Path) =
           Total(Bytes(f), Path) - Total(Bytes(f), R) + Total(Bytes(g), R)
<1>1. \A p \in Path : Bytes(f)[p] \in Int /\ Bytes(g)[p] \in Int
  BY BytesTyped
<1>2. \A p \in Path \ R : Bytes(f)[p] = Bytes(g)[p]
  BY DEF Bytes
<1> QED BY <1>1, <1>2, TotalChange, UsageAssumption

\* The files a request touches are files.
LEMMA TouchedPaths ==
  ASSUME NEW j \in Job, Shape(j), Underway(j)
  PROVE  /\ j.kind \in {"put", "copy"} => j.dst \in Path /\ j.dst \in Touched(j)
         /\ j.kind \in {"copy", "move"} => j.tree = {j.dst} /\ j.dst \in Path
         /\ j.kind \in {"move", "panelCopy", "panelMove"} =>
              {j.src, j.dst} \subseteq Path /\ {j.src, j.dst} \subseteq Touched(j)
         /\ j.kind = "upload" => j.dst \in Path /\ j.dst \in Touched(j)
         /\ j.tree \subseteq Path
         /\ j.at = "remove" => j.tree \subseteq Touched(j)
         /\ j.at \in {"walk", "set"} => Touched(j) = Path
         /\ j.at \in {"body", "publish"} => j.kind \in {"put", "copy"}
         /\ j.at = "apply" => j.kind \in {"panelCopy", "panelMove"}
         /\ j.at \in {"session", "place"} => j.kind = "upload"
BY DEF Shape, Touched, Underway, Job, Idle

\* What a request has read stays true while the files it touches stay the same.
LEMMA KnowsKept ==
  ASSUME NEW j \in Job, Shape(j), NEW f \in Disk, NEW g \in Disk, Knows(j, f),
         Underway(j) => \A p \in Path \cap Touched(j) : g[p] = f[p]
  PROVE  Knows(j, g)
<1>1. CASE ~Underway(j)
  BY <1>1 DEF Knows, Underway
<1>2. CASE Underway(j)
  <2>1. \A p \in Path \cap Touched(j) : g[p] = f[p] /\ Bytes(g)[p] = Bytes(f)[p]
    BY <1>2 DEF Bytes
  <2>2. \A S \in SUBSET Path : S \subseteq Touched(j) =>
          Total(Bytes(g), S) = Total(Bytes(f), S)
    <3> SUFFICES ASSUME NEW S \in SUBSET Path, S \subseteq Touched(j)
                 PROVE  Total(Bytes(g), S) = Total(Bytes(f), S)
      OBVIOUS
    <3>1. IsFiniteSet(S) /\ \A p \in S : Bytes(g)[p] = Bytes(f)[p]
      BY <2>1, BytesTyped
    <3> QED BY <3>1, TotalSame
  <2>3. j.at \in {"body", "publish", "session", "place"} => Bytes(g)[j.dst] = Bytes(f)[j.dst]
    BY <1>2, <2>1, TouchedPaths
  <2>4. j.at = "remove" => Total(Bytes(g), j.tree) = Total(Bytes(f), j.tree)
    BY <1>2, <2>2, TouchedPaths
  <2>5. j.at = "apply" => /\ Bytes(g)[j.dst] = Bytes(f)[j.dst]
                          /\ Bytes(g)[j.src] = Bytes(f)[j.src]
    BY <1>2, <2>1, TouchedPaths
  <2>6. j.at \in {"walk", "set"} => /\ \A p \in j.tree : g[p] = f[p]
                                    /\ Total(Bytes(g), j.tree) = Total(Bytes(f), j.tree)
                                    /\ Total(Bytes(g), Path) = Total(Bytes(f), Path)
    BY <1>2, <2>1, <2>2, TouchedPaths
  <2> QED BY <2>3, <2>4, <2>5, <2>6 DEF Knows
<1> QED BY <1>1, <1>2

\* Idle requests know, touch and owe nothing.
LEMMA IdleFacts ==
  /\ Idle \in Job /\ Idle.at = "idle" /\ Idle.kind = "none" /\ ~Idle.tagged /\ ~Idle.solo
  /\ Shape(Idle) /\ LockNames(Idle) = {} /\ Touched(Idle) = {}
  /\ DueOf(Idle) = 0 /\ ~Underway(Idle)
  /\ \A f : Knows(Idle, f)
<1>1. Idle \in Job /\ Idle.at = "idle" /\ Idle.kind = "none" /\ ~Idle.tagged /\ ~Idle.solo
  BY DEF Idle, Job, Kinds, Steps
<1> HIDE DEF Idle
<1> QED BY <1>1 DEF Shape, LockNames, Touched, DueOf, Underway, Knows

\* The sum of what is due changes with what one request owes.
LEMMA DueChange ==
  ASSUME NEW w \in Worker, job \in [Worker -> Job], NEW j \in Job, job' = [job EXCEPT ![w] = j]
  PROVE  /\ Total(Due', Worker) = Total(Due, Worker) - DueOf(job[w]) + DueOf(j)
         /\ Total(Due, Worker) \in Int
<1>1. job' \in [Worker -> Job]
  OBVIOUS
<1>2. \A v \in Worker : Due[v] \in Int /\ Due'[v] \in Int
  BY <1>1 DEF Due, Job
<1>3. \A v \in Worker \ {w} : Due[v] = Due'[v]
  BY DEF Due
<1>4. Total(Due', Worker) = Total(Due, Worker) - Total(Due, {w}) + Total(Due', {w})
  <2>1. IsFiniteSet(Worker) /\ {w} \in SUBSET Worker
    BY UsageAssumption
  <2> DEFINE d == Due
             e == Due'
  <2>2. /\ \A v \in Worker : d[v] \in Int /\ e[v] \in Int
        /\ \A v \in Worker \ {w} : d[v] = e[v]
    BY <1>2, <1>3
  <2> HIDE DEF d, e
  <2>3. Total(e, Worker) = Total(d, Worker) - Total(d, {w}) + Total(e, {w})
    BY <2>1, <2>2, TotalChange
  <2> QED BY <2>3 DEF d, e
<1>5. Total(Due, {w}) = Due[w] /\ Total(Due', {w}) = Due'[w]
  BY <1>2, TotalOne
<1>6. Due[w] = DueOf(job[w]) /\ Due'[w] = DueOf(j)
  BY DEF Due, DueOf
<1>7. Total(Due, Worker) \in Int
  BY <1>2, TotalInt, UsageAssumption
<1> QED BY <1>4, <1>5, <1>6, <1>7

-----------------------------------------------------------------------------
(* A step of one request.                                                  *)

\* The request goes on as j: what is well formed stays so, it neither takes a new lock
\* without asking nor turns to files it did not touch before.
GoesOn(w, j) ==
  /\ j \in Job /\ Shape(j) /\ (j.at = "idle" => j = Idle)
  /\ j.solo => job[w].solo
  /\ \/ j = Idle
     \/ /\ LockNames(j) = LockNames(job[w]) /\ Touched(j) \subseteq Touched(job[w])
        /\ Underway(j) => Underway(job[w]) \/ LocksFree(w)

\* Other requests are as they were.
LEMMA OthersKeep ==
  ASSUME job \in [Worker -> Job], NEW w \in Worker, NEW j \in Job,
         job' = [job EXCEPT ![w] = j]
  PROVE  /\ job' \in [Worker -> Job] /\ job'[w] = j
         /\ \A v \in Worker \ {w} : job'[v] = job[v]
OBVIOUS

\* The locks stay disjoint: a request that begins has found its own free.
LEMMA LocksDisjointKept ==
  ASSUME Inv, NEW w \in Worker, NEW j, GoesOn(w, j), job' = [job EXCEPT ![w] = j]
  PROVE  LocksDisjoint'
<1>1. job' \in [Worker -> Job] /\ job'[w] = j /\ \A v \in Worker \ {w} : job'[v] = job[v]
  BY OthersKeep DEF GoesOn, Inv, TypeOK
<1>2. ASSUME NEW v \in Worker \ {w}, Underway(job[v]), Underway(j)
      PROVE  LockNames(job[v]) \cap LockNames(j) = {}
  <2>1. CASE j = Idle
    BY <2>1, IdleFacts
  <2>2. CASE LockNames(j) = LockNames(job[w]) /\ (Underway(j) => Underway(job[w]) \/ LocksFree(w))
    <3>1. CASE Underway(job[w])
      BY <1>2, <2>2, <3>1 DEF Inv, LocksDisjoint
    <3>2. CASE LocksFree(w)
      BY <1>2, <2>2, <3>2 DEF LocksFree, Underway
    <3> QED BY <1>2, <2>2, <3>1, <3>2
  <2> QED BY <2>1, <2>2 DEF GoesOn
<1>3. ASSUME NEW v \in Worker, NEW u \in Worker, v # u, Underway(job'[v]), Underway(job'[u])
      PROVE  LockNames(job'[v]) \cap LockNames(job'[u]) = {}
  <2>1. CASE v = w
    BY <1>1, <1>2, <1>3, <2>1
  <2>2. CASE u = w
    BY <1>1, <1>2, <1>3, <2>2
  <2>3. CASE v # w /\ u # w
    BY <1>1, <1>3, <2>3 DEF Inv, LocksDisjoint
  <2> QED BY <2>1, <2>2, <2>3
<1> QED BY <1>3 DEF LocksDisjoint

\* While nothing disturbs the count, nobody meets another on a file.
LEMMA UndisturbedKept ==
  ASSUME Inv, NEW w \in Worker, NEW j, GoesOn(w, j), job' = [job EXCEPT ![w] = j], clean
  PROVE  Undisturbed'
<1>1. job' \in [Worker -> Job] /\ job'[w] = j /\ \A v \in Worker \ {w} : job'[v] = job[v]
  BY OthersKeep DEF GoesOn, Inv, TypeOK
<1>2. Undisturbed
  BY DEF Inv
<1>3. ASSUME NEW v \in Worker \ {w} PROVE ~Interfere(j, job[v]) /\ ~Interfere(job[v], j)
  <2>1. ~Interfere(job[w], job[v])
    BY <1>2 DEF Undisturbed
  <2> QED BY <2>1, IdleFacts DEF GoesOn, Interfere
<1>4. ASSUME NEW v \in Worker, NEW u \in Worker, v # u
      PROVE  ~Interfere(job'[v], job'[u])
  <2>1. CASE v = w
    BY <1>1, <1>3, <1>4, <2>1
  <2>2. CASE u = w
    BY <1>1, <1>3, <1>4, <2>2
  <2>3. CASE v # w /\ u # w
    BY <1>1, <1>2, <1>4, <2>3 DEF Undisturbed
  <2> QED BY <2>1, <2>2, <2>3
<1> QED BY <1>4 DEF Undisturbed

\* Requests under way touch different files.
LEMMA TouchedDisjoint ==
  ASSUME Inv, clean, NEW v \in Worker, NEW w \in Worker, v # w,
         Underway(job[v]), Underway(job[w])
  PROVE  Touched(job[v]) \cap Touched(job[w]) = {}
BY DEF Inv, LocksDisjoint, Undisturbed, Interfere

\* What the others have read stays true.
LEMMA OthersKnow ==
  ASSUME Inv, NEW w \in Worker, job[w] # Idle, files' \in Disk,
         files' = files \/ Underway(job[w]),
         \A p \in Path \ Touched(job[w]) : files'[p] = files[p],
         NEW v \in Worker \ {w}, clean \/ job[v].solo
  PROVE  Knows(job[v], files')
<1>1. files \in Disk /\ job[v] \in Job /\ Shape(job[v])
  BY DEF Inv, TypeOK, Disk
<1>2. clean
  BY DEF Inv, Alone
<1>3. Knows(job[v], files)
  BY DEF Inv, ReadsHold
<1>4. CASE files' = files
  BY <1>3, <1>4
<1>5. CASE Underway(job[w])
  <2>1. Underway(job[v]) => \A p \in Path \cap Touched(job[v]) : files'[p] = files[p]
    BY <1>2, <1>5, TouchedDisjoint
  <2> QED BY <1>1, <1>3, <2>1, KnowsKept
<1> QED BY <1>4, <1>5

\* An idle request needs no room.
LEMMA IdleFits == \A u : Fits(Idle, u)
BY DEF Fits, Idle

\* What is to be shown of a step of one request, which goes on as j: it changes no files
\* but those it touches, knows what it relies on, counts what it changes, and has room.
Steady(w, j) ==
  /\ job[w] # Idle /\ GoesOn(w, j)
  /\ job' = [job EXCEPT ![w] = j] /\ requests' = requests /\ clean' = clean
  /\ files' \in Disk /\ usage' \in Int /\ drift' \in Int
  /\ files' = files \/ Underway(job[w])
  /\ \A p \in Path \ Touched(job[w]) : files'[p] = files[p]
  /\ clean \/ j.solo => Knows(j, files')
  /\ clean => usage' + DueOf(j) + drift' + Total(Bytes(files), Path)
                = usage + DueOf(job[w]) + drift + Total(Bytes(files'), Path)
  /\ j.solo /\ Quota > 0 => Fits(j, usage')

\* Such a step keeps the invariant.
LEMMA JobStep ==
  ASSUME Inv, NEW w \in Worker, NEW j, Steady(w, j)
  PROVE  Inv'
<1> USE DEF Steady
<1>1. job' \in [Worker -> Job] /\ job'[w] = j /\ \A v \in Worker \ {w} : job'[v] = job[v]
  BY OthersKeep DEF GoesOn, Inv, TypeOK
<1>2. \A v \in Worker : job'[v].at = "idle" <=> job'[v] = Idle
  BY <1>1, IdleFacts DEF GoesOn, Inv, TypeOK
<1>3. TypeOK'
  BY <1>1, <1>2 DEF Inv, TypeOK, Disk
<1>4. \A v \in Worker : Shape(job'[v])
  BY <1>1 DEF Inv, GoesOn
<1>5. ASSUME NEW v \in Worker, job'[v].solo PROVE Alone(v)'
  <2>1. CASE v = w
    BY <1>1, <1>5, <2>1 DEF Inv, Alone, GoesOn
  <2>2. CASE v # w
    BY <1>1, <1>5, <2>2 DEF Inv, Alone
  <2> QED BY <2>1, <2>2
<1>6. LocksDisjoint'
  BY LocksDisjointKept
<1>7. clean' => Undisturbed'
  BY UndisturbedKept
<1>8. ASSUME NEW v \in Worker, clean' \/ job'[v].solo PROVE Knows(job'[v], files')
  <2>1. CASE v = w
    BY <1>1, <1>8, <2>1
  <2>2. CASE v # w
    BY <1>1, <1>8, <2>2, OthersKnow
  <2> QED BY <2>1, <2>2
<1>9. ReadsHold'
  BY <1>8 DEF ReadsHold
<1>10. Accounted'
  <2> SUFFICES ASSUME clean
               PROVE  usage' + Total(Due', Worker) + drift' = Total(Bytes(files'), Path)
    BY DEF Accounted, BytesOf, Bytes
  <2>1. usage + Total(Due, Worker) + drift = Total(Bytes(files), Path)
    BY BytesOfTotal DEF Inv, Accounted
  <2>2. /\ Total(Due', Worker) = Total(Due, Worker) - DueOf(job[w]) + DueOf(j)
        /\ Total(Due, Worker) \in Int
    BY DueChange DEF Inv, TypeOK, GoesOn
  <2>3. /\ Total(Bytes(files), Path) \in Int /\ Total(Bytes(files'), Path) \in Int
        /\ usage \in Int /\ drift \in Int /\ usage' \in Int /\ drift' \in Int
    BY BytesTyped DEF Inv, TypeOK, Disk
  <2>4. DueOf(j) \in Int /\ DueOf(job[w]) \in Int
    BY DEF DueOf, GoesOn, Job, Inv, TypeOK
  <2>5. usage' + DueOf(j) + drift' + Total(Bytes(files), Path)
          = usage + DueOf(job[w]) + drift + Total(Bytes(files'), Path)
    OBVIOUS
  <2> DEFINE u == usage'
             d == drift'
             t == Total(Bytes(files'), Path)
             e == Total(Due', Worker)
             a == Total(Due, Worker)
             b == Total(Bytes(files), Path)
             x == DueOf(job[w])
             y == DueOf(j)
  <2>6. /\ u \in Int /\ d \in Int /\ t \in Int /\ a \in Int /\ b \in Int /\ x \in Int
        /\ y \in Int /\ usage \in Int /\ drift \in Int
        /\ e = a - x + y /\ u + y + d + b = usage + x + drift + t /\ usage + a + drift = b
    BY <2>1, <2>2, <2>3, <2>4, <2>5
  <2> HIDE DEF u, d, t, e, a, b, x, y, Steady
  <2>7. u + e + d = t
    BY <2>6
  <2> QED BY <2>7 DEF u, d, t, e
<1>11. Careful'
  <2> SUFFICES ASSUME NEW v \in Worker, job'[v].solo, Quota > 0 PROVE Fits(job'[v], usage')
    BY DEF Careful
  <2>1. v = w
    BY <1>1 DEF Inv, Alone
  <2> QED BY <1>1, <2>1
<1> QED BY <1>3, <1>4, <1>5, <1>6, <1>7, <1>9, <1>10, <1>11 DEF Inv

-----------------------------------------------------------------------------
(* Steps that change neither the files nor the row.                        *)

\* What the invariant says of one request.
LEMMA JobFacts ==
  ASSUME Inv, NEW w \in Worker
  PROVE  /\ job[w] \in Job /\ Shape(job[w]) /\ (job[w].at = "idle" <=> job[w] = Idle)
         /\ files \in Disk /\ usage \in Int /\ drift \in Int /\ clean \in BOOLEAN
         /\ clean \/ job[w].solo => Knows(job[w], files)
         /\ job[w].solo /\ Quota > 0 => Fits(job[w], usage)
BY DEF Inv, TypeOK, Disk, ReadsHold, Careful

\* A request that goes on for the same files.
LEMMA SameFiles ==
  ASSUME NEW q, NEW j, j.kind = q.kind, j.src = q.src, j.dst = q.dst, j.tree = q.tree,
         j.conflict = q.conflict, j.tagged = q.tagged
  PROVE  LockNames(j) = LockNames(q) /\ Touched(j) = Touched(q)
BY DEF LockNames, Touched

\* Only the request itself moves on.
LEMMA QuietStep ==
  ASSUME Inv, NEW w \in Worker, job[w] # Idle, NEW j, GoesOn(w, j), Becomes(w, j),
         UNCHANGED <<files, usage>>, DueOf(j) = DueOf(job[w]),
         clean \/ j.solo => Knows(j, files),
         j.solo /\ Quota > 0 => Fits(j, usage)
  PROVE  Inv'
<1>1. /\ job' = [job EXCEPT ![w] = j] /\ requests' = requests /\ clean' = clean
      /\ files' = files /\ usage' = usage /\ drift' = drift
  BY DEF Becomes
<1>2. usage' + DueOf(j) + drift' + Total(Bytes(files), Path)
        = usage + DueOf(job[w]) + drift + Total(Bytes(files'), Path)
  BY <1>1
<1>3. Steady(w, j)
  BY <1>1, <1>2, JobFacts DEF Steady
<1> QED BY <1>3, JobStep

\* The request ends, and owes nothing.
LEMMA EndStep ==
  ASSUME Inv, NEW w \in Worker, job[w] # Idle, Becomes(w, Idle),
         UNCHANGED <<files, usage>>, DueOf(job[w]) = 0
  PROVE  Inv'
<1>1. GoesOn(w, Idle)
  BY IdleFacts DEF GoesOn
<1> QED BY <1>1, QuietStep, IdleFacts, IdleFits

\* A refused request ends, before it has changed anything.
LEMMA RefusedStep == ASSUME Inv, NEW w \in Worker, Refused(w) PROVE Inv'
<1>1. job[w] # Idle /\ DueOf(job[w]) = 0
  BY IdleFacts DEF Refused, DueOf
<1> QED BY <1>1, EndStep DEF Refused

\* So does one whose first call to change something fails.
LEMMA FailsStep == ASSUME Inv, NEW w \in Worker, Fails(w) PROVE Inv'
<1>1. job[w] # Idle /\ DueOf(job[w]) = 0
  BY IdleFacts DEF Fails, DueOf
<1> QED BY <1>1, EndStep DEF Fails

\* And an upload that is given up.
LEMMA AbandonStep == ASSUME Inv, NEW w \in Worker, Abandon(w) PROVE Inv'
<1>1. job[w] # Idle /\ DueOf(job[w]) = 0
  BY IdleFacts DEF Abandon, DueOf
<1> QED BY <1>1, EndStep DEF Abandon

\* Opened, it knows the size of what it replaces.
LEMMA OpenStep == ASSUME Inv, NEW w \in Worker, Open(w) PROVE Inv'
<1> DEFINE q == job[w]
           j == [q EXCEPT !.at = "body", !.prev = BytesOf({q.dst})]
<1>1. /\ q \in Job /\ Shape(q) /\ files \in Disk
      /\ q.at \in {"start", "open"} /\ (q.at = "start" => q.kind = "put" /\ LocksFree(w))
      /\ Becomes(w, j) /\ UNCHANGED <<files, usage>>
  BY JobFacts DEF Open
<1>2. q.kind \in {"put", "copy"} /\ q.dst \in Path /\ (q.kind = "copy" => q.tree = {q.dst})
  BY <1>1 DEF Shape, Idle
<1>3. BytesOf({q.dst}) = Bytes(files)[q.dst] /\ BytesOf({q.dst}) \in Nat
  BY <1>1, <1>2, BytesOfTotal, BytesOfOne, BytesTyped
<1>4. /\ j \in Job /\ j.at = "body" /\ j.prev = Bytes(files)[j.dst]
      /\ j.kind = q.kind /\ j.src = q.src /\ j.dst = q.dst /\ j.tree = q.tree
      /\ j.conflict = q.conflict /\ j.used = q.used /\ j.tagged = q.tagged /\ j.solo = q.solo
  BY <1>1, <1>3 DEF Job, Steps
<1> HIDE DEF j
<1>5. GoesOn(w, j)
  <2>1. Shape(j)
    BY <1>1, <1>2, <1>4 DEF Shape
  <2>2. LockNames(j) = LockNames(q) /\ Touched(j) = Touched(q)
    BY <1>4, SameFiles
  <2>3. Underway(q) \/ LocksFree(w)
    BY <1>1 DEF Underway
  <2> QED BY <1>4, <2>1, <2>2, <2>3 DEF GoesOn
<1>6. job[w] # Idle /\ DueOf(j) = 0 /\ DueOf(q) = 0
  BY <1>1, <1>4, IdleFacts DEF DueOf
<1>7. Knows(j, files)
  BY <1>4 DEF Knows
<1>8. j.solo /\ Quota > 0 => Fits(j, usage)
  <2>1. q.solo /\ Quota > 0 => Fits(q, usage)
    BY JobFacts
  <2> QED BY <1>1, <1>2, <1>4, <2>1 DEF Fits
<1> QED BY <1>1, <1>5, <1>6, <1>7, <1>8, QuietStep

\* The row and what it was left behind are the bytes of the files when nothing is due.
LEMMA RowExact ==
  ASSUME Inv, clean, \A v \in Worker : DueOf(job[v]) = 0
  PROVE  usage + drift = Total(Bytes(files), Path)
<1>1. \A v \in Worker : Due[v] = 0
  BY DEF Due, DueOf
<1>2. Total(Due, Worker) = 0
  BY <1>1, TotalZero, UsageAssumption
<1>3. usage + Total(Due, Worker) + drift = Total(Bytes(files), Path)
  BY BytesOfTotal DEF Inv, Accounted
<1> QED BY <1>2, <1>3 DEF Inv, TypeOK

\* So it is when the only request owes nothing.
LEMMA RowExactAlone ==
  ASSUME Inv, clean, NEW w \in Worker, job[w].solo, DueOf(job[w]) = 0
  PROVE  usage + drift = Total(Bytes(files), Path)
<1>1. Alone(w)
  BY DEF Inv
<1> QED BY <1>1, RowExact, IdleFacts DEF Alone

\* The body is refused, or the temporary file holds n bytes.
LEMMA BodyStep ==
  ASSUME Inv, NEW w \in Worker, NEW n \in 0 .. job[w].size, Body(w, n)
  PROVE  Inv'
<1> DEFINE q == job[w]
           j == [q EXCEPT !.at = "publish", !.count = n]
<1>1. /\ q \in Job /\ Shape(q) /\ files \in Disk /\ q.at = "body"
      /\ UNCHANGED <<files, usage>>
      /\ job[w] # Idle /\ DueOf(q) = 0
  BY JobFacts, IdleFacts DEF Body, DueOf
<1>2. CASE Exceeds(q, n)
  BY <1>1, <1>2, EndStep DEF Body
<1>3. CASE ~Exceeds(q, n)
  <2>1. Becomes(w, j)
    BY <1>3 DEF Body
  <2>2. q.kind \in {"put", "copy"} /\ n \in Nat /\ q.dst \in Path
    BY <1>1 DEF Shape, Idle, Job
  <2>3. /\ j \in Job /\ j.at = "publish" /\ j.prev = q.prev /\ j.count = n
        /\ j.kind = q.kind /\ j.src = q.src /\ j.dst = q.dst /\ j.tree = q.tree
        /\ j.conflict = q.conflict /\ j.tagged = q.tagged /\ j.solo = q.solo
    BY <1>1, <2>2 DEF Job, Steps
  <2> HIDE DEF j
  <2>4. GoesOn(w, j)
    <3>1. Shape(j)
      BY <1>1, <2>2, <2>3 DEF Shape, Idle
    <3>2. Underway(q)
      BY <1>1 DEF Underway
    <3> QED BY <2>3, <3>1, <3>2, SameFiles DEF GoesOn
  <2>5. clean \/ j.solo => Knows(j, files)
    <3>1. clean \/ q.solo => Knows(q, files)
      BY JobFacts
    <3> QED BY <1>1, <2>3, <3>1 DEF Knows
  <2>6. j.solo /\ Quota > 0 => Fits(j, usage)
    <3> SUFFICES ASSUME q.solo, Quota > 0 PROVE Fits(j, usage)
      BY <2>3
    <3>1. q.used = usage
      BY <1>1, <2>2, JobFacts DEF Fits
    <3>2. n = 0 \/ usage + n - q.prev <= Quota
      <4>1. ~(n > 0 /\ q.used + n - q.prev > Quota)
        BY <1>3 DEF Exceeds
      <4>2. q.prev \in Int /\ usage \in Int /\ Quota \in Int /\ n \in Nat
        BY <1>1, <2>2, JobFacts, UsageAssumption DEF Job
      <4> QED BY <3>1, <4>1, <4>2
    <3> QED BY <2>3, <3>2 DEF Fits
  <2> QED BY <1>1, <2>1, <2>3, <2>4, <2>5, <2>6, QuietStep DEF DueOf
<1> QED BY <1>2, <1>3

\* What goes away is measured; a copy has its source by then.
LEMMA MeasureStep == ASSUME Inv, NEW w \in Worker, Measure(w) PROVE Inv'
<1> DEFINE q == job[w]
           found == IF q.kind = "copy" THEN q.src \in Existing
                    ELSE q.kind = "move" \/ q.tree \cap Existing # {}
           next == IF q.tree \cap Existing # {} THEN "remove"
                   ELSE IF q.kind = "copy" THEN "open" ELSE "rename"
           n == IF q.kind = "copy" THEN BytesOf({q.src}) ELSE 0
           j == [q EXCEPT !.at = next, !.delta = -BytesOf(q.tree), !.size = n]
<1>1. /\ q \in Job /\ Shape(q) /\ files \in Disk /\ q.at = "start" /\ LocksFree(w)
      /\ q.kind \in {"delete", "copy", "move", "panelDelete"}
      /\ UNCHANGED <<files, usage>>
      /\ job[w] # Idle /\ DueOf(q) = 0
  BY JobFacts, IdleFacts DEF Measure, DueOf
<1>2. CASE ~found
  BY <1>1, <1>2, EndStep DEF Measure
<1>3. CASE found
  <2>1. Becomes(w, j)
    BY <1>3 DEF Measure
  <2>2. BytesOf(q.tree) = Total(Bytes(files), q.tree) /\ BytesOf(q.tree) \in Nat
    BY <1>1, BytesOfTotal, BytesTyped DEF Job
  <2>3. n \in Nat
    <3>1. CASE q.kind = "copy"
      <4>1. {q.src} \in SUBSET Path
        BY <1>3, <3>1 DEF Existing
      <4>2. Total(Bytes(files), {q.src}) \in Nat
        BY <1>1, <4>1, BytesTyped
      <4> QED BY <3>1, <4>2, BytesOfTotal
    <3>2. CASE q.kind # "copy"
      BY <3>2
    <3> QED BY <3>1, <3>2
  <2>4. next \in Steps /\ -BytesOf(q.tree) \in Int
    BY <2>2 DEF Steps
  <2> HIDE DEF n
  <2>5. /\ j \in Job /\ j.at = next /\ j.delta = -BytesOf(q.tree)
        /\ j.kind = q.kind /\ j.src = q.src /\ j.dst = q.dst /\ j.tree = q.tree
        /\ j.conflict = q.conflict /\ j.used = q.used /\ j.tagged = q.tagged /\ j.solo = q.solo
    <3> HIDE DEF next, found
    <3> QED BY <1>1, <2>3, <2>4 DEF Job
  <2> HIDE DEF j
  <2>6. GoesOn(w, j)
    <3>1. Shape(j)
      BY <1>1, <1>3, <2>5 DEF Shape
    <3>2. j.at # "idle"
      BY <2>5
    <3> QED BY <1>1, <2>5, <3>1, <3>2, SameFiles DEF GoesOn
  <2>7. Knows(j, files)
    BY <2>2, <2>5 DEF Knows
  <2>8. j.solo /\ Quota > 0 => Fits(j, usage)
    <3>1. q.solo /\ Quota > 0 => (q.kind = "copy" => q.used = usage)
      BY <1>1, JobFacts DEF Fits
    <3> QED BY <1>1, <2>5, <3>1 DEF Fits
  <2>9. DueOf(j) = 0
    BY <2>5 DEF DueOf
  <2> QED BY <1>1, <2>1, <2>6, <2>7, <2>8, <2>9, QuietStep
<1> QED BY <1>2, <1>3

\* FileAction has seen both sizes, and that there is room.
LEMMA CheckStep == ASSUME Inv, NEW w \in Worker, Check(w) PROVE Inv'
<1> DEFINE q == job[w]
           delta == (IF q.kind = "panelCopy" THEN BytesOf({q.src}) ELSE 0) - BytesOf({q.dst})
           stops == IF q.kind = "panelCopy" THEN q.src \notin Existing ELSE q.src = q.dst
           exceeds == Quota > 0 /\ usage + delta > Quota
           j == [q EXCEPT !.at = "apply", !.delta = delta]
<1>1. /\ q \in Job /\ Shape(q) /\ files \in Disk /\ q.at = "start"
      /\ q.kind \in {"panelCopy", "panelMove"}
      /\ UNCHANGED <<files, usage>>
      /\ job[w] # Idle /\ DueOf(q) = 0
  BY JobFacts, IdleFacts DEF Check, DueOf
<1>2. CASE stops \/ exceeds
  BY <1>1, <1>2, EndStep DEF Check
<1>3. CASE ~(stops \/ exceeds)
  <2>1. Becomes(w, j)
    BY <1>3 DEF Check
  <2>2. {q.src, q.dst} \subseteq Path /\ (q.kind = "panelMove" => q.src # q.dst)
    BY <1>1, <1>3 DEF Shape
  <2>3. /\ BytesOf({q.src}) = Bytes(files)[q.src] /\ BytesOf({q.src}) \in Nat
        /\ BytesOf({q.dst}) = Bytes(files)[q.dst] /\ BytesOf({q.dst}) \in Nat
    BY <1>1, <2>2, BytesOfTotal, BytesOfOne, BytesTyped
  <2>4. /\ delta = (IF q.kind = "panelCopy" THEN Bytes(files)[q.src] ELSE 0) - Bytes(files)[q.dst]
        /\ delta \in Int
    BY <2>3
  <2>5. Quota > 0 => usage + delta <= Quota
    <3>1. usage \in Int /\ Quota \in Int
      BY JobFacts, UsageAssumption
    <3> QED BY <1>3, <2>4, <3>1
  <2> HIDE DEF delta
  <2>6. /\ j \in Job /\ j.at = "apply" /\ j.delta = delta
        /\ j.kind = q.kind /\ j.src = q.src /\ j.dst = q.dst /\ j.tree = q.tree
        /\ j.conflict = q.conflict /\ j.tagged = q.tagged /\ j.solo = q.solo
    BY <1>1, <2>4 DEF Job, Steps
  <2> HIDE DEF j
  <2>7. GoesOn(w, j)
    <3>1. Shape(j)
      BY <1>1, <2>2, <2>6 DEF Shape
    <3>2. LocksFree(w)
      BY <1>1 DEF LocksFree, LockNames
    <3> QED BY <2>6, <3>1, <3>2, SameFiles DEF GoesOn
  <2>8. Knows(j, files)
    BY <2>4, <2>6 DEF Knows
  <2>9. j.solo /\ Quota > 0 => Fits(j, usage)
    BY <1>1, <2>5, <2>6 DEF Fits
  <2>10. DueOf(j) = 0
    BY <2>6 DEF DueOf
  <2> QED BY <1>1, <2>1, <2>7, <2>8, <2>9, <2>10, QuietStep
<1> QED BY <1>2, <1>3

\* The upload has found a name, for which it knows what it will replace.
LEMMA CompleteStep == ASSUME Inv, NEW w \in Worker, Complete(w) PROVE Inv'
<1> DEFINE q == job[w]
<1>1. /\ q \in Job /\ Shape(q) /\ files \in Disk /\ q.at = "session" /\ q.kind = "upload"
      /\ q.dst \in Path
      /\ UNCHANGED <<files, usage>>
      /\ job[w] # Idle /\ DueOf(q) = 0
  BY JobFacts, IdleFacts DEF Complete, DueOf, Shape
<1>2. CASE Becomes(w, Idle)
  BY <1>1, <1>2, EndStep
<1>3. ASSUME NEW p \in Path, p = q.dst \/ (q.conflict = "rename" /\ p \in Spare),
             q.conflict # "overwrite" => p \notin Existing,
             Becomes(w, [q EXCEPT !.at = "place", !.dst = p])
      PROVE  Inv'
  <2> DEFINE j == [q EXCEPT !.at = "place", !.dst = p]
  <2>1. /\ j \in Job /\ j.at = "place" /\ j.dst = p /\ j.kind = "upload"
        /\ j.prev = q.prev /\ j.size = q.size /\ Becomes(w, j)
        /\ j.conflict = q.conflict /\ j.tagged = q.tagged /\ j.solo = q.solo
    BY <1>1, <1>3 DEF Job, Steps
  <2> HIDE DEF j
  <2>2. GoesOn(w, j)
    <3>1. Shape(j)
      BY <2>1 DEF Shape
    <3>2. LockNames(j) = LockNames(q)
      BY <1>1, <2>1 DEF LockNames
    <3>3. Touched(j) \subseteq Touched(q)
      BY <1>1, <1>3, <2>1 DEF Touched
    <3>4. Underway(q) /\ Idle.at = "idle"
      BY <1>1, IdleFacts DEF Underway
    <3> QED BY <2>1, <3>1, <3>2, <3>3, <3>4 DEF GoesOn
  <2>3. clean \/ j.solo => Knows(j, files)
    <3> SUFFICES ASSUME clean \/ q.solo PROVE q.prev = Bytes(files)[p]
      BY <2>1 DEF Knows
    <3>1. Knows(q, files)
      BY JobFacts
    <3>2. CASE q.conflict = "overwrite"
      BY <1>1, <1>3, <3>1, <3>2 DEF Knows
    <3>3. CASE q.conflict # "overwrite"
      BY <1>1, <1>3, <3>1, <3>3 DEF Knows, Existing, Bytes
    <3> QED BY <3>2, <3>3
  <2>4. j.solo /\ Quota > 0 => Fits(j, usage)
    <3>1. q.solo /\ Quota > 0 => Fits(q, usage)
      BY JobFacts
    <3> QED BY <1>1, <2>1, <3>1 DEF Fits
  <2>5. DueOf(j) = 0
    BY <2>1 DEF DueOf
  <2> QED BY <1>1, <2>1, <2>2, <2>3, <2>4, <2>5, QuietStep
<1>4. CASE q.dst \notin Existing
  <2>1. Becomes(w, [q EXCEPT !.at = "place"]) /\ q = [q EXCEPT !.dst = q.dst]
    BY <1>1, <1>4 DEF Complete, Job
  <2>2. [q EXCEPT !.at = "place"] = [q EXCEPT !.at = "place", !.dst = q.dst]
    BY <1>1 DEF Job
  <2> HIDE DEF q
  <2>3. Becomes(w, [q EXCEPT !.at = "place", !.dst = q.dst])
    BY <2>1, <2>2
  <2> QED BY <1>1, <1>3, <1>4, <2>3
<1>5. CASE q.dst \in Existing /\ q.conflict = "rename"
  <2>1. PICK p \in UniqueNames(q.dst) : Becomes(w, [q EXCEPT !.at = "place", !.dst = p])
    BY <1>1, <1>5 DEF Complete
  <2>2. p \in Path /\ p \in Spare /\ p \notin Existing
    BY <2>1, UsageAssumption DEF UniqueNames
  <2> HIDE DEF q
  <2> QED BY <1>3, <1>5, <2>1, <2>2
<1>6. CASE q.dst \in Existing /\ q.conflict = "overwrite"
  <2>1. Becomes(w, [q EXCEPT !.at = "place"])
    BY <1>1, <1>6 DEF Complete
  <2>2. [q EXCEPT !.at = "place"] = [q EXCEPT !.at = "place", !.dst = q.dst]
    BY <1>1 DEF Job
  <2> HIDE DEF q
  <2>3. Becomes(w, [q EXCEPT !.at = "place", !.dst = q.dst])
    BY <2>1, <2>2
  <2> QED BY <1>1, <1>3, <1>6, <2>3
<1>7. CASE q.dst \in Existing /\ q.conflict = "skip"
  BY <1>2, <1>7 DEF Complete
<1>8. q.conflict \in {"overwrite", "skip", "rename"}
  BY <1>1 DEF Job
<1> QED BY <1>4, <1>5, <1>6, <1>7, <1>8

\* What is counted and what is left to walk are all files.
LEMMA WalkStep == ASSUME Inv, NEW w \in Worker, NEW p \in Path, Walk(w, p) PROVE Inv'
<1> DEFINE q == job[w]
           rest == q.tree \ {p}
           found == [q EXCEPT !.tree = rest, !.size = q.size + files[p],
                              !.at = IF rest = {} THEN "set" ELSE "walk"]
           missed == [q EXCEPT !.tree = {}, !.at = "set"]
<1>1. /\ q \in Job /\ Shape(q) /\ files \in Disk /\ q.at = "walk" /\ p \in q.tree
      /\ q.kind = "recalculate" /\ q.tree \subseteq Path
      /\ UNCHANGED <<files, usage>>
      /\ job[w] # Idle /\ DueOf(q) = 0 /\ Underway(q)
  BY JobFacts, IdleFacts DEF Walk, DueOf, Shape, Job, Underway
<1>2. ASSUME NEW j \in Job, Becomes(w, j), j.at \in {"set", "walk"}, j.kind = "recalculate",
             j.solo = q.solo, j.tagged = q.tagged,
             clean \/ q.solo => Knows(j, files)
      PROVE  Inv'
  <2>1. /\ Shape(j) /\ LockNames(j) = LockNames(q) /\ Touched(j) = Touched(q)
        /\ DueOf(j) = 0 /\ j.at # "idle" /\ Fits(j, usage)
    BY <1>1, <1>2 DEF Shape, LockNames, Touched, DueOf, Fits
  <2>2. GoesOn(w, j)
    BY <1>1, <1>2, <2>1 DEF GoesOn
  <2> QED BY <1>1, <1>2, <2>1, <2>2, QuietStep
<1>3. CASE p \in Existing
  <2>1. Becomes(w, found)
    BY <1>3 DEF Walk
  <2>2. files[p] \in Nat /\ files[p] = Bytes(files)[p]
    BY <1>1, <1>3 DEF Existing, Disk, Bytes
  <2>3. /\ found \in Job /\ found.kind = q.kind /\ found.solo = q.solo /\ found.tagged = q.tagged
        /\ found.tree = rest /\ found.size = q.size + files[p]
        /\ found.at = IF rest = {} THEN "set" ELSE "walk"
    <3> DEFINE n == q.size + files[p]
               at == IF rest = {} THEN "set" ELSE "walk"
    <3>1. n \in Nat /\ at \in Steps /\ rest \in SUBSET Path
      BY <1>1, <2>2 DEF Job, Steps
    <3>2. found = [q EXCEPT !.tree = rest, !.size = n, !.at = at]
      OBVIOUS
    <3> HIDE DEF n, at, rest, found
    <3>3. /\ found \in Job /\ found.kind = q.kind /\ found.solo = q.solo /\ found.tagged = q.tagged
          /\ found.tree = rest /\ found.size = n /\ found.at = at
      BY <1>1, <3>1, <3>2 DEF Job
    <3> QED BY <3>3 DEF n, at
  <2> HIDE DEF found
  <2>4. clean \/ q.solo => Knows(found, files)
    <3>1. Total(Bytes(files), q.tree) = Bytes(files)[p] + Total(Bytes(files), rest)
      <4>1. IsFiniteSet(q.tree) /\ \A x \in q.tree : Bytes(files)[x] \in Int
        BY <1>1, BytesTyped
      <4> QED BY <1>1, <4>1, TotalTake
    <3>2. /\ q.size \in Nat /\ Bytes(files)[p] \in Nat /\ Total(Bytes(files), rest) \in Nat
      BY <1>1, BytesTyped DEF Job
    <3>3. clean \/ q.solo => Knows(q, files)
      BY JobFacts
    <3>4. clean \/ q.solo => found.size + Total(Bytes(files), rest) = Total(Bytes(files), Path)
      BY <1>1, <2>2, <2>3, <3>1, <3>2, <3>3 DEF Knows
    <3> QED BY <1>1, <2>3, <3>3, <3>4 DEF Knows
  <2> QED BY <1>1, <1>2, <2>1, <2>3, <2>4
<1>4. CASE p \notin Existing
  <2>1. Becomes(w, missed)
    BY <1>4 DEF Walk
  <2>2. /\ missed \in Job /\ missed.kind = q.kind /\ missed.solo = q.solo
        /\ missed.tagged = q.tagged /\ missed.at = "set"
    BY <1>1 DEF Job, Steps
  <2> HIDE DEF missed
  <2>3. ~(clean \/ q.solo)
    <3>1. Knows(q, files) => files[p] # Absent
      BY <1>1 DEF Knows
    <3> QED BY <1>1, <1>4, <3>1, JobFacts DEF Existing
  <2> QED BY <1>1, <1>2, <2>1, <2>2, <2>3
<1> QED BY <1>3, <1>4

-----------------------------------------------------------------------------
(* Steps that change the files.                                            *)

\* A file is written.
LEMMA WriteFacts ==
  ASSUME NEW f \in Disk, NEW p \in Path, NEW n \in Nat
  PROVE  /\ [f EXCEPT ![p] = n] \in Disk
         /\ \A r \in Path \ {p} : [f EXCEPT ![p] = n][r] = f[r]
         /\ Total(Bytes([f EXCEPT ![p] = n]), Path) = Total(Bytes(f), Path) - Bytes(f)[p] + n
         /\ Total(Bytes(f), Path) \in Nat /\ Bytes(f)[p] \in Nat
<1> DEFINE g == [f EXCEPT ![p] = n]
<1>1. g \in Disk /\ g[p] = n /\ \A r \in Path \ {p} : g[r] = f[r]
  BY DEF Disk
<1> HIDE DEF g
<1>2. Bytes(g)[p] = n
  BY <1>1 DEF Bytes, Absent
<1>3. /\ Total(Bytes(g), {p}) = Bytes(g)[p] /\ Total(Bytes(f), {p}) = Bytes(f)[p]
      /\ {p} \in SUBSET Path
  BY <1>1, BytesOfOne
<1>4. Total(Bytes(g), Path) = Total(Bytes(f), Path) - Total(Bytes(f), {p}) + Total(Bytes(g), {p})
  BY <1>1, <1>3, BytesChange
<1>5. Total(Bytes(f), Path) \in Nat /\ Bytes(f)[p] \in Nat
  BY BytesTyped
<1>6. Total(Bytes(g), Path) = Total(Bytes(f), Path) - Bytes(f)[p] + n
  BY <1>2, <1>3, <1>4
<1> QED BY <1>1, <1>5, <1>6 DEF g

\* A file goes to another name.
LEMMA MoveFacts ==
  ASSUME NEW f \in Disk, NEW g \in Disk, NEW src \in Path, NEW dst \in Path, src # dst,
         g[dst] = f[src], g[src] = Absent, \A r \in Path \ {src, dst} : g[r] = f[r]
  PROVE  /\ Total(Bytes(g), Path) = Total(Bytes(f), Path) - Bytes(f)[dst]
         /\ Total(Bytes(f), Path) \in Nat /\ Bytes(f)[dst] \in Nat
<1>2. /\ Bytes(g)[src] = 0 /\ Bytes(g)[dst] = Bytes(f)[src]
      /\ Bytes(g)[src] \in Nat /\ Bytes(g)[dst] \in Nat
      /\ Bytes(f)[src] \in Nat /\ Bytes(f)[dst] \in Nat
  BY BytesTyped DEF Bytes
<1>3. {src, dst} \in SUBSET Path /\ IsFiniteSet({src, dst}) /\ {src, dst} \ {src} = {dst}
  BY UsageAssumption, FS_Subset
<1>4. Total(Bytes(g), {src, dst}) = Bytes(g)[src] + Bytes(g)[dst]
  <2>1. Total(Bytes(g), {src, dst}) = Bytes(g)[src] + Total(Bytes(g), {src, dst} \ {src})
    <3>1. \A r \in {src, dst} : Bytes(g)[r] \in Int
      BY <1>2
    <3> QED BY <1>3, <3>1, TotalTake
  <2> QED BY <1>3, <2>1, BytesOfOne
<1>5. Total(Bytes(f), {src, dst}) = Bytes(f)[src] + Bytes(f)[dst]
  <2>1. Total(Bytes(f), {src, dst}) = Bytes(f)[src] + Total(Bytes(f), {src, dst} \ {src})
    <3>1. \A r \in {src, dst} : Bytes(f)[r] \in Int
      BY <1>2
    <3> QED BY <1>3, <3>1, TotalTake
  <2> QED BY <1>3, <2>1, BytesOfOne
<1>6. Total(Bytes(g), Path)
        = Total(Bytes(f), Path) - Total(Bytes(f), {src, dst}) + Total(Bytes(g), {src, dst})
  BY <1>3, BytesChange
<1>7. Total(Bytes(f), Path) \in Nat
  BY BytesTyped
<1>8. Total(Bytes(g), Path) = Total(Bytes(f), Path) - Bytes(f)[dst]
  BY <1>2, <1>4, <1>5, <1>6, <1>7
<1> QED BY <1>2, <1>7, <1>8

\* Files are removed.
LEMMA RemoveFacts ==
  ASSUME NEW f \in Disk, NEW R \in SUBSET Path
  PROVE  LET g == [p \in Path |-> IF p \in R THEN Absent ELSE f[p]]
         IN  /\ g \in Disk
             /\ \A r \in Path \ R : g[r] = f[r]
             /\ Total(Bytes(g), Path) = Total(Bytes(f), Path) - Total(Bytes(f), R)
             /\ Total(Bytes(f), Path) \in Nat /\ Total(Bytes(f), R) \in Nat
<1> DEFINE g == [p \in Path |-> IF p \in R THEN Absent ELSE f[p]]
<1>1. g \in Disk /\ \A r \in Path \ R : g[r] = f[r]
  BY DEF Disk
<1>2. \A r \in R : Bytes(g)[r] = 0
  BY DEF Bytes
<1> HIDE DEF g
<1>3. IsFiniteSet(R) /\ Total(Bytes(f), R) \in Nat /\ Total(Bytes(f), Path) \in Nat
  BY BytesTyped
<1>4. Total(Bytes(g), R) = 0
  BY <1>2, <1>3, TotalZero
<1>5. Total(Bytes(g), Path) = Total(Bytes(f), Path) - Total(Bytes(f), R) + Total(Bytes(g), R)
  BY <1>1, BytesChange
<1>6. Total(Bytes(g), Path) = Total(Bytes(f), Path) - Total(Bytes(f), R)
  BY <1>3, <1>4, <1>5
<1> QED BY <1>1, <1>3, <1>6 DEF g

\* A request under way that goes on for the same files.
LEMMA Continues ==
  ASSUME NEW w \in Worker, Underway(job[w]), NEW j \in Job, Shape(j), j.at # "idle",
         j.kind = job[w].kind, j.src = job[w].src, j.dst = job[w].dst, j.tree = job[w].tree,
         j.conflict = job[w].conflict, j.tagged = job[w].tagged, j.solo = job[w].solo
  PROVE  GoesOn(w, j)
<1>1. LockNames(j) = LockNames(job[w]) /\ Touched(j) = Touched(job[w])
  BY SameFiles
<1> QED BY <1>1 DEF GoesOn

\* A request under way changes files or the row, and leaves the row n bytes more behind.
LEMMA WorkStep ==
  ASSUME Inv, NEW w \in Worker, Underway(job[w]), NEW j, GoesOn(w, j), NEW n \in Int,
         Drifts(w, j, n) \/ (Becomes(w, j) /\ n = 0),
         files' \in Disk, usage' \in Int,
         \A p \in Path \ Touched(job[w]) : files'[p] = files[p],
         clean \/ j.solo => Knows(j, files'),
         clean => usage' + DueOf(j) + n + Total(Bytes(files), Path)
                    = usage + DueOf(job[w]) + Total(Bytes(files'), Path),
         j.solo /\ Quota > 0 => Fits(j, usage')
  PROVE  Inv'
<1>1. /\ job' = [job EXCEPT ![w] = j] /\ requests' = requests /\ clean' = clean
      /\ clean => drift' = drift + n
      /\ drift' \in Int /\ drift \in Int /\ usage \in Int /\ files \in Disk
  BY JobFacts DEF Drifts, Becomes
<1>2. /\ Total(Bytes(files), Path) \in Int /\ Total(Bytes(files'), Path) \in Int
      /\ DueOf(j) \in Int /\ DueOf(job[w]) \in Int
  BY <1>1, BytesTyped, JobFacts DEF DueOf, GoesOn, Job
<1>3. clean => usage' + DueOf(j) + drift' + Total(Bytes(files), Path)
                 = usage + DueOf(job[w]) + drift + Total(Bytes(files'), Path)
  BY <1>1, <1>2
<1>4. job[w] # Idle
  BY IdleFacts
<1>5. Steady(w, j)
  BY <1>1, <1>3, <1>4 DEF Steady
<1> QED BY <1>5, JobStep

\* The request ends so.
LEMMA WorkEnds ==
  ASSUME Inv, NEW w \in Worker, Underway(job[w]), NEW n \in Int,
         Drifts(w, Idle, n) \/ (Becomes(w, Idle) /\ n = 0),
         files' \in Disk, usage' \in Int,
         \A p \in Path \ Touched(job[w]) : files'[p] = files[p],
         clean => usage' + n + Total(Bytes(files), Path)
                    = usage + DueOf(job[w]) + Total(Bytes(files'), Path)
  PROVE  Inv'
<1>1. GoesOn(w, Idle)
  BY IdleFacts DEF GoesOn
<1>2. DueOf(Idle) = 0
  BY IdleFacts
<1>3. clean => usage' + DueOf(Idle) + n + Total(Bytes(files), Path)
                 = usage + DueOf(job[w]) + Total(Bytes(files'), Path)
  <2> DEFINE u == usage'
  <2>1. u + 0 = u
    <3>1. u \in Int
      OBVIOUS
    <3> HIDE DEF u
    <3> QED BY <3>1
  <2> QED BY <1>2, <2>1
<1> QED BY <1>1, <1>2, <1>3, WorkStep, IdleFacts, IdleFits

\* The temporary file takes its place; what it differs in size is due.
LEMMA PublishStep == ASSUME Inv, NEW w \in Worker, Publish(w) PROVE Inv'
<1> DEFINE q == job[w]
           p == q.dst
           n == q.count
           d == q.count - q.prev
           j == [q EXCEPT !.at = "commit", !.delta = d]
<1>1. /\ q \in Job /\ Shape(q) /\ files \in Disk /\ usage \in Int /\ q.at = "publish"
      /\ DueOf(q) = 0 /\ Underway(q)
      /\ files' = [files EXCEPT ![p] = n] /\ Becomes(w, j) /\ usage' = usage
  BY JobFacts DEF Publish, DueOf, Underway
<1>2. /\ q.kind \in {"put", "copy"} /\ p \in Path /\ p \in Touched(q)
      /\ n \in Nat /\ q.prev \in Nat /\ d \in Int /\ d = n - q.prev
  BY <1>1, TouchedPaths DEF Job
<1>3. /\ j \in Job /\ j.at = "commit" /\ j.delta = d
      /\ j.kind = q.kind /\ j.src = q.src /\ j.dst = q.dst /\ j.tree = q.tree
      /\ j.conflict = q.conflict /\ j.tagged = q.tagged /\ j.solo = q.solo
  <2> HIDE DEF d
  <2> QED BY <1>1, <1>2 DEF Job, Steps
<1> HIDE DEF j
<1>4. GoesOn(w, j)
  <2>1. Shape(j)
    BY <1>1, <1>2, <1>3 DEF Shape
  <2> QED BY <1>1, <1>3, <2>1, Continues
<1>5. Knows(j, files') /\ Fits(j, usage') /\ DueOf(j) = d
  BY <1>2, <1>3 DEF Knows, Fits, DueOf
<1>6. clean => q.prev = Bytes(files)[p]
  BY <1>1, JobFacts DEF Knows
<1> HIDE DEF q, p, n, d
<1>7. /\ files' \in Disk /\ \A r \in Path \ {p} : files'[r] = files[r]
      /\ Total(Bytes(files'), Path) = Total(Bytes(files), Path) - Bytes(files)[p] + n
      /\ Total(Bytes(files), Path) \in Nat /\ Bytes(files)[p] \in Nat
  <2>1. files' \in Disk /\ \A r \in Path \ {p} : files'[r] = files[r]
    BY <1>1, <1>2 DEF Disk
  <2> DEFINE g == [files EXCEPT ![p] = n]
  <2>2. /\ Total(Bytes(g), Path) = Total(Bytes(files), Path) - Bytes(files)[p] + n
        /\ Total(Bytes(files), Path) \in Nat /\ Bytes(files)[p] \in Nat
    <3>1. files \in Disk /\ p \in Path /\ n \in Nat
      BY <1>1, <1>2
    <3> QED BY <3>1, WriteFacts
  <2>3. files' = g
    BY <1>1
  <2> HIDE DEF g
  <2> QED BY <2>1, <2>2, <2>3
<1>8. clean => usage' + DueOf(j) + 0 + Total(Bytes(files), Path)
                 = usage + DueOf(q) + Total(Bytes(files'), Path)
  BY <1>1, <1>2, <1>5, <1>6, <1>7
<1>9. \A r \in Path \ Touched(q) : files'[r] = files[r]
  BY <1>2, <1>7
<1> USE DEF q
<1>10. Becomes(w, j) /\ 0 \in Int /\ usage' \in Int /\ Underway(q)
  BY <1>1
<1>11. files' \in Disk
  BY <1>7
<1> QED BY <1>4, <1>5, <1>8, <1>9, <1>10, <1>11, WorkStep

\* The tree goes; what was measured is due.
LEMMA RemoveStep == ASSUME Inv, NEW w \in Worker, Remove(w) PROVE Inv'
<1> DEFINE q == job[w]
           j == [q EXCEPT !.at = "removed"]
<1>1. /\ q \in Job /\ Shape(q) /\ files \in Disk /\ usage \in Int /\ q.at = "remove"
      /\ DueOf(q) = 0 /\ Underway(q) /\ q.tree \in SUBSET Path
      /\ files' = [p \in Path |-> IF p \in q.tree THEN Absent ELSE files[p]]
      /\ Becomes(w, j) /\ usage' = usage
  BY JobFacts DEF Remove, DueOf, Underway, Job
<1>2. q.tree \subseteq Touched(q) /\ q.kind \in {"delete", "panelDelete", "copy", "move"}
  <2>1. q.tree \subseteq Touched(q)
    BY <1>1, TouchedPaths
  <2>2. q.kind \in {"delete", "panelDelete", "copy", "move"}
    BY <1>1 DEF Shape, Idle
  <2> QED BY <2>1, <2>2
<1>3. /\ files' \in Disk /\ \A p \in Path \ q.tree : files'[p] = files[p]
      /\ Total(Bytes(files'), Path) = Total(Bytes(files), Path) - Total(Bytes(files), q.tree)
      /\ Total(Bytes(files), Path) \in Nat /\ Total(Bytes(files), q.tree) \in Nat
  BY <1>1, RemoveFacts
<1>4. /\ j \in Job /\ j.at = "removed" /\ j.delta = q.delta
      /\ j.kind = q.kind /\ j.src = q.src /\ j.dst = q.dst /\ j.tree = q.tree
      /\ j.conflict = q.conflict /\ j.tagged = q.tagged /\ j.solo = q.solo /\ j.used = q.used
  BY <1>1 DEF Job, Steps
<1> HIDE DEF j
<1>5. GoesOn(w, j)
  <2>1. Shape(j)
    BY <1>1, <1>2, <1>4 DEF Shape
  <2> QED BY <1>1, <1>4, <2>1, Continues
<1>6. Knows(j, files') /\ DueOf(j) = q.delta
  BY <1>4 DEF Knows, DueOf
<1>7. clean => q.delta = -Total(Bytes(files), q.tree)
  BY <1>1, JobFacts DEF Knows
<1>8. clean => usage' + DueOf(j) + 0 + Total(Bytes(files), Path)
                 = usage + DueOf(q) + Total(Bytes(files'), Path)
  BY <1>1, <1>3, <1>6, <1>7
<1>9. j.solo /\ Quota > 0 => Fits(j, usage')
  <2>1. q.solo /\ Quota > 0 => Fits(q, usage)
    BY JobFacts
  <2> QED BY <1>1, <1>2, <1>4, <2>1 DEF Fits
<1>10. \A p \in Path \ Touched(q) : files'[p] = files[p]
  BY <1>2, <1>3
<1> QED BY <1>1, <1>3, <1>5, <1>6, <1>8, <1>9, <1>10, WorkStep

\* What has gone when a removal breaks off is left uncounted.
LEMMA RemoveFailsStep ==
  ASSUME Inv, NEW w \in Worker, NEW some \in SUBSET Path, RemoveFails(w, some)
  PROVE  Inv'
<1> DEFINE q == job[w]
<1>1. /\ q \in Job /\ Shape(q) /\ files \in Disk /\ usage \in Int /\ q.at = "remove"
      /\ DueOf(q) = 0 /\ Underway(q) /\ some \subseteq q.tree
      /\ files' = [p \in Path |-> IF p \in some THEN Absent ELSE files[p]]
      /\ Drifts(w, Idle, -BytesOf(some)) /\ usage' = usage
  BY JobFacts DEF RemoveFails, DueOf, Underway
<1>2. some \subseteq Touched(q)
  BY <1>1, TouchedPaths
<1>3. /\ files' \in Disk /\ \A p \in Path \ some : files'[p] = files[p]
      /\ Total(Bytes(files'), Path) = Total(Bytes(files), Path) - Total(Bytes(files), some)
      /\ Total(Bytes(files), Path) \in Nat /\ Total(Bytes(files), some) \in Nat
  BY <1>1, RemoveFacts
<1>4. BytesOf(some) = Total(Bytes(files), some)
  BY BytesOfTotal
<1>5. /\ -BytesOf(some) \in Int
      /\ usage' + -BytesOf(some) + Total(Bytes(files), Path)
           = usage + DueOf(q) + Total(Bytes(files'), Path)
  BY <1>1, <1>3, <1>4
<1>6. \A p \in Path \ Touched(q) : files'[p] = files[p]
  BY <1>2, <1>3
<1> QED BY <1>1, <1>3, <1>5, <1>6, WorkEnds

\* What was due is counted.
LEMMA CommitStep == ASSUME Inv, NEW w \in Worker, Commit(w) PROVE Inv'
<1> DEFINE q == job[w]
<1>1. /\ q \in Job /\ files \in Disk /\ usage \in Int /\ Underway(q)
      /\ DueOf(q) = q.delta /\ q.delta \in Int
      /\ usage' = usage + q.delta /\ Becomes(w, Idle) /\ files' = files
  BY JobFacts DEF Commit, DueOf, Job, Underway
<1>2. Total(Bytes(files), Path) \in Nat
  BY <1>1, BytesTyped
<1>3. /\ usage' \in Int
      /\ usage' + 0 + Total(Bytes(files), Path) = usage + DueOf(q) + Total(Bytes(files'), Path)
  BY <1>1, <1>2
<1> QED BY <1>1, <1>3, WorkEnds

\* What was due and cannot be counted is left behind.
LEMMA CommitFailsStep == ASSUME Inv, NEW w \in Worker, CommitFails(w) PROVE Inv'
<1> DEFINE q == job[w]
<1>1. /\ q \in Job /\ files \in Disk /\ usage \in Int /\ Underway(q)
      /\ DueOf(q) = q.delta /\ q.delta \in Int
      /\ usage' = usage /\ Drifts(w, Idle, q.delta) /\ files' = files
  BY JobFacts DEF CommitFails, DueOf, Job, Underway
<1>2. usage' + q.delta + Total(Bytes(files), Path) = usage + DueOf(q) + Total(Bytes(files'), Path)
  BY <1>1
<1> QED BY <1>1, <1>2, WorkEnds

\* A removal is counted, and the request ends or goes on with the row it has counted to.
LEMMA CommitRemovalStep == ASSUME Inv, NEW w \in Worker, CommitRemoval(w) PROVE Inv'
<1> DEFINE q == job[w]
           sum == q.used + q.delta
<1>1. /\ q \in Job /\ Shape(q) /\ files \in Disk /\ usage \in Int /\ q.at = "removed"
      /\ DueOf(q) = q.delta /\ q.delta \in Int /\ q.used \in Int /\ Underway(q)
      /\ usage' = usage + q.delta /\ files' = files
  BY JobFacts DEF CommitRemoval, DueOf, Job, Underway
<1>2. usage' \in Int /\ Total(Bytes(files), Path) \in Nat
  BY <1>1, BytesTyped
<1>3. ASSUME NEW j \in Job, GoesOn(w, j), Becomes(w, j), j.at \in {"idle", "open", "rename"},
             j.solo /\ Quota > 0 => Fits(j, usage')
      PROVE  Inv'
  <2>1. DueOf(j) = 0 /\ Knows(j, files')
    BY <1>3 DEF DueOf, Knows
  <2>2. usage' + DueOf(j) + 0 + Total(Bytes(files), Path)
          = usage + DueOf(q) + Total(Bytes(files'), Path)
    BY <1>1, <1>2, <2>1
  <2> QED BY <1>1, <1>2, <1>3, <2>1, <2>2, WorkStep
<1>4. CASE q.kind = "copy"
  <2> DEFINE j == [q EXCEPT !.at = "open", !.used = sum]
  <2>1. Becomes(w, j) /\ sum \in Int
    BY <1>1, <1>4 DEF CommitRemoval
  <2> HIDE DEF sum
  <2>2. /\ j \in Job /\ j.at = "open" /\ j.used = sum
        /\ j.kind = q.kind /\ j.src = q.src /\ j.dst = q.dst /\ j.tree = q.tree
        /\ j.conflict = q.conflict /\ j.tagged = q.tagged /\ j.solo = q.solo
    BY <1>1, <2>1 DEF Job, Steps
  <2> HIDE DEF j
  <2>3. GoesOn(w, j)
    <3>1. Shape(j)
      BY <1>1, <1>4, <2>2 DEF Shape
    <3> QED BY <1>1, <2>2, <3>1, Continues
  <2>4. j.solo /\ Quota > 0 => Fits(j, usage')
    <3> SUFFICES ASSUME q.solo, Quota > 0 PROVE Fits(j, usage')
      BY <2>2
    <3>1. q.used = usage
      BY <1>1, <1>4, JobFacts DEF Fits
    <3>2. j.used = usage'
      BY <1>1, <2>2, <3>1 DEF sum
    <3> QED BY <1>4, <2>2, <3>2 DEF Fits
  <2> QED BY <1>3, <2>1, <2>2, <2>3, <2>4
<1>5. CASE q.kind = "move"
  <2> DEFINE j == [q EXCEPT !.at = "rename"]
  <2>1. Becomes(w, j)
    BY <1>1, <1>5 DEF CommitRemoval
  <2>2. /\ j \in Job /\ j.at = "rename"
        /\ j.kind = q.kind /\ j.src = q.src /\ j.dst = q.dst /\ j.tree = q.tree
        /\ j.conflict = q.conflict /\ j.tagged = q.tagged /\ j.solo = q.solo
    BY <1>1 DEF Job, Steps
  <2> HIDE DEF j
  <2>3. GoesOn(w, j)
    <3>1. Shape(j)
      BY <1>1, <1>5, <2>2 DEF Shape
    <3> QED BY <1>1, <2>2, <3>1, Continues
  <2>4. Fits(j, usage')
    BY <1>5, <2>2 DEF Fits
  <2> QED BY <1>3, <2>1, <2>2, <2>3, <2>4
<1>6. CASE q.kind \notin {"copy", "move"}
  <2>1. Becomes(w, Idle)
    BY <1>1, <1>6 DEF CommitRemoval
  <2>2. GoesOn(w, Idle) /\ Fits(Idle, usage')
    BY IdleFacts, IdleFits DEF GoesOn
  <2> QED BY <1>3, <2>1, <2>2, IdleFacts
<1> QED BY <1>4, <1>5, <1>6

\* More of the payload is written than is counted; nothing else knows of it.
LEMMA ChunkCutStep ==
  ASSUME Inv, NEW w \in Worker, NEW n \in 1 .. MaxCut, ChunkCut(w, n)
  PROVE  Inv'
<1> DEFINE q == job[w]
           m == q.count + n
           j == [q EXCEPT !.count = m]
<1>1. /\ q \in Job /\ Shape(q) /\ files \in Disk /\ q.at = "session" /\ q # Idle
      /\ DueOf(q) = 0 /\ Underway(q) /\ q.kind = "upload"
      /\ Becomes(w, j) /\ UNCHANGED <<files, usage>> /\ n \in Nat
  BY JobFacts, IdleFacts, UsageAssumption DEF ChunkCut, DueOf, Underway, Shape
<1>2. m \in Nat
  BY <1>1 DEF Job
<1> HIDE DEF m
<1>3. /\ j \in Job /\ j.at = q.at /\ j.size = q.size /\ j.prev = q.prev
      /\ j.kind = q.kind /\ j.src = q.src /\ j.dst = q.dst /\ j.tree = q.tree
      /\ j.conflict = q.conflict /\ j.tagged = q.tagged /\ j.solo = q.solo
  BY <1>1, <1>2 DEF Job
<1> HIDE DEF j
<1>4. GoesOn(w, j)
  <2>1. Shape(j)
    BY <1>1, <1>3 DEF Shape
  <2> QED BY <1>1, <1>3, <2>1, Continues
<1>5. clean \/ j.solo => Knows(j, files)
  <2>1. clean \/ q.solo => Knows(q, files)
    BY JobFacts
  <2> QED BY <1>1, <1>3, <2>1 DEF Knows
<1>6. j.solo /\ Quota > 0 => Fits(j, usage)
  <2>1. q.solo /\ Quota > 0 => Fits(q, usage)
    BY JobFacts
  <2> QED BY <1>1, <1>3, <2>1 DEF Fits
<1>7. DueOf(j) = 0
  BY <1>1, <1>3 DEF DueOf
<1> QED BY <1>1, <1>4, <1>5, <1>6, <1>7, QuietStep

\* The payload takes its place; what was received is due, and what was not is left behind.
LEMMA PlaceStep == ASSUME Inv, NEW w \in Worker, Place(w) PROVE Inv'
<1> DEFINE q == job[w]
           d == q.size - q.prev
           c == q.count
           p == q.dst
           n == q.size + c
           j == [q EXCEPT !.at = "commit", !.delta = d]
<1>1. /\ q \in Job /\ Shape(q) /\ files \in Disk /\ usage \in Int /\ q.at = "place"
      /\ DueOf(q) = 0 /\ Underway(q)
      /\ files' = [files EXCEPT ![p] = n] /\ Drifts(w, j, c) /\ usage' = usage
  BY JobFacts DEF Place, DueOf, Underway
<1>2. /\ q.kind = "upload" /\ p \in Path /\ p \in Touched(q)
      /\ c \in Int /\ n \in Nat /\ q.prev \in Nat /\ d \in Int /\ n = d + q.prev + c
  BY <1>1, TouchedPaths DEF Job
<1>3. /\ j \in Job /\ j.at = "commit" /\ j.delta = d
      /\ j.kind = q.kind /\ j.src = q.src /\ j.dst = q.dst /\ j.tree = q.tree
      /\ j.conflict = q.conflict /\ j.tagged = q.tagged /\ j.solo = q.solo
  <2> HIDE DEF d
  <2> QED BY <1>1, <1>2 DEF Job, Steps
<1> HIDE DEF j
<1>4. GoesOn(w, j)
  <2>1. Shape(j)
    BY <1>1, <1>2, <1>3 DEF Shape
  <2> QED BY <1>1, <1>3, <2>1, Continues
<1>5. Knows(j, files') /\ Fits(j, usage') /\ DueOf(j) = d
  BY <1>2, <1>3 DEF Knows, Fits, DueOf
<1>6. clean => q.prev = Bytes(files)[p]
  BY <1>1, JobFacts DEF Knows
<1> HIDE DEF q, p, n, d, c
<1>7. /\ files' \in Disk /\ \A r \in Path \ {p} : files'[r] = files[r]
      /\ Total(Bytes(files'), Path) = Total(Bytes(files), Path) - Bytes(files)[p] + n
      /\ Total(Bytes(files), Path) \in Nat /\ Bytes(files)[p] \in Nat
  <2>1. files' \in Disk /\ \A r \in Path \ {p} : files'[r] = files[r]
    BY <1>1, <1>2 DEF Disk
  <2> DEFINE g == [files EXCEPT ![p] = n]
  <2>2. /\ Total(Bytes(g), Path) = Total(Bytes(files), Path) - Bytes(files)[p] + n
        /\ Total(Bytes(files), Path) \in Nat /\ Bytes(files)[p] \in Nat
    <3>1. files \in Disk /\ p \in Path /\ n \in Nat
      BY <1>1, <1>2
    <3> QED BY <3>1, WriteFacts
  <2>3. files' = g
    BY <1>1
  <2> HIDE DEF g
  <2> QED BY <2>1, <2>2, <2>3
<1>8. clean => usage' + DueOf(j) + c + Total(Bytes(files), Path)
                 = usage + DueOf(q) + Total(Bytes(files'), Path)
  BY <1>1, <1>2, <1>5, <1>6, <1>7
<1>9. \A r \in Path \ Touched(q) : files'[r] = files[r]
  BY <1>2, <1>7
<1> USE DEF q
<1> QED BY <1>1, <1>2, <1>4, <1>5, <1>7, <1>8, <1>9, WorkStep

\* A file is moved by a request under way that knows what its name replaces.
LEMMA MovedStep ==
  ASSUME Inv, NEW w \in Worker, Underway(job[w]), job[w].kind \in {"move", "panelMove"},
         job[w].src \in Existing, job[w].src # job[w].dst, DueOf(job[w]) = 0,
         Moved(job[w].src, job[w].dst), usage' = usage,
         NEW j \in Job, Becomes(w, j), Shape(j), j.at = "commit",
         j.kind = job[w].kind, j.src = job[w].src, j.dst = job[w].dst, j.tree = job[w].tree,
         j.conflict = job[w].conflict, j.tagged = job[w].tagged, j.solo = job[w].solo,
         clean => j.delta = -Bytes(files)[job[w].dst]
  PROVE  Inv'
<1> DEFINE q == job[w]
           p == q.src
           r == q.dst
<1>1. /\ q \in Job /\ Shape(q) /\ files \in Disk /\ usage \in Int
      /\ p \in Path /\ r \in Path /\ p # r /\ files[p] # Absent
      /\ {p, r} \subseteq Touched(q)
  BY JobFacts, TouchedPaths DEF Existing
<1>2. /\ files' \in Disk /\ files'[r] = files[p] /\ files'[p] = Absent
      /\ \A x \in Path \ {p, r} : files'[x] = files[x]
  BY <1>1 DEF Disk, Moved
<1>3. /\ Total(Bytes(files'), Path) = Total(Bytes(files), Path) - Bytes(files)[r]
      /\ Total(Bytes(files), Path) \in Nat /\ Bytes(files)[r] \in Nat
  BY <1>1, <1>2, MoveFacts
<1>4. GoesOn(w, j)
  BY Continues
<1>5. Knows(j, files') /\ Fits(j, usage') /\ DueOf(j) = j.delta
  BY DEF Knows, Fits, DueOf
<1>6. clean => usage' + DueOf(j) + 0 + Total(Bytes(files), Path)
                 = usage + DueOf(q) + Total(Bytes(files'), Path)
  BY <1>1, <1>3, <1>5
<1>7. \A x \in Path \ Touched(q) : files'[x] = files[x]
  BY <1>1, <1>2
<1> QED BY <1>1, <1>2, <1>4, <1>5, <1>6, <1>7, WorkStep

\* RestrictedFS.Rename looks at what it replaces when it moves the file.
LEMMA RenameStep == ASSUME Inv, NEW w \in Worker, Rename(w) PROVE Inv'
<1> DEFINE q == job[w]
           d == -BytesOf({q.dst})
           j == [q EXCEPT !.at = "commit", !.delta = d]
<1>1. /\ q \in Job /\ Shape(q) /\ files \in Disk /\ q.at = "rename" /\ q.kind = "move"
      /\ q # Idle /\ DueOf(q) = 0 /\ Underway(q) /\ q.dst \in Path /\ q.src # q.dst
      /\ usage' = usage
  BY JobFacts, IdleFacts DEF Rename, DueOf, Underway, Shape
<1>2. CASE q.src \notin Existing
  BY <1>1, <1>2, EndStep DEF Rename
<1>3. CASE q.src \in Existing
  <2>1. Moved(q.src, q.dst) /\ Becomes(w, j)
    BY <1>3 DEF Rename
  <2>2. d = -Bytes(files)[q.dst] /\ d \in Int
    BY <1>1, BytesOfTotal, BytesOfOne, BytesTyped
  <2> HIDE DEF d
  <2>3. /\ j \in Job /\ j.at = "commit" /\ j.delta = d
        /\ j.kind = q.kind /\ j.src = q.src /\ j.dst = q.dst /\ j.tree = q.tree
        /\ j.conflict = q.conflict /\ j.tagged = q.tagged /\ j.solo = q.solo
    BY <1>1, <2>2 DEF Job, Steps
  <2> HIDE DEF j
  <2>4. Shape(j)
    BY <1>1, <2>3 DEF Shape
  <2> QED BY <1>1, <1>3, <2>1, <2>2, <2>3, <2>4, MovedStep
<1> QED BY <1>2, <1>3

\* What the panel's request is like once it has been checked.
LEMMA ApplyFacts ==
  ASSUME Inv, NEW w \in Worker, job[w].kind \in {"panelCopy", "panelMove"},
         job[w].at = "apply", job[w].src \in Existing
  PROVE  LET q == job[w]
             j == [q EXCEPT !.at = "commit"]
         IN  /\ q \in Job /\ files \in Disk /\ usage \in Int /\ q.delta \in Int
             /\ DueOf(q) = 0 /\ Underway(q)
             /\ q.src \in Path /\ q.dst \in Path /\ q.dst \in Touched(q)
             /\ q.kind = "panelMove" => q.src # q.dst
             /\ j \in Job /\ j.at = "commit" /\ j.delta = q.delta /\ Shape(j)
             /\ j.kind = q.kind /\ j.src = q.src /\ j.dst = q.dst /\ j.tree = q.tree
             /\ j.conflict = q.conflict /\ j.tagged = q.tagged /\ j.solo = q.solo
             /\ GoesOn(w, j)
             /\ clean => q.delta = (IF q.kind = "panelCopy" THEN Bytes(files)[q.src] ELSE 0)
                                     - Bytes(files)[q.dst]
<1> DEFINE q == job[w]
           j == [q EXCEPT !.at = "commit"]
<1>1. q \in Job /\ Shape(q) /\ files \in Disk /\ usage \in Int /\ DueOf(q) = 0 /\ Underway(q)
  BY JobFacts DEF DueOf, Underway
<1>2. /\ q.delta \in Int /\ q.src \in Path /\ q.dst \in Path /\ q.dst \in Touched(q)
      /\ q.kind = "panelMove" => q.src # q.dst
  BY <1>1, TouchedPaths DEF Job, Shape
<1>3. /\ j \in Job /\ j.at = "commit" /\ j.delta = q.delta
      /\ j.kind = q.kind /\ j.src = q.src /\ j.dst = q.dst /\ j.tree = q.tree
      /\ j.conflict = q.conflict /\ j.tagged = q.tagged /\ j.solo = q.solo
  BY <1>1 DEF Job, Steps
<1> HIDE DEF j
<1>4. Shape(j)
  BY <1>1, <1>3 DEF Shape
<1>5. GoesOn(w, j)
  BY <1>1, <1>3, <1>4, Continues
<1>6. clean => q.delta = (IF q.kind = "panelCopy" THEN Bytes(files)[q.src] ELSE 0)
                           - Bytes(files)[q.dst]
  BY JobFacts DEF Knows
<1> QED BY <1>1, <1>2, <1>3, <1>4, <1>5, <1>6 DEF j

\* The panel moves the file.
LEMMA MoveFileStep == ASSUME Inv, NEW w \in Worker, MoveFile(w) PROVE Inv'
<1> DEFINE q == job[w]
           j == [q EXCEPT !.at = "commit"]
<1>1. /\ q.kind = "panelMove" /\ q.at = "apply" /\ q.src \in Existing
      /\ Moved(q.src, q.dst) /\ Becomes(w, j) /\ usage' = usage
  BY DEF MoveFile
<1>2. /\ q \in Job /\ files \in Disk /\ DueOf(q) = 0 /\ Underway(q)
      /\ q.dst \in Path /\ q.src # q.dst
      /\ j \in Job /\ j.at = "commit" /\ j.delta = q.delta /\ Shape(j)
      /\ j.kind = q.kind /\ j.src = q.src /\ j.dst = q.dst /\ j.tree = q.tree
      /\ j.conflict = q.conflict /\ j.tagged = q.tagged /\ j.solo = q.solo
      /\ clean => q.delta = 0 - Bytes(files)[q.dst]
  BY <1>1, ApplyFacts
<1> HIDE DEF j
<1>3. Bytes(files)[q.dst] \in Nat
  BY <1>2, BytesTyped
<1>4. clean => j.delta = -Bytes(files)[q.dst]
  BY <1>2, <1>3
<1> QED BY <1>1, <1>2, <1>4, MovedStep

\* The panel copies the file over the other, or over itself.
LEMMA CopyFileStep == ASSUME Inv, NEW w \in Worker, CopyFile(w) PROVE Inv'
<1> DEFINE q == job[w]
           p == q.dst
           n == IF q.src = q.dst THEN 0 ELSE files[q.src]
           d == n - files[q.src]
           j == [q EXCEPT !.at = "commit"]
<1>1. /\ q.kind = "panelCopy" /\ q.at = "apply" /\ q.src \in Existing
      /\ files' = [files EXCEPT ![p] = n] /\ Drifts(w, j, d) /\ usage' = usage
  BY DEF CopyFile
<1>2. /\ q \in Job /\ files \in Disk /\ usage \in Int /\ q.delta \in Int
      /\ DueOf(q) = 0 /\ Underway(q)
      /\ q.src \in Path /\ p \in Path /\ p \in Touched(q)
      /\ j.kind = q.kind /\ j.at = "commit" /\ j.delta = q.delta /\ GoesOn(w, j)
      /\ clean => q.delta = Bytes(files)[q.src] - Bytes(files)[p]
  BY <1>1, ApplyFacts
<1> HIDE DEF j
<1>3. /\ files[q.src] = Bytes(files)[q.src] /\ Bytes(files)[q.src] \in Nat
      /\ n \in Nat /\ d \in Int /\ d = n - Bytes(files)[q.src]
  BY <1>1, <1>2 DEF Existing, Disk, Bytes, Absent
<1>4. Knows(j, files') /\ Fits(j, usage') /\ DueOf(j) = q.delta
  BY <1>1, <1>2 DEF Knows, Fits, DueOf
<1> HIDE DEF q, p, n, d
<1>5. /\ files' \in Disk /\ \A r \in Path \ {p} : files'[r] = files[r]
      /\ Total(Bytes(files'), Path) = Total(Bytes(files), Path) - Bytes(files)[p] + n
      /\ Total(Bytes(files), Path) \in Nat /\ Bytes(files)[p] \in Nat
  <2>1. files' \in Disk /\ \A r \in Path \ {p} : files'[r] = files[r]
    BY <1>1, <1>2, <1>3 DEF Disk
  <2> DEFINE g == [files EXCEPT ![p] = n]
  <2>2. /\ Total(Bytes(g), Path) = Total(Bytes(files), Path) - Bytes(files)[p] + n
        /\ Total(Bytes(files), Path) \in Nat /\ Bytes(files)[p] \in Nat
    <3>1. files \in Disk /\ p \in Path /\ n \in Nat
      BY <1>1, <1>2, <1>3
    <3> QED BY <3>1, WriteFacts
  <2>3. files' = g
    BY <1>1
  <2> HIDE DEF g
  <2> QED BY <2>1, <2>2, <2>3
<1>6. clean => usage' + DueOf(j) + d + Total(Bytes(files), Path)
                 = usage + DueOf(q) + Total(Bytes(files'), Path)
  BY <1>1, <1>2, <1>3, <1>4, <1>5
<1>7. \A r \in Path \ Touched(q) : files'[r] = files[r]
  BY <1>2, <1>5
<1> USE DEF q
<1> QED BY <1>1, <1>2, <1>3, <1>4, <1>5, <1>6, <1>7, WorkStep

\* What is in place when a copy breaks off is left uncounted.
LEMMA CopyFailsStep ==
  ASSUME Inv, NEW w \in Worker, NEW n \in Nat, CopyFails(w, n)
  PROVE  Inv'
<1> DEFINE q == job[w]
           p == q.dst
           d == n - BytesOf({p})
<1>1. /\ q.kind = "panelCopy" /\ q.at = "apply" /\ q.src \in Existing
      /\ files' = [files EXCEPT ![p] = n] /\ Drifts(w, Idle, d) /\ usage' = usage
  BY DEF CopyFails
<1>2. /\ files \in Disk /\ usage \in Int /\ DueOf(q) = 0 /\ Underway(q)
      /\ p \in Path /\ p \in Touched(q)
  BY <1>1, ApplyFacts
<1>3. BytesOf({p}) = Bytes(files)[p]
  BY <1>2, BytesOfTotal, BytesOfOne
<1> HIDE DEF q, p
<1>4. /\ files' \in Disk /\ \A r \in Path \ {p} : files'[r] = files[r]
      /\ Total(Bytes(files'), Path) = Total(Bytes(files), Path) - Bytes(files)[p] + n
      /\ Total(Bytes(files), Path) \in Nat /\ Bytes(files)[p] \in Nat
  <2>1. files' \in Disk /\ \A r \in Path \ {p} : files'[r] = files[r]
    BY <1>1, <1>2 DEF Disk
  <2> DEFINE g == [files EXCEPT ![p] = n]
  <2>2. /\ Total(Bytes(g), Path) = Total(Bytes(files), Path) - Bytes(files)[p] + n
        /\ Total(Bytes(files), Path) \in Nat /\ Bytes(files)[p] \in Nat
    <3>1. files \in Disk /\ p \in Path /\ n \in Nat
      BY <1>1, <1>2
    <3> QED BY <3>1, WriteFacts
  <2>3. files' = g
    BY <1>1
  <2> HIDE DEF g
  <2> QED BY <2>1, <2>2, <2>3
<1>5. /\ d \in Int
      /\ usage' + d + Total(Bytes(files), Path) = usage + DueOf(q) + Total(Bytes(files'), Path)
  BY <1>1, <1>2, <1>3, <1>4
<1>6. \A r \in Path \ Touched(q) : files'[r] = files[r]
  BY <1>2, <1>4
<1> HIDE DEF d
<1> USE DEF q
<1> QED BY <1>1, <1>2, <1>4, <1>5, <1>6, WorkEnds

-----------------------------------------------------------------------------
(* Steps that make the count true again.                                   *)

\* Nobody is at work.
AtRest ==
  /\ job = [w \in Worker |-> Idle]
  /\ files \in Disk /\ usage \in Int /\ drift \in Int /\ clean \in BOOLEAN
  /\ requests \in 0 .. MaxRequests
  /\ clean => usage + drift = Total(Bytes(files), Path)

\* Then a row whose error is known is all there is to say.
LEMMA AtRestInv == AtRest => Inv
<1> SUFFICES ASSUME AtRest PROVE Inv
  OBVIOUS
<1>1. job \in [Worker -> Job] /\ \A w \in Worker : job[w] = Idle
  BY IdleFacts DEF AtRest
<1>2. TypeOK
  BY <1>1, IdleFacts DEF AtRest, TypeOK, Disk
<1>3. \A w \in Worker : Shape(job[w]) /\ (job[w].solo => Alone(w))
  BY <1>1, IdleFacts
<1>4. LocksDisjoint /\ Undisturbed /\ ReadsHold
  BY <1>1, IdleFacts DEF LocksDisjoint, Undisturbed, ReadsHold, Interfere
<1>5. Accounted
  <2>1. \A w \in Worker : Due[w] = 0
    BY <1>1, IdleFacts DEF Due
  <2>2. Total(Due, Worker) = 0
    BY <2>1, TotalZero, UsageAssumption
  <2> QED BY <2>2, BytesOfTotal DEF Accounted, AtRest
<1>6. Careful
  BY <1>1, IdleFacts DEF Careful
<1> QED BY <1>2, <1>3, <1>4, <1>5, <1>6 DEF Inv

\* The same of the next state.
LEMMA AtRestNext == AtRest' => Inv'
BY AtRestInv, PTL

\* The first row is the bytes of the files.
LEMMA InitInv == Init => Inv
<1> SUFFICES ASSUME Init PROVE AtRest
  BY AtRestInv
<1>1. files \in Disk
  BY UsageAssumption DEF Init, Disk
<1>2. BytesOf(Path) = Total(Bytes(files), Path) /\ Total(Bytes(files), Path) \in Nat
  BY <1>1, BytesOfTotal, BytesTyped
<1> QED BY <1>1, <1>2, UsageAssumption DEF Init, AtRest

\* A restart counts again, or leaves behind what was still due.
LEMMA RestartStep == ASSUME Inv, Restart PROVE Inv'
<1>1. /\ job' = [w \in Worker |-> Idle] /\ files' = files /\ requests' = requests
      /\ files \in Disk /\ usage \in Int /\ drift \in Int /\ clean \in BOOLEAN
      /\ requests \in 0 .. MaxRequests
  BY DEF Inv, TypeOK, Disk, Restart
<1>2. BytesOf(Path) = Total(Bytes(files), Path) /\ Total(Bytes(files), Path) \in Nat
  BY <1>1, BytesOfTotal, BytesTyped
<1>3. CASE /\ StorageIsAbsolute /\ usage' = Recalculated(BytesOf(Path))
           /\ clean' = TRUE /\ drift' = 0
  <2>1. usage' = Total(Bytes(files), Path)
    BY <1>2, <1>3 DEF Recalculated
  <2>2. clean' \in BOOLEAN
    BY <1>3
  <2>3. AtRest'
    BY <1>1, <1>2, <1>3, <2>1, <2>2 DEF AtRest
  <2> QED BY <2>3, AtRestNext
<1>4. CASE /\ drift' = IF clean THEN drift + Total(Due, Worker) ELSE 0
           /\ usage' = usage /\ clean' = clean
  <2>1. Total(Due, Worker) \in Int
    <3>1. \A w \in Worker : Due[w] \in Int
      BY DEF Due, Inv, TypeOK, Job
    <3> QED BY <3>1, TotalInt, UsageAssumption
  <2>2. clean => usage + Total(Due, Worker) + drift = Total(Bytes(files), Path)
    BY <1>2 DEF Inv, Accounted
  <2>3. drift' \in Int /\ (clean' => usage' + drift' = Total(Bytes(files), Path))
    BY <1>1, <1>4, <2>1, <2>2
  <2>4. AtRest'
    BY <1>1, <1>4, <2>3 DEF AtRest
  <2> QED BY <2>4, AtRestNext
<1> QED BY <1>3, <1>4 DEF Restart

\* A request that owes something has touched a file.
LEMMA OwingTouches ==
  ASSUME NEW j \in Job, Shape(j), DueOf(j) # 0
  PROVE  Touched(j) \cap Path # {}
<1>1. j.at \in {"commit", "removed"}
  BY DEF DueOf
<1>2. \A tree \in Trees : tree \cap Path # {}
  BY UsageAssumption DEF Trees
<1> QED BY <1>1, <1>2 DEF Shape, Touched, Idle

\* The total goes to the row.  Of a recalculation that nothing disturbed it takes in what
\* the row was left behind; of one that ran alone it makes the row right whatever it was.
LEMMA SetUsageStep == ASSUME Inv, NEW w \in Worker, SetUsage(w) PROVE Inv'
<1> DEFINE q == job[w]
<1>1. /\ q \in Job /\ Shape(q) /\ files \in Disk /\ usage \in Int /\ drift \in Int
      /\ clean \in BOOLEAN /\ q.at = "set" /\ q # Idle /\ Underway(q)
      /\ q.kind = "recalculate" /\ DueOf(q) = 0 /\ q.size \in Nat
      /\ job' = [job EXCEPT ![w] = Idle] /\ usage' = Recalculated(q.size)
      /\ clean' = (clean \/ (q.solo /\ StorageIsAbsolute))
      /\ drift' = IF StorageIsAbsolute THEN 0 ELSE drift
      /\ files' = files /\ requests' = requests
  BY JobFacts, IdleFacts DEF SetUsage, Shape, DueOf, Job, Underway
<1>2. clean \/ q.solo => q.size = Total(Bytes(files), Path)
  <2>1. clean \/ q.solo => q.size + Total(Bytes(files), {}) = Total(Bytes(files), Path)
    BY <1>1, JobFacts DEF Knows
  <2> QED BY <1>1, <2>1, TotalEmpty
<1>3. GoesOn(w, Idle)
  BY IdleFacts DEF GoesOn
<1>4. usage' \in Int /\ drift' \in Int
  BY <1>1 DEF Recalculated
<1>5. CASE clean
  <2>1. ASSUME NEW v \in Worker PROVE DueOf(job[v]) = 0
    <3>1. CASE v = w
      BY <1>1, <3>1
    <3>2. CASE v # w
      <4>1. LockNames(q) = {} /\ Touched(q) = Path /\ ~Interfere(q, job[v])
        BY <1>1, <1>5, <3>2 DEF LockNames, Touched, Inv, Undisturbed
      <4>2. Touched(job[v]) \cap Path = {}
        BY <4>1 DEF Interfere
      <4> QED BY <4>2, OwingTouches, JobFacts
    <3> QED BY <3>1, <3>2
  <2>2. usage + drift = Total(Bytes(files), Path)
    BY <1>5, <2>1, RowExact
  <2>3. usage' + drift' = usage + drift
    BY <1>1, <1>2, <1>5, <2>2 DEF Recalculated
  <2>4. usage' + DueOf(Idle) + drift' + Total(Bytes(files), Path)
          = usage + DueOf(q) + drift + Total(Bytes(files'), Path)
    BY <1>1, <1>4, <2>2, <2>3, IdleFacts
  <2>5. Steady(w, Idle)
    BY <1>1, <1>3, <1>4, <1>5, <2>4, IdleFacts, IdleFits DEF Steady
  <2> QED BY <2>5, JobStep
<1>6. CASE ~clean /\ ~(q.solo /\ StorageIsAbsolute)
  <2>1. Steady(w, Idle)
    BY <1>1, <1>3, <1>4, <1>6, IdleFacts, IdleFits DEF Steady
  <2> QED BY <2>1, JobStep
<1>7. CASE ~clean /\ q.solo /\ StorageIsAbsolute
  <2>1. Alone(w)
    BY <1>7 DEF Inv
  <2>2. job' = [v \in Worker |-> Idle]
    BY <1>1, <2>1 DEF Alone, Inv, TypeOK
  <2>3. usage' + drift' = Total(Bytes(files), Path)
    BY <1>1, <1>2, <1>7 DEF Recalculated
  <2>4. requests \in 0 .. MaxRequests
    BY DEF Inv, TypeOK
  <2>5. AtRest'
    BY <1>1, <1>4, <1>7, <2>2, <2>3, <2>4 DEF AtRest
  <2> QED BY <2>5, AtRestNext
<1> QED BY <1>5, <1>6, <1>7

-----------------------------------------------------------------------------
(* Requests arrive.                                                        *)

\* Whether it is alone is all that may have changed of a request.
SameRequest(j, q) ==
  /\ j.kind = q.kind /\ j.at = q.at /\ j.src = q.src /\ j.dst = q.dst /\ j.tree = q.tree
  /\ j.conflict = q.conflict /\ j.size = q.size /\ j.count = q.count /\ j.prev = q.prev
  /\ j.used = q.used /\ j.delta = q.delta /\ j.tagged = q.tagged

\* An idle request is alone with nobody.
LEMMA IdleSolo == [Idle EXCEPT !.solo = FALSE] = Idle
<1>1. Idle \in Job /\ Idle.solo = FALSE
  BY IdleFacts DEF Job
<1> HIDE DEF Idle
<1> QED BY <1>1 DEF Job

\* Nothing else changes when being alone does.
LEMMA SoloOnly ==
  ASSUME NEW q \in Job, NEW s \in BOOLEAN
  PROVE  /\ [q EXCEPT !.solo = s] \in Job /\ SameRequest([q EXCEPT !.solo = s], q)
         /\ [q EXCEPT !.solo = s].solo = s
BY DEF Job, SameRequest

\* Being alone means nothing to what a request does.
LEMMA SameRequestFacts ==
  ASSUME NEW q \in Job, NEW j \in Job, SameRequest(j, q)
  PROVE  /\ LockNames(j) = LockNames(q) /\ Touched(j) = Touched(q)
         /\ DueOf(j) = DueOf(q) /\ Underway(j) = Underway(q)
         /\ \A f : Knows(j, f) = Knows(q, f)
         /\ \A u : Fits(j, u) = Fits(q, u)
         /\ q.kind # "none" => Shape(j) = Shape(q)
<1>1. LockNames(j) = LockNames(q) /\ Touched(j) = Touched(q)
  BY SameFiles DEF SameRequest
<1>2. DueOf(j) = DueOf(q) /\ Underway(j) = Underway(q)
  BY DEF DueOf, Underway, SameRequest
<1>3. \A f : Knows(j, f) = Knows(q, f)
  BY DEF Knows, SameRequest
<1>4. \A u : Fits(j, u) = Fits(q, u)
  BY DEF Fits, SameRequest
<1>5. q.kind # "none" => Shape(j) = Shape(q)
  <2> SUFFICES ASSUME q.kind # "none" PROVE Shape(j) = Shape(q)
    OBVIOUS
  <2>1. q.kind \in {"put", "delete", "panelDelete", "copy", "move", "panelCopy", "panelMove",
                    "upload", "recalculate"}
    BY DEF Job, Kinds, Dav
  <2>2. /\ j.kind = q.kind /\ j.at = q.at /\ j.src = q.src /\ j.dst = q.dst
        /\ j.tree = q.tree
    BY DEF SameRequest
  <2>3. CASE q.kind = "put"
    BY <2>2, <2>3 DEF Shape
  <2>4. CASE q.kind \in {"delete", "panelDelete"}
    BY <2>2, <2>4 DEF Shape
  <2>5. CASE q.kind = "copy"
    BY <2>2, <2>5 DEF Shape
  <2>6. CASE q.kind = "move"
    BY <2>2, <2>6 DEF Shape
  <2>7. CASE q.kind \in {"panelCopy", "panelMove"}
    BY <2>2, <2>7 DEF Shape
  <2>8. CASE q.kind = "upload"
    BY <2>2, <2>8 DEF Shape
  <2>9. CASE q.kind = "recalculate"
    BY <2>2, <2>9 DEF Shape
  <2> QED BY <2>1, <2>3, <2>4, <2>5, <2>6, <2>7, <2>8, <2>9
<1> QED BY <1>1, <1>2, <1>3, <1>4, <1>5

\* Two requests meet on a file, or do not, whichever is named first.
LEMMA InterfereSymmetric == ASSUME NEW i, NEW j PROVE Interfere(i, j) = Interfere(j, i)
BY DEF Interfere

\* What is to be shown of a request that arrives: it has no lock and owes nothing, and
\* what it has read is so.
Arrives(j) ==
  /\ j \in Job /\ Shape(j) /\ j.kind # "none" /\ j.at # "idle"
  /\ DueOf(j) = 0
  /\ Underway(j) => LockNames(j) = {}
  /\ Knows(j, files)
  /\ Quota > 0 => Fits(j, usage)

\* A request that arrives so keeps the invariant.
LEMMA BeginStep == ASSUME Inv, NEW w \in Worker, NEW j, Arrives(j), Begin(w, j) PROVE Inv'
<1> DEFINE others == {v \in Worker \ {w} : job[v] # Idle}
           n == [j EXCEPT !.solo = (others = {})]
<1>1. /\ job[w] = Idle /\ requests < MaxRequests /\ requests' = requests + 1
      /\ job' = [v \in Worker |-> IF v = w THEN n ELSE [job[v] EXCEPT !.solo = FALSE]]
      /\ clean' = (clean /\ \A v \in others : ~Interfere(j, job[v]))
      /\ drift' = IF clean' THEN drift ELSE 0
      /\ files' = files /\ usage' = usage
  BY DEF Begin
<1>2. /\ j \in Job /\ Shape(j) /\ j.kind # "none" /\ j.at # "idle" /\ DueOf(j) = 0
      /\ Underway(j) => LockNames(j) = {}
      /\ Knows(j, files)
      /\ Quota > 0 => Fits(j, usage)
  BY DEF Arrives
<1>3. n \in Job /\ SameRequest(n, j) /\ n.solo = (others = {})
  <2> DEFINE s == (others = {})
  <2>1. s \in BOOLEAN
    OBVIOUS
  <2> HIDE DEF s
  <2>2. [j EXCEPT !.solo = s] \in Job /\ SameRequest([j EXCEPT !.solo = s], j)
        /\ [j EXCEPT !.solo = s].solo = s
    BY <1>2, <2>1, SoloOnly
  <2> QED BY <2>2 DEF s
<1> HIDE DEF n
<1>4. ASSUME NEW v \in Worker \ {w}
      PROVE  /\ job[v] \in Job /\ job'[v] \in Job /\ SameRequest(job'[v], job[v])
             /\ job'[v].solo = FALSE
             /\ Shape(job[v]) /\ Shape(job'[v]) /\ (job[v] = Idle <=> job'[v] = Idle)
             /\ (job'[v].at = "idle" <=> job'[v] = Idle)
  <2>1. job[v] \in Job /\ Shape(job[v]) /\ (job[v].at = "idle" <=> job[v] = Idle)
    BY JobFacts
  <2>2. job'[v] = [job[v] EXCEPT !.solo = FALSE]
    BY <1>1
  <2>3. job'[v] \in Job /\ SameRequest(job'[v], job[v]) /\ job'[v].solo = FALSE
    BY <2>1, <2>2, SoloOnly
  <2>4. CASE job[v] = Idle
    <3>1. job'[v] = Idle
      BY <2>2, <2>4, IdleSolo
    <3> QED BY <2>1, <2>3, <2>4, <3>1, IdleFacts
  <2>5. CASE job[v] # Idle
    <3>1. job[v].kind # "none" /\ job'[v].at # "idle"
      BY <2>1, <2>3, <2>5 DEF Shape, SameRequest
    <3>2. Shape(job'[v])
      BY <2>1, <2>3, <3>1, SameRequestFacts
    <3> QED BY <2>1, <2>3, <2>5, <3>1, <3>2, IdleFacts
  <2> QED BY <2>4, <2>5
<1>5. job' \in [Worker -> Job] /\ job'[w] = n /\ DOMAIN job' = Worker
  BY <1>1, <1>3, <1>4
<1>6. /\ Shape(n) /\ n.at # "idle" /\ DueOf(n) = 0 /\ n # Idle
      /\ LockNames(n) = LockNames(j) /\ Touched(n) = Touched(j) /\ Underway(n) = Underway(j)
      /\ Knows(n, files)
      /\ Fits(n, usage) = Fits(j, usage)
  <2>1. n.at # "idle"
    BY <1>2, <1>3 DEF SameRequest
  <2> QED BY <1>2, <1>3, <2>1, SameRequestFacts, IdleFacts
<1>7. ASSUME NEW v \in Worker \ {w}
      PROVE  /\ LockNames(job'[v]) = LockNames(job[v]) /\ Touched(job'[v]) = Touched(job[v])
             /\ Underway(job'[v]) = Underway(job[v]) /\ DueOf(job'[v]) = DueOf(job[v])
             /\ Knows(job'[v], files) = Knows(job[v], files)
  BY <1>4, SameRequestFacts
<1>8. TypeOK'
  <2>1. \A v \in Worker : job'[v].at = "idle" <=> job'[v] = Idle
    BY <1>4, <1>5, <1>6
  <2>2. requests' \in 0 .. MaxRequests
    BY <1>1, UsageAssumption DEF Inv, TypeOK
  <2> QED BY <1>1, <1>5, <2>1, <2>2 DEF Inv, TypeOK
<1>9. \A v \in Worker : Shape(job'[v])
  BY <1>4, <1>5, <1>6
<1>10. ASSUME NEW v \in Worker, job'[v].solo PROVE Alone(v)'
  <2>1. v = w
    BY <1>4, <1>10
  <2>2. others = {}
    BY <1>3, <1>5, <1>10, <2>1
  <2> QED BY <1>4, <2>1, <2>2 DEF Alone
<1>11. LocksDisjoint'
  <2> SUFFICES ASSUME NEW v \in Worker, NEW u \in Worker, v # u,
                      Underway(job'[v]), Underway(job'[u])
               PROVE  LockNames(job'[v]) \cap LockNames(job'[u]) = {}
    BY DEF LocksDisjoint
  <2>1. CASE v = w \/ u = w
    BY <1>2, <1>5, <1>6, <2>1
  <2>2. CASE v # w /\ u # w
    BY <1>7, <2>2 DEF Inv, LocksDisjoint
  <2> QED BY <2>1, <2>2
<1>12. clean' => Undisturbed'
  <2> SUFFICES ASSUME clean' PROVE Undisturbed'
    OBVIOUS
  <2>1. Undisturbed /\ \A v \in others : ~Interfere(j, job[v])
    BY <1>1 DEF Inv
  <2>2. ASSUME NEW v \in Worker \ {w} PROVE ~Interfere(n, job'[v]) /\ ~Interfere(job'[v], n)
    <3>1. ~Interfere(j, job[v])
      <4>1. CASE v \in others
        BY <2>1, <4>1
      <4>2. CASE v \notin others
        BY <4>2, IdleFacts DEF Interfere
      <4> QED BY <4>1, <4>2
    <3>2. ~Interfere(n, job'[v])
      BY <1>6, <1>7, <3>1 DEF Interfere
    <3> QED BY <3>2, InterfereSymmetric
  <2>3. ASSUME NEW v \in Worker, NEW u \in Worker, v # u PROVE ~Interfere(job'[v], job'[u])
    <3>1. CASE v = w
      BY <1>5, <2>2, <2>3, <3>1
    <3>2. CASE u = w
      BY <1>5, <2>2, <2>3, <3>2
    <3>3. CASE v # w /\ u # w
      BY <1>7, <2>1, <2>3, <3>3 DEF Undisturbed, Interfere
    <3> QED BY <3>1, <3>2, <3>3
  <2> QED BY <2>3 DEF Undisturbed
<1>13. ReadsHold'
  <2> SUFFICES ASSUME NEW v \in Worker, clean' \/ job'[v].solo PROVE Knows(job'[v], files')
    BY DEF ReadsHold
  <2>1. CASE v = w
    BY <1>1, <1>5, <1>6, <2>1
  <2>2. CASE v # w
    <3>1. clean
      BY <1>1, <1>4, <2>2
    <3> QED BY <1>1, <1>7, <2>2, <3>1 DEF Inv, ReadsHold
  <2> QED BY <2>1, <2>2
<1>14. Accounted'
  <2>1. \A v \in Worker : Due'[v] = Due[v]
    <3>1. \A v \in Worker : DueOf(job'[v]) = DueOf(job[v])
      BY <1>1, <1>5, <1>6, <1>7, IdleFacts
    <3> QED BY <3>1 DEF Due, DueOf
  <2>2. Total(Due', Worker) = Total(Due, Worker)
    <3> DEFINE d == Due
               e == Due'
    <3>1. \A v \in Worker : e[v] = d[v]
      BY <2>1
    <3> HIDE DEF d, e
    <3>2. Total(e, Worker) = Total(d, Worker)
      BY <3>1, TotalSame, UsageAssumption
    <3> QED BY <3>2 DEF d, e
  <2>3. clean => usage + Total(Due, Worker) + drift = Total(Bytes(files), Path)
    BY BytesOfTotal DEF Inv, Accounted
  <2> QED BY <1>1, <2>2, <2>3 DEF Accounted, BytesOf, Bytes
<1>15. Careful'
  <2> SUFFICES ASSUME NEW v \in Worker, job'[v].solo, Quota > 0 PROVE Fits(job'[v], usage')
    BY DEF Careful
  <2>1. v = w
    BY <1>4
  <2> QED BY <1>1, <1>2, <1>5, <1>6, <2>1
<1> QED BY <1>8, <1>9, <1>10, <1>11, <1>12, <1>13, <1>14, <1>15 DEF Inv

\* What a request of WebDAV or of the panel names, by its kind.
Names(k, src, dst, tree) ==
  \/ k = "put" /\ src = NoPath /\ dst \in Path /\ tree = {}
  \/ k \in {"delete", "panelDelete"} /\ src = NoPath /\ dst = NoPath /\ tree \in Trees
  \/ k \in {"copy", "move"} /\ src \in Path /\ dst \in Path /\ src # dst /\ tree = {dst}
  \/ k \in {"panelCopy", "panelMove"} /\ src \in Path /\ dst \in Path /\ tree = {}

\* Such a request arrives, a write with the usage it has read.
LEMMA ArriveStep ==
  ASSUME Inv, NEW w \in Worker, NEW k, NEW src, NEW dst, NEW tree, NEW n \in Nat,
         NEW tagged \in BOOLEAN, Names(k, src, dst, tree),
         Arrive(w, k, src, dst, tree, n, tagged)
  PROVE  Inv'
<1> DEFINE u == IF k \in {"put", "copy"} THEN usage ELSE 0
           j == [Idle EXCEPT !.kind = k, !.at = "start", !.src = src, !.dst = dst,
                             !.tree = tree, !.size = n, !.tagged = tagged, !.used = u]
<1>1. Begin(w, j)
  BY DEF Arrive
<1>2. /\ k \in Kinds /\ k # "none" /\ src \in Path \cup {NoPath} /\ dst \in Path \cup {NoPath}
      /\ tree \in SUBSET Path /\ usage \in Int /\ u \in Int
      /\ k \in {"put", "copy"} => u = usage
  BY JobFacts DEF Names, Trees, Kinds, Dav
<1> HIDE DEF u
<1>3. /\ j \in Job /\ j.kind = k /\ j.at = "start" /\ j.src = src /\ j.dst = dst
      /\ j.tree = tree /\ j.used = u
  <2>1. Idle \in Job
    BY IdleFacts
  <2> HIDE DEF Idle
  <2> QED BY <1>2, <2>1 DEF Job, Steps
<1> HIDE DEF j
<1>4. Shape(j)
  BY <1>3 DEF Names, Shape
<1>5. DueOf(j) = 0 /\ ~Underway(j) /\ Knows(j, files) /\ Fits(j, usage)
  BY <1>2, <1>3 DEF DueOf, Underway, Knows, Fits
<1>6. Arrives(j)
  BY <1>2, <1>3, <1>4, <1>5 DEF Arrives
<1> QED BY <1>1, <1>6, BeginStep

\* The requests of WebDAV.
LEMMA ArriveDavStep == ASSUME Inv, NEW w \in Worker, ArriveDav(w) PROVE Inv'
<1>1. PICK tagged \in BOOLEAN :
        \/ \E p \in Path, n \in Size : Arrive(w, "put", NoPath, p, {}, n, tagged)
        \/ \E tree \in Trees : Arrive(w, "delete", NoPath, NoPath, tree, 0, tagged)
        \/ \E k \in {"copy", "move"}, p \in Path : \E q \in Path \ {p} :
             Arrive(w, k, p, q, {q}, 0, tagged)
  BY DEF ArriveDav
<1>2. ASSUME NEW p \in Path, NEW n \in Size, Arrive(w, "put", NoPath, p, {}, n, tagged)
      PROVE  Inv'
  <2>1. Names("put", NoPath, p, {}) /\ n \in Nat
    BY UsageAssumption DEF Names
  <2> QED BY <1>2, <2>1, ArriveStep
<1>3. ASSUME NEW tree \in Trees, Arrive(w, "delete", NoPath, NoPath, tree, 0, tagged)
      PROVE  Inv'
  <2>1. Names("delete", NoPath, NoPath, tree) /\ 0 \in Nat
    BY DEF Names
  <2> QED BY <1>3, <2>1, ArriveStep
<1>4. ASSUME NEW k \in {"copy", "move"}, NEW p \in Path, NEW q \in Path \ {p},
             Arrive(w, k, p, q, {q}, 0, tagged)
      PROVE  Inv'
  <2>1. Names(k, p, q, {q}) /\ 0 \in Nat
    BY DEF Names
  <2> QED BY <1>4, <2>1, ArriveStep
<1> QED BY <1>1, <1>2, <1>3, <1>4

\* The requests of the panel that change files.
LEMMA ArrivePanelStep == ASSUME Inv, NEW w \in Worker, ArrivePanel(w) PROVE Inv'
<1>1. ASSUME NEW tree \in Trees, Arrive(w, "panelDelete", NoPath, NoPath, tree, 0, FALSE)
      PROVE  Inv'
  <2>1. Names("panelDelete", NoPath, NoPath, tree) /\ 0 \in Nat
    BY DEF Names
  <2> QED BY <1>1, <2>1, ArriveStep
<1>2. ASSUME NEW k \in {"panelCopy", "panelMove"}, NEW p \in Path, NEW q \in Path,
             Arrive(w, k, p, q, {}, 0, FALSE)
      PROVE  Inv'
  <2>1. Names(k, p, q, {}) /\ 0 \in Nat
    BY DEF Names
  <2> QED BY <1>2, <2>1, ArriveStep
<1> QED BY <1>1, <1>2 DEF ArrivePanel

\* An upload arrives with the size of what it replaces, and the precheck has found room.
LEMMA ArriveUploadStep == ASSUME Inv, NEW w \in Worker, ArriveUpload(w) PROVE Inv'
<1>1. PICK p \in Path, n \in Size, c \in {"overwrite", "skip", "rename"} :
        LET old == IF c = "overwrite" THEN BytesOf({p}) ELSE 0
        IN  /\ Precheck(n, old)
            /\ Begin(w, [Idle EXCEPT !.kind = "upload", !.at = "session", !.dst = p,
                                     !.size = n, !.prev = old, !.conflict = c])
  BY DEF ArriveUpload
<1> DEFINE old == IF c = "overwrite" THEN BytesOf({p}) ELSE 0
           j == [Idle EXCEPT !.kind = "upload", !.at = "session", !.dst = p,
                             !.size = n, !.prev = old, !.conflict = c]
<1>2. Precheck(n, old) /\ Begin(w, j)
  BY <1>1
<1>3. /\ BytesOf({p}) = Bytes(files)[p] /\ BytesOf({p}) \in Nat
      /\ n \in Nat /\ old \in Nat /\ usage \in Int
      /\ old = IF c = "overwrite" THEN Bytes(files)[p] ELSE 0
  BY JobFacts, BytesOfTotal, BytesOfOne, BytesTyped, UsageAssumption DEF Inv, TypeOK, Disk
<1> HIDE DEF old
<1>4. /\ j \in Job /\ j.kind = "upload" /\ j.at = "session" /\ j.dst = p /\ j.size = n
      /\ j.prev = old /\ j.conflict = c
  <2>1. Idle \in Job /\ "upload" \in Kinds
    BY IdleFacts DEF Kinds
  <2> HIDE DEF Idle
  <2> QED BY <1>3, <2>1 DEF Job, Steps
<1>5. LockNames(j) = {}
  <2>1. j.tagged = FALSE
    BY DEF Idle
  <2> HIDE DEF j
  <2> QED BY <1>4, <2>1 DEF LockNames
<1> HIDE DEF j
<1>6. Shape(j) /\ DueOf(j) = 0
  BY <1>4 DEF Shape, DueOf
<1>7. Knows(j, files)
  BY <1>3, <1>4 DEF Knows
<1>8. Quota > 0 => Fits(j, usage)
  <2> SUFFICES ASSUME Quota > 0 PROVE Fits(j, usage)
    OBVIOUS
  <2>1. n <= Quota - usage + old
    BY <1>2 DEF Precheck
  <2>2. usage + n - old <= Quota
    BY <1>3, <2>1, UsageAssumption
  <2> QED BY <1>4, <2>2 DEF Fits
<1>9. Arrives(j)
  BY <1>4, <1>5, <1>6, <1>7, <1>8 DEF Arrives
<1> QED BY <1>2, <1>9, BeginStep

\* A recalculation begins with all files left to walk.
LEMMA ArriveRecalculateStep == ASSUME Inv, NEW w \in Worker, ArriveRecalculate(w) PROVE Inv'
<1> DEFINE at == IF Existing = {} THEN "set" ELSE "walk"
           j == [Idle EXCEPT !.kind = "recalculate", !.tree = Existing, !.at = at]
<1>1. Begin(w, j)
  BY DEF ArriveRecalculate
<1>2. files \in Disk /\ Existing \in SUBSET Path /\ at \in Steps
  BY DEF Inv, TypeOK, Disk, Existing, Steps
<1>3. at \in {"set", "walk"} /\ (at = "set" => Existing = {})
  OBVIOUS
<1> HIDE DEF at
<1>4. /\ j \in Job /\ j.kind = "recalculate" /\ j.at = at /\ j.tree = Existing /\ j.size = 0
      /\ j.tagged = FALSE
  <2>1. Idle \in Job /\ Idle.tagged = FALSE /\ Idle.size = 0 /\ "recalculate" \in Kinds
    <3>1. Idle.size = 0 /\ Idle.tagged = FALSE
      BY DEF Idle
    <3> QED BY <3>1, IdleFacts DEF Kinds
  <2> HIDE DEF Idle
  <2> QED BY <1>2, <2>1 DEF Job
<1> HIDE DEF j
<1>5. Shape(j) /\ DueOf(j) = 0 /\ LockNames(j) = {} /\ Fits(j, usage)
  BY <1>3, <1>4 DEF Shape, DueOf, LockNames, Fits
<1>6. Total(Bytes(files), Existing) = Total(Bytes(files), Path)
      /\ Total(Bytes(files), Path) \in Nat
  <2>1. \A p \in Path : Bytes(files)[p] \in Int
    BY <1>2, BytesTyped
  <2>2. Total(Bytes(files), Path)
          = Total(Bytes(files), Existing) + Total(Bytes(files), Path \ Existing)
    BY <1>2, <2>1, TotalSplit, UsageAssumption
  <2>3. IsFiniteSet(Path \ Existing)
        /\ \A p \in Path \ Existing : Bytes(files)[p] = 0
    BY <1>2, BytesTyped DEF Existing, Bytes
  <2>4. Total(Bytes(files), Path \ Existing) = 0
    BY <2>3, TotalZero
  <2>5. Total(Bytes(files), Path) \in Nat /\ Total(Bytes(files), Existing) \in Nat
    BY <1>2, BytesTyped
  <2> QED BY <2>2, <2>4, <2>5
<1>7. Knows(j, files)
  <2>1. \A p \in Existing : files[p] # Absent
    BY DEF Existing
  <2> QED BY <1>3, <1>4, <1>6, <2>1 DEF Knows
<1>8. Arrives(j)
  BY <1>3, <1>4, <1>5, <1>7 DEF Arrives
<1> QED BY <1>1, <1>8, BeginStep

-----------------------------------------------------------------------------
(* The theorems.                                                           *)

\* Nothing changes in a stuttering step.
LEMMA StutterInv == ASSUME Inv, UNCHANGED vars PROVE Inv'
<1>1. /\ TypeOK' = TypeOK /\ Accounted' = Accounted /\ LocksDisjoint' = LocksDisjoint
      /\ Undisturbed' = Undisturbed /\ ReadsHold' = ReadsHold /\ Careful' = Careful
      /\ (\A w \in Worker : Shape(job'[w])) = (\A w \in Worker : Shape(job[w]))
      /\ (\A w \in Worker : job'[w].solo => Alone(w)')
           = (\A w \in Worker : job[w].solo => Alone(w))
      /\ clean' = clean
  BY DEF vars, TypeOK, Accounted, Due, BytesOf, LocksDisjoint, Undisturbed, ReadsHold,
         Careful, Alone
<1> QED BY <1>1 DEF Inv

\* Every step keeps the invariant.
LEMMA NextInv == ASSUME Inv, [Next]_vars PROVE Inv'
<1>1. ASSUME NEW w \in Worker, DavStep(w) PROVE Inv'
  BY <1>1, ArriveDavStep, RefusedStep, FailsStep, OpenStep, PublishStep, MeasureStep, RemoveStep,
     RemoveFailsStep, CommitRemovalStep, CommitStep, CommitFailsStep, RenameStep, BodyStep
  DEF DavStep
<1>2. ASSUME NEW w \in Worker, PanelStep(w) PROVE Inv'
  <2>1. \A p \in Path : 0 .. files[p] \subseteq Nat
    BY JobFacts DEF Disk, Absent
  <2> QED BY <1>2, <2>1, ArrivePanelStep, CheckStep, MoveFileStep, CopyFileStep, CopyFailsStep
      DEF PanelStep
<1>3. ASSUME NEW w \in Worker, UploadStep(w) PROVE Inv'
  BY <1>3, ArriveUploadStep, AbandonStep, CompleteStep, PlaceStep, ChunkCutStep DEF UploadStep
<1>4. ASSUME NEW w \in Worker, RecalculateStep(w) PROVE Inv'
  BY <1>4, ArriveRecalculateStep, SetUsageStep, WalkStep DEF RecalculateStep
<1> QED BY <1>1, <1>2, <1>3, <1>4, RestartStep, StutterInv DEF Next

\* The inductive invariant holds, whatever requests overlap, are refused, break off or
\* fail.
THEOREM Invariant == Spec => []Inv
<1>1. Init => Inv
  BY InitInv
<1>2. Inv /\ [Next]_vars => Inv'
  BY NextInv
<1> QED BY <1>1, <1>2, PTL DEF Spec

\* Sizes, row and requests keep their types.
THEOREM TypeCorrect == Spec => []TypeOK
<1>1. Inv => TypeOK
  BY DEF Inv
<1> QED BY <1>1, Invariant, PTL

\* The row, what is due to it and what failures left uncounted are the bytes of the files,
\* as long as no two requests without a lock in common meet on a file.
THEOREM RowAccounted == Spec => []Accounted
<1>1. Inv => Accounted
  BY DEF Inv
<1> QED BY <1>1, Invariant, PTL

-----------------------------------------------------------------------------
(* The quota, and the recalculation.                                       *)

\* While one request is alone, no other does more than arrive.
LEMMA OnlyOneActs ==
  ASSUME Inv, NEW w \in Worker, job[w].solo, NEW v \in Worker \ {w},
         DavStep(v) \/ PanelStep(v) \/ UploadStep(v) \/ RecalculateStep(v)
  PROVE  files' = files /\ job'[w] # Idle
<1>1. job[v] = Idle /\ Idle.at = "idle" /\ Idle.kind = "none"
  BY IdleFacts DEF Inv, Alone
<1>2. ArriveDav(v) \/ ArrivePanel(v) \/ ArriveUpload(v) \/ ArriveRecalculate(v)
  <2> HIDE DEF Idle
  <2>1. ASSUME DavStep(v) PROVE ArriveDav(v)
    BY <1>1, <2>1 DEF DavStep, Refused, Fails, Open, Publish, Measure, Remove, RemoveFails,
       CommitRemoval, Commit, CommitFails, Rename, Body
  <2>2. ASSUME PanelStep(v) PROVE ArrivePanel(v)
    BY <1>1, <2>2 DEF PanelStep, Check, MoveFile, CopyFile, CopyFails
  <2>3. ASSUME UploadStep(v) PROVE ArriveUpload(v)
    BY <1>1, <2>3 DEF UploadStep, Abandon, Complete, Place, ChunkCut
  <2>4. ASSUME RecalculateStep(v) PROVE ArriveRecalculate(v)
    BY <1>1, <2>4 DEF RecalculateStep, Walk, SetUsage
  <2> QED BY <2>1, <2>2, <2>3, <2>4
<1>3. \E j : Begin(v, j)
  BY <1>2 DEF ArriveDav, ArrivePanel, ArriveUpload, ArriveRecalculate, Arrive
<1>4. job[w] \in Job /\ job[w] # Idle /\ Shape(job[w])
  BY JobFacts, IdleFacts
<1>5. job[w].kind # "none"
  BY <1>4 DEF Shape
<1>6. job'[w] = [job[w] EXCEPT !.solo = FALSE] /\ files' = files
  BY <1>3 DEF Begin
<1>7. job'[w].kind # "none"
  BY <1>4, <1>5, <1>6 DEF Job
<1> QED BY <1>1, <1>6, <1>7

\* What a step of the request w does to the quota.
Keeps(w) ==
  Quota > 0 /\ clean /\ job[w].solo /\ Total(Bytes(files'), Path) > Total(Bytes(files), Path)
    => Total(Bytes(files'), Path) <= Quota + drift'

\* A step that changes no file lets none grow.
LEMMA SameFilesKeep == ASSUME NEW w \in Worker, Inv, files' = files PROVE Keeps(w)
<1>1. Total(Bytes(files), Path) \in Nat
  BY JobFacts, BytesTyped
<1> QED BY <1>1 DEF Keeps

\* What was measured before the body came still is what will be replaced.
LEMMA PublishKeeps == ASSUME Inv, NEW w \in Worker, Publish(w) PROVE Keeps(w)
<1> DEFINE q == job[w]
           p == q.dst
           n == q.count
<1> SUFFICES ASSUME Quota > 0, clean, q.solo PROVE Keeps(w)
  BY DEF Keeps
<1>1. /\ q \in Job /\ Shape(q) /\ files \in Disk /\ usage \in Int /\ drift \in Int
      /\ q.at = "publish" /\ DueOf(q) = 0 /\ Underway(q)
      /\ files' = [files EXCEPT ![p] = n] /\ drift' = drift
  BY JobFacts DEF Publish, DueOf, Underway, Becomes
<1>2. p \in Path /\ n \in Nat /\ q.prev \in Nat /\ Quota \in Nat
  BY <1>1, TouchedPaths, UsageAssumption DEF Job
<1>3. q.prev = Bytes(files)[p]
  BY <1>1, JobFacts DEF Knows
<1>4. n = 0 \/ usage + n - q.prev <= Quota
  BY <1>1, JobFacts DEF Fits
<1>5. usage + drift = Total(Bytes(files), Path)
  BY <1>1, RowExactAlone
<1> HIDE DEF q, p, n
<1> DEFINE t == Total(Bytes(files), Path)
           b == Bytes(files)[p]
<1>6. Total(Bytes(files'), Path) = t - b + n /\ t \in Nat /\ b \in Nat
  <2> DEFINE g == [files EXCEPT ![p] = n]
  <2>1. files \in Disk /\ p \in Path /\ n \in Nat
    BY <1>1, <1>2
  <2>2. Total(Bytes(g), Path) = t - b + n /\ t \in Nat /\ b \in Nat
    BY <2>1, WriteFacts
  <2>3. files' = g
    BY <1>1
  <2> HIDE DEF g, t, b
  <2> QED BY <2>2, <2>3
<1>7. usage + drift = t /\ (n = 0 \/ usage + n - b <= Quota)
  BY <1>1, <1>3, <1>4, <1>5
<1> HIDE DEF t, b
<1>8. t - b + n > t => t - b + n <= Quota + drift'
  BY <1>1, <1>2, <1>6, <1>7
<1> QED BY <1>6, <1>8 DEF Keeps, t

\* The precheck found room for what is received; what is not is left behind.
LEMMA PlaceKeeps == ASSUME Inv, NEW w \in Worker, Place(w) PROVE Keeps(w)
<1> DEFINE q == job[w]
           p == q.dst
           c == q.count
           n == q.size + c
<1> SUFFICES ASSUME Quota > 0, clean, q.solo PROVE Keeps(w)
  BY DEF Keeps
<1>1. /\ q \in Job /\ Shape(q) /\ files \in Disk /\ usage \in Int /\ drift \in Int
      /\ q.at = "place" /\ DueOf(q) = 0 /\ Underway(q)
      /\ files' = [files EXCEPT ![p] = n] /\ drift' = drift + c
  BY JobFacts DEF Place, DueOf, Underway, Drifts
<1>2. p \in Path /\ n \in Nat /\ c \in Nat /\ q.size \in Nat /\ q.prev \in Nat /\ Quota \in Nat
  BY <1>1, TouchedPaths, UsageAssumption DEF Job
<1>3. q.prev = Bytes(files)[p] /\ n = q.size + c
  BY <1>1, JobFacts DEF Knows
<1>4. usage + q.size - q.prev <= Quota
  BY <1>1, JobFacts DEF Fits
<1>5. usage + drift = Total(Bytes(files), Path)
  BY <1>1, RowExactAlone
<1> HIDE DEF q, p, n, c
<1> DEFINE t == Total(Bytes(files), Path)
           b == Bytes(files)[p]
<1>6. Total(Bytes(files'), Path) = t - b + n /\ t \in Nat /\ b \in Nat
  <2> DEFINE g == [files EXCEPT ![p] = n]
  <2>1. files \in Disk /\ p \in Path /\ n \in Nat
    BY <1>1, <1>2
  <2>2. Total(Bytes(g), Path) = t - b + n /\ t \in Nat /\ b \in Nat
    BY <2>1, WriteFacts
  <2>3. files' = g
    BY <1>1
  <2> HIDE DEF g, t, b
  <2> QED BY <2>2, <2>3
<1>7. usage + drift = t /\ usage + q.size - b <= Quota /\ n = q.size + c
  BY <1>1, <1>3, <1>4, <1>5
<1> HIDE DEF t, b
<1>8. t - b + n > t => t - b + n <= Quota + drift'
  BY <1>1, <1>2, <1>6, <1>7
<1> QED BY <1>6, <1>8 DEF Keeps, t

\* n bytes of the source come in the place of the destination.
Copies(w, n) ==
  /\ job[w].kind = "panelCopy" /\ job[w].at = "apply" /\ job[w].src \in Existing
  /\ n <= files[job[w].src] /\ files' = [files EXCEPT ![job[w].dst] = n]
  /\ \/ drift' = drift + n - files[job[w].src]
     \/ drift' = drift + n - BytesOf({job[w].dst})

\* FileAction found room for the whole source; a part of it needs less.
LEMMA CopyKeeps ==
  ASSUME Inv, NEW w \in Worker, NEW n \in Nat, Copies(w, n)
  PROVE  Keeps(w)
<1> DEFINE q == job[w]
           p == q.dst
           a == Bytes(files)[q.src]
           b == Bytes(files)[p]
           t == Total(Bytes(files), Path)
<1> SUFFICES ASSUME Quota > 0, clean, q.solo PROVE Keeps(w)
  BY DEF Keeps
<1>1. /\ files \in Disk /\ usage \in Int /\ drift \in Int /\ q.delta \in Int /\ DueOf(q) = 0
      /\ q.src \in Path /\ p \in Path /\ q.delta = a - b /\ Quota \in Nat
  BY ApplyFacts, JobFacts, UsageAssumption DEF Copies
<1>2. files[q.src] = a /\ BytesOf({p}) = b /\ a \in Nat /\ b \in Nat /\ t \in Nat
  <2>1. files[q.src] = a
    BY <1>1 DEF Copies, Existing, Bytes
  <2> QED BY <1>1, <2>1, BytesOfTotal, BytesOfOne, BytesTyped
<1>3. usage + q.delta <= Quota
  BY JobFacts DEF Fits, Copies
<1>4. usage + drift = t
  BY <1>1, RowExactAlone
<1>5. n <= a /\ (drift' = drift + n - a \/ drift' = drift + n - b)
  BY <1>2 DEF Copies
<1>6. Total(Bytes(files'), Path) = t - b + n
  <2> DEFINE g == [files EXCEPT ![p] = n]
  <2>1. files \in Disk /\ p \in Path /\ n \in Nat
    BY <1>1
  <2>2. files' = g
    BY DEF Copies
  <2> HIDE DEF p
  <2>3. Total(Bytes(g), Path) = t - b + n
    BY <2>1, WriteFacts
  <2> HIDE DEF g, b, t
  <2> QED BY <2>2, <2>3
<1> HIDE DEF a, b, t
<1>7. t - b + n > t => t - b + n <= Quota + drift'
  BY <1>1, <1>2, <1>3, <1>4, <1>5
<1> QED BY <1>6, <1>7 DEF Keeps, t

\* A move or a removal lets nothing grow.
LEMMA OthersShrink ==
  ASSUME Inv, NEW w \in Worker,
         \/ Remove(w) \/ \E some \in SUBSET Path : RemoveFails(w, some)
         \/ Rename(w) \/ MoveFile(w)
  PROVE  Keeps(w)
<1> DEFINE q == job[w]
<1>1. q \in Job /\ Shape(q) /\ files \in Disk /\ Total(Bytes(files), Path) \in Nat
  BY JobFacts, BytesTyped
<1>2. ASSUME NEW R \in SUBSET Path,
             files' = [p \in Path |-> IF p \in R THEN Absent ELSE files[p]]
      PROVE  /\ Total(Bytes(files'), Path) \in Int
             /\ Total(Bytes(files'), Path) <= Total(Bytes(files), Path)
  <2>1. /\ Total(Bytes(files'), Path) = Total(Bytes(files), Path) - Total(Bytes(files), R)
        /\ Total(Bytes(files), R) \in Nat
    BY <1>1, <1>2, RemoveFacts
  <2> QED BY <1>1, <2>1
<1>3. ASSUME Moved(q.src, q.dst), q.src \in Existing, q.src \in Path, q.dst \in Path,
             q.src # q.dst
      PROVE  /\ Total(Bytes(files'), Path) \in Int
             /\ Total(Bytes(files'), Path) <= Total(Bytes(files), Path)
  <2>1. /\ files' \in Disk /\ files'[q.dst] = files[q.src] /\ files'[q.src] = Absent
        /\ \A x \in Path \ {q.src, q.dst} : files'[x] = files[x]
    BY <1>1, <1>3 DEF Disk, Moved
  <2>2. /\ Total(Bytes(files'), Path) = Total(Bytes(files), Path) - Bytes(files)[q.dst]
        /\ Bytes(files)[q.dst] \in Nat
    BY <1>1, <1>3, <2>1, MoveFacts
  <2> QED BY <1>1, <2>2
<1>4. CASE Remove(w)
  <2>1. q.tree \in SUBSET Path
    BY <1>1 DEF Job
  <2> QED BY <1>1, <1>2, <1>4, <2>1 DEF Remove, Keeps
<1>5. CASE \E some \in SUBSET Path : RemoveFails(w, some)
  <2>1. PICK some \in SUBSET Path : RemoveFails(w, some)
    BY <1>5
  <2> QED BY <1>1, <1>2, <2>1 DEF RemoveFails, Keeps
<1>6. CASE Rename(w)
  <2>1. q.at = "rename" /\ q.src \in Path /\ q.dst \in Path /\ q.src # q.dst
    BY <1>1, <1>6, IdleFacts DEF Rename, Shape
  <2>2. CASE q.src \in Existing
    BY <1>1, <1>3, <1>6, <2>1, <2>2 DEF Rename, Keeps
  <2>3. CASE q.src \notin Existing
    BY <1>6, <2>3, SameFilesKeep DEF Rename
  <2> QED BY <2>2, <2>3
<1>7. CASE MoveFile(w)
  <2>1. q.src \in Path /\ q.dst \in Path /\ q.src # q.dst
    BY <1>7, ApplyFacts DEF MoveFile
  <2> QED BY <1>1, <1>3, <1>7, <2>1 DEF MoveFile, Keeps
<1> QED BY <1>4, <1>5, <1>6, <1>7

\* So no step of a request that has met no other takes the files beyond the quota, but by
\* the bytes the row was left behind.
LEMMA StepKeeps == ASSUME Inv, Next, NEW w \in Worker, job[w].solo PROVE Keeps(w)
<1>1. CASE Restart
  BY <1>1, SameFilesKeep DEF Restart
<1>2. ASSUME NEW v \in Worker, v # w,
             DavStep(v) \/ PanelStep(v) \/ UploadStep(v) \/ RecalculateStep(v)
      PROVE  Keeps(w)
  BY <1>2, OnlyOneActs, SameFilesKeep
<1>3. CASE DavStep(w)
  <2>1. \/ files' = files \/ Publish(w) \/ Remove(w) \/ Rename(w)
        \/ \E some \in SUBSET Path : RemoveFails(w, some)
    BY <1>3 DEF DavStep, ArriveDav, Arrive, Begin, Refused, Fails, Open, Measure,
       CommitRemoval, Commit, CommitFails, Body
  <2> QED BY <2>1, SameFilesKeep, PublishKeeps, OthersShrink
<1>4. CASE PanelStep(w)
  <2>1. \/ files' = files \/ MoveFile(w) \/ CopyFile(w)
        \/ \E p \in Path : \E n \in 0 .. files[p] : CopyFails(w, n)
    BY <1>4 DEF PanelStep, ArrivePanel, Arrive, Begin, Check
  <2>2. CASE CopyFile(w)
    <3> DEFINE n == IF job[w].src = job[w].dst THEN 0 ELSE files[job[w].src]
    <3>1. n \in Nat /\ n <= files[job[w].src]
      BY <2>2, JobFacts DEF CopyFile, Existing, Disk, Absent
    <3>2. clean => drift' = drift + (n - files[job[w].src])
      BY <2>2 DEF CopyFile, Drifts
    <3>3. files' = [files EXCEPT ![job[w].dst] = n]
      BY <2>2 DEF CopyFile
    <3>4. /\ drift \in Int /\ files[job[w].src] \in Nat
          /\ job[w].kind = "panelCopy" /\ job[w].at = "apply" /\ job[w].src \in Existing
      BY <2>2, JobFacts DEF CopyFile, Existing, Disk, Absent
    <3> HIDE DEF n
    <3>5. clean => drift' = drift + n - files[job[w].src]
      BY <3>1, <3>2, <3>4
    <3>6. clean => Keeps(w)
      BY <3>1, <3>3, <3>4, <3>5, CopyKeeps DEF Copies
    <3> QED BY <3>6 DEF Keeps
  <2>3. ASSUME NEW p \in Path, NEW n \in 0 .. files[p], CopyFails(w, n) PROVE Keeps(w)
    <3>1. n \in Nat
      BY JobFacts DEF Disk, Absent
    <3>2. /\ job[w].kind = "panelCopy" /\ job[w].at = "apply" /\ job[w].src \in Existing
          /\ files' = [files EXCEPT ![job[w].dst] = n]
          /\ clean => drift' = drift + (n - BytesOf({job[w].dst}))
      BY <2>3 DEF CopyFails, Drifts
    <3>3. n <= files[job[w].src] /\ drift \in Int
      BY <2>3, <3>2, JobFacts DEF CopyFails, Existing, Disk, Absent
    <3>4. BytesOf({job[w].dst}) \in Nat
      BY <3>2, ApplyFacts, BytesOfTotal, BytesTyped
    <3>5. clean => drift' = drift + n - BytesOf({job[w].dst})
      BY <3>1, <3>2, <3>3, <3>4
    <3>6. clean => Keeps(w)
      BY <3>1, <3>2, <3>3, <3>5, CopyKeeps DEF Copies
    <3> QED BY <3>6 DEF Keeps
  <2> QED BY <2>1, <2>2, <2>3, SameFilesKeep, OthersShrink
<1>5. CASE UploadStep(w)
  <2>1. files' = files \/ Place(w)
    BY <1>5 DEF UploadStep, ArriveUpload, Begin, Abandon, Complete, ChunkCut
  <2> QED BY <2>1, SameFilesKeep, PlaceKeeps
<1>6. CASE RecalculateStep(w)
  BY <1>6, SameFilesKeep DEF RecalculateStep, ArriveRecalculate, Begin, SetUsage, Walk
<1> QED BY <1>1, <1>2, <1>3, <1>4, <1>5, <1>6 DEF Next

\* A request that meets no other lets the files grow to the quota and what the row was
\* left behind, at the most.
THEOREM QuotaIsKept == Spec => QuotaKept
<1> DEFINE Kept == \A w \in Worker :
             Quota > 0 /\ clean /\ job[w].solo /\ BytesOf(Path)' > BytesOf(Path)
               => BytesOf(Path)' <= Quota + drift'
<1>1. Inv /\ [Next]_vars => [Kept]_vars
  <2> SUFFICES ASSUME Inv, Next, NEW w \in Worker,
                      Quota > 0, clean, job[w].solo, BytesOf(Path)' > BytesOf(Path)
               PROVE  BytesOf(Path)' <= Quota + drift'
    OBVIOUS
  <2>1. Keeps(w)
    BY StepKeeps
  <2>2. /\ BytesOf(Path) = Total(Bytes(files), Path)
        /\ BytesOf(Path)' = Total(Bytes(files'), Path)
    BY DEF BytesOf, Bytes
  <2> QED BY <2>1, <2>2 DEF Keeps
<1> QED BY <1>1, Invariant, PTL DEF Spec, QuotaKept

\* Where storage_dir is absolute, a recalculation that runs alone leaves the bytes of the
\* files in the row.
THEOREM RecalculationIsRight == ASSUME StorageIsAbsolute PROVE Spec => RecalculationCorrects
<1> DEFINE Right == \A w \in Worker : SetUsage(w) /\ job[w].solo => usage' = BytesOf(Path)
<1>1. Inv /\ [Next]_vars => [Right]_vars
  <2> SUFFICES ASSUME Inv, NEW w \in Worker, SetUsage(w), job[w].solo
               PROVE  usage' = BytesOf(Path)
    OBVIOUS
  <2>1. job[w].at = "set" /\ usage' = job[w].size
    BY DEF SetUsage, Recalculated
  <2>2. job[w].size + Total(Bytes(files), {}) = Total(Bytes(files), Path)
    BY <2>1, JobFacts DEF Knows
  <2>3. job[w].size \in Nat
    BY JobFacts DEF Job
  <2> QED BY <2>1, <2>2, <2>3, TotalEmpty, BytesOfTotal
<1> QED BY <1>1, Invariant, PTL DEF Spec, RecalculationCorrects
=============================================================================
