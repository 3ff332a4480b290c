------------------------ MODULE UploadSessionProofs ------------------------
(***************************************************************************)
(* Proofs about UploadSession, for a file, a chunk size, a number of       *)
(* parallel workers and of attempts of any size: what the session counts   *)
(* is what the client's file begins with, whichever of the requests are    *)
(* lost, repeated, late or cut short, and an upload that the panel shows   *)
(* as complete has every byte in place.                                    *)
(*                                                                         *)
(* The argument counts.  The session's next is the number of chunks it     *)
(* accepted; every answer "ok" stands for one of them, so the client's     *)
(* completed never exceeds it, and when completed reaches the number of    *)
(* chunks the session has received the file to its last byte.              *)
(***************************************************************************)
EXTENDS UploadSession, SequenceTheorems, FiniteSetTheorems, TLAPS

-----------------------------------------------------------------------------
(* Chunks and bytes.                                                       *)

\* How much of the file its first n chunks are.
Bytes(n) == AtMost(Size, n * ChunkSize)

\* Division rounds down.
LEMMA DivisionBounds ==
  ASSUME NEW a \in Nat, NEW b \in Nat \ {0}
  PROVE  /\ a \div b \in Nat
         /\ (a \div b) * b <= a
         /\ a < (a \div b) * b + b
OBVIOUS

\* A product does not shrink when a factor grows.
LEMMA ProductGrows ==
  ASSUME NEW a \in Nat, NEW b \in Nat, NEW c \in Nat, a <= b
  PROVE  /\ a * c \in Nat /\ b * c \in Nat /\ a * c <= b * c
         /\ (a + 1) * c = a * c + c
OBVIOUS

\* Every chunk but the last is full, and together they are the file.
LEMMA ChunkFacts ==
  /\ Size \in Nat /\ ChunkSize \in Nat \ {0}
  /\ ChunkCount \in Nat \ {0}
  /\ Bytes(0) = 0
  /\ Bytes(ChunkCount) = Size
  /\ \A n \in Chunks : /\ n \in Nat /\ n + 1 \in 0 .. ChunkCount
                       /\ Bytes(n) = n * ChunkSize
                       /\ Bytes(n + 1) = AtMost(Size, (n + 1) * ChunkSize)
                       /\ Bytes(n) \in 0 .. Size /\ Bytes(n + 1) \in Bytes(n) .. Size
<1>1. Size \in Nat /\ ChunkSize \in Nat \ {0}
  BY UploadAssumption
<1>2. ChunkCount \in Nat \ {0} /\ ChunkCount * ChunkSize >= Size
      /\ (ChunkCount - 1) * ChunkSize <= Size
  <2>1. CASE Size = 0
    BY <1>1, <2>1 DEF ChunkCount
  <2>2. CASE Size # 0
    <3> DEFINE q == (Size + ChunkSize - 1) \div ChunkSize
    <3>1. Size + ChunkSize - 1 \in Nat
      BY <1>1
    <3>2. q \in Nat /\ q * ChunkSize <= Size + ChunkSize - 1
          /\ Size + ChunkSize - 1 < q * ChunkSize + ChunkSize
      BY <1>1, <3>1, DivisionBounds
    <3>3. ChunkCount = q
      BY <2>2 DEF ChunkCount
    <3> HIDE DEF q
    <3>4. q # 0
      BY <1>1, <2>2, <3>2
    <3>5. (q - 1) * ChunkSize + ChunkSize = q * ChunkSize
      <4>1. q - 1 \in Nat
        BY <3>2, <3>4
      <4>2. (q - 1 + 1) * ChunkSize = (q - 1) * ChunkSize + ChunkSize
        BY <1>1, <4>1, ProductGrows
      <4> QED BY <3>2, <4>2
    <3>6. (q - 1) * ChunkSize \in Nat /\ q * ChunkSize \in Nat
      BY <1>1, <3>2, <3>4, ProductGrows
    <3> QED BY <1>1, <3>2, <3>3, <3>4, <3>5, <3>6
  <2> QED BY <2>1, <2>2
<1>3. Bytes(0) = 0
  BY <1>1 DEF Bytes, AtMost
<1>4. Bytes(ChunkCount) = Size
  <2>1. ChunkCount * ChunkSize \in Nat
    BY <1>1, <1>2, ProductGrows
  <2> QED BY <1>1, <1>2, <2>1 DEF Bytes, AtMost
<1>5. ASSUME NEW n \in Chunks
      PROVE  /\ n \in Nat /\ n + 1 \in 0 .. ChunkCount
             /\ Bytes(n) = n * ChunkSize
             /\ Bytes(n + 1) = AtMost(Size, (n + 1) * ChunkSize)
             /\ Bytes(n) \in 0 .. Size /\ Bytes(n + 1) \in Bytes(n) .. Size
  <2>1. n \in Nat /\ n <= ChunkCount - 1 /\ ChunkCount - 1 \in Nat
    BY <1>2 DEF Chunks
  <2>2. n * ChunkSize \in Nat /\ n * ChunkSize <= Size
        /\ (n + 1) * ChunkSize = n * ChunkSize + ChunkSize
    <3>1. /\ n * ChunkSize \in Nat /\ (ChunkCount - 1) * ChunkSize \in Nat
          /\ n * ChunkSize <= (ChunkCount - 1) * ChunkSize
          /\ (n + 1) * ChunkSize = n * ChunkSize + ChunkSize
      BY <1>1, <2>1, ProductGrows
    <3> QED BY <1>1, <1>2, <3>1
  <2>3. n + 1 \in 0 .. ChunkCount
    BY <1>2, <2>1
  <2> QED BY <1>1, <2>1, <2>2, <2>3 DEF Bytes, AtMost
<1> QED BY <1>1, <1>2, <1>3, <1>4, <1>5

\* The file is told by the positions of its bytes.
LEMMA FileIs ==
  /\ File \in Seq(1 .. Size) /\ Len(File) = Size
  /\ \A i \in 1 .. Size : File[i] = i
BY UploadAssumption DEF File

\* A chunk of the file, byte by byte.
LEMMA PartIs ==
  ASSUME NEW n \in Chunks
  PROVE  /\ Part(n) = SubSeq(File, Bytes(n) + 1, Bytes(n + 1))
         /\ Part(n) \in Seq(1 .. Size)
         /\ Len(Part(n)) = Bytes(n + 1) - Bytes(n)
         /\ \A i \in 1 .. Len(Part(n)) : Part(n)[i] = Bytes(n) + i
<1>1. /\ Size \in Nat /\ Bytes(n) \in 0 .. Size /\ Bytes(n + 1) \in Bytes(n) .. Size
      /\ Part(n) = SubSeq(File, Bytes(n) + 1, Bytes(n + 1))
  BY ChunkFacts DEF Part
<1>2. \A i \in Bytes(n) + 1 .. Bytes(n + 1) : File[i] \in 1 .. Size /\ File[i] = i
  <2>1. \A a, b \in 0 .. Size : \A i \in a + 1 .. b : i \in 1 .. Size
    BY <1>1
  <2>2. Bytes(n + 1) \in 0 .. Size
    BY <1>1
  <2>3. \A i \in Bytes(n) + 1 .. Bytes(n + 1) : i \in 1 .. Size
    BY <1>1, <2>1, <2>2
  <2> QED BY <2>3, FileIs
<1>3. /\ Part(n) \in Seq(1 .. Size)
      /\ Len(Part(n)) = IF Bytes(n) + 1 <= Bytes(n + 1)
                        THEN Bytes(n + 1) - (Bytes(n) + 1) + 1 ELSE 0
      /\ \A i \in 1 .. Bytes(n + 1) - (Bytes(n) + 1) + 1 :
           Part(n)[i] = File[Bytes(n) + 1 + i - 1]
  BY <1>1, <1>2, SubSeqProperties
<1>4. Len(Part(n)) = Bytes(n + 1) - Bytes(n)
  BY <1>1, <1>3
<1>5. ASSUME NEW i \in 1 .. Len(Part(n)) PROVE Part(n)[i] = Bytes(n) + i
  <2>1. i \in 1 .. Bytes(n + 1) - (Bytes(n) + 1) + 1
    BY <1>1, <1>4
  <2>2. Part(n)[i] = File[Bytes(n) + 1 + i - 1] /\ Bytes(n) + 1 + i - 1 = Bytes(n) + i
    BY <1>1, <1>3, <2>1
  <2>3. Bytes(n) + i \in Bytes(n) + 1 .. Bytes(n + 1)
    BY <1>1, <2>1
  <2>4. File[Bytes(n) + i] = Bytes(n) + i
    BY <1>2, <2>3
  <2> QED BY <2>2, <2>4
<1> QED BY <1>1, <1>3, <1>4, <1>5

-----------------------------------------------------------------------------
(* The session.                                                            *)

Sessions == [open : BOOLEAN, total : Nat, received : Nat, next : 0 .. ChunkCount,
             temp : BOOLEAN, payload : Seq(1 .. Size)]

\* What a session counts is what its first next chunks hold, and no more than was
\* declared.
Counts(s) ==
  /\ s.received = Bytes(s.next) /\ s.received <= s.total
  /\ s.open => s.total \in Declared

\* Every byte that is counted is in the temporary file.
Holds(s) ==
  s.temp => \A i \in 1 .. s.received : \E j \in DOMAIN s.payload : s.payload[j] = i

\* The temporary file is the beginning of the client's.
Begins(s) == s.temp => s.payload = SubSeq(File, 1, s.received)

\* What a chunk request does to a session that accepts it, with as much of its body
\* as arrives.
LEMMA WriteChunkSound ==
  ASSUME sess \in Sessions, Counts(sess), Holds(sess),
         NEW n \in Chunks, Accepts(n), NEW got \in 0 .. Len(Part(n))
  PROVE  LET s1 == WriteChunk(n, got)
         IN  /\ s1 \in Sessions /\ Counts(s1) /\ Holds(s1)
             /\ s1.next \in {n, n + 1}
             /\ got = Len(Part(n)) /\ got <= Remaining => s1.next = n + 1
             /\ Begins(sess) /\ got \in {0, Len(Part(n))} => Begins(s1)
<1> DEFINE body == SubSeq(Part(n), 1, got)
           s1 == WriteChunk(n, got)
<1>1. /\ sess.open /\ n = sess.next /\ sess.temp
      /\ sess.received = Bytes(n) /\ sess.received <= sess.total /\ sess.total \in Declared
      /\ sess.received \in Nat /\ sess.total \in Nat /\ sess.payload \in Seq(1 .. Size)
  BY DEF Sessions, Counts, Accepts
<1>2. /\ n \in Nat /\ n + 1 \in 0 .. ChunkCount /\ Size \in Nat
      /\ Bytes(n) \in 0 .. Size /\ Bytes(n + 1) \in Bytes(n) .. Size
  BY ChunkFacts
<1>3. /\ Part(n) = SubSeq(File, Bytes(n) + 1, Bytes(n + 1))
      /\ Part(n) \in Seq(1 .. Size)
      /\ Len(Part(n)) = Bytes(n + 1) - Bytes(n)
      /\ \A i \in 1 .. Len(Part(n)) : Part(n)[i] = Bytes(n) + i
  BY PartIs
<1>4. Remaining \in Nat /\ Remaining = sess.total - sess.received
  BY <1>1 DEF Remaining
<1>5. /\ body \in Seq(1 .. Size) /\ Len(body) = got
      /\ \A i \in 1 .. got : body[i] = Bytes(n) + i
  <2>1. got \in Nat /\ got <= Len(Part(n))
    BY <1>2, <1>3
  <2>2. \A i \in 1 .. got : Part(n)[i] \in 1 .. Size
    <3> SUFFICES ASSUME NEW i \in 1 .. got PROVE Part(n)[i] \in 1 .. Size
      OBVIOUS
    <3>1. i \in 1 .. Len(Part(n))
      BY <2>1
    <3> QED BY <1>3, <3>1, ElementOfSeq
  <2>3. /\ body \in Seq(1 .. Size)
        /\ Len(body) = IF 1 <= got THEN got - 1 + 1 ELSE 0
        /\ \A i \in 1 .. got - 1 + 1 : body[i] = Part(n)[1 + i - 1]
    BY <2>1, <2>2, SubSeqProperties
  <2>4. ASSUME NEW i \in 1 .. got PROVE body[i] = Bytes(n) + i
    <3>1. i \in 1 .. got - 1 + 1 /\ i \in 1 .. Len(Part(n)) /\ 1 + i - 1 = i
      BY <2>1
    <3> QED BY <1>3, <2>3, <3>1
  <2> QED BY <2>1, <2>3, <2>4
<1> HIDE DEF body
<1>6. /\ sess.payload \o body \in Seq(1 .. Size)
      /\ Len(sess.payload \o body) = Len(sess.payload) + got
      /\ \A j \in 1 .. Len(sess.payload) : (sess.payload \o body)[j] = sess.payload[j]
      /\ \A i \in 1 .. got : (sess.payload \o body)[Len(sess.payload) + i] = Bytes(n) + i
      /\ DOMAIN sess.payload = 1 .. Len(sess.payload)
      /\ DOMAIN (sess.payload \o body) = 1 .. Len(sess.payload) + got
      /\ Len(sess.payload) \in Nat
  <2>1. /\ sess.payload \o body \in Seq(1 .. Size)
        /\ Len(sess.payload \o body) = Len(sess.payload) + got
        /\ \A i \in 1 .. Len(sess.payload) + got :
              (sess.payload \o body)[i] = IF i <= Len(sess.payload) THEN sess.payload[i]
                                         ELSE body[i - Len(sess.payload)]
    <3>1. /\ sess.payload \o body \in Seq(1 .. Size)
          /\ Len(sess.payload \o body) = Len(sess.payload) + Len(body)
          /\ \A i \in 1 .. Len(sess.payload) + Len(body) :
                (sess.payload \o body)[i] = IF i <= Len(sess.payload) THEN sess.payload[i]
                                           ELSE body[i - Len(sess.payload)]
      <4>1. sess.payload \in Seq(1 .. Size) /\ body \in Seq(1 .. Size)
        BY <1>1, <1>5
      <4> QED BY <4>1, ConcatProperties
    <3> QED BY <1>5, <3>1
  <2>2. Len(sess.payload) \in Nat /\ DOMAIN sess.payload = 1 .. Len(sess.payload)
        /\ DOMAIN (sess.payload \o body) = 1 .. Len(sess.payload \o body)
    BY <1>1, <2>1, LenProperties
  <2>3. got \in Nat
    BY <1>2, <1>3
  <2>4. ASSUME NEW j \in 1 .. Len(sess.payload)
        PROVE  (sess.payload \o body)[j] = sess.payload[j]
    <3>1. j \in 1 .. Len(sess.payload) + got /\ j <= Len(sess.payload)
      BY <2>2, <2>3
    <3> QED BY <2>1, <3>1
  <2>5. ASSUME NEW i \in 1 .. got
        PROVE  (sess.payload \o body)[Len(sess.payload) + i] = Bytes(n) + i
    <3>1. /\ Len(sess.payload) + i \in 1 .. Len(sess.payload) + got
          /\ ~(Len(sess.payload) + i <= Len(sess.payload))
          /\ Len(sess.payload) + i - Len(sess.payload) = i
      BY <2>2, <2>3
    <3> QED BY <1>5, <2>1, <3>1
  <2> QED BY <2>1, <2>2, <2>4, <2>5
<1>7. CASE got > Remaining
  <2>1. s1 = [sess EXCEPT !.open = FALSE, !.temp = FALSE, !.payload = << >>]
    BY <1>7 DEF WriteChunk
  <2>2. << >> \in Seq(1 .. Size)
    BY EmptySeq
  <2>3. s1 \in Sessions
    BY <2>1, <2>2 DEF Sessions
  <2>4. /\ ~s1.open /\ ~s1.temp /\ s1.next = n
        /\ s1.received = sess.received /\ s1.total = sess.total
    BY <1>1, <2>1 DEF Sessions
  <2>5. ~(got <= Remaining)
    BY <1>2, <1>3, <1>4, <1>7
  <2> HIDE DEF s1
  <2>6. Counts(s1) /\ Holds(s1) /\ Begins(s1)
    BY <1>1, <2>4 DEF Counts, Holds, Begins
  <2> QED BY <2>3, <2>4, <2>5, <2>6 DEF s1
<1>8. CASE ~(got > Remaining) /\ got < Len(Part(n))
  <2>1. s1 = [sess EXCEPT !.payload = @ \o body]
    BY <1>8 DEF WriteChunk, body
  <2>2. s1 \in Sessions
    BY <1>6, <2>1 DEF Sessions
  <2>3. /\ s1.open = sess.open /\ s1.temp = sess.temp /\ s1.next = n
        /\ s1.received = sess.received /\ s1.total = sess.total
        /\ s1.payload = sess.payload \o body
    BY <1>1, <2>1 DEF Sessions
  <2>4. got # Len(Part(n))
    BY <1>2, <1>3, <1>8
  <2> HIDE DEF s1
  <2>5. Counts(s1)
    BY <1>1, <2>3 DEF Counts
  <2>6. Holds(s1)
    <3> SUFFICES ASSUME NEW i \in 1 .. sess.received
                 PROVE  \E j \in DOMAIN (sess.payload \o body) :
                          (sess.payload \o body)[j] = i
      BY <2>3 DEF Holds
    <3>1. PICK j \in DOMAIN sess.payload : sess.payload[j] = i
      BY <1>1 DEF Holds
    <3>2. j \in DOMAIN (sess.payload \o body)
      BY <1>2, <1>3, <1>6
    <3> QED BY <1>6, <3>1, <3>2
  <2>7. ASSUME Begins(sess), got \in {0, Len(Part(n))} PROVE Begins(s1)
    <3>1. got = 0
      BY <2>4, <2>7
    <3>2. body = << >>
      BY <1>5, <3>1, EmptySeq
    <3>3. sess.payload \o body = sess.payload
      BY <1>1, <3>2, ConcatEmptySeq
    <3> QED BY <2>3, <2>7, <3>3 DEF Begins
  <2> QED BY <2>2, <2>3, <2>4, <2>5, <2>6, <2>7 DEF s1
<1>9. CASE ~(got > Remaining) /\ ~(got < Len(Part(n)))
  <2>1. s1 = [sess EXCEPT !.payload = @ \o body, !.received = @ + got, !.next = @ + 1]
    BY <1>9 DEF WriteChunk, body
  <2>2. /\ got \in Nat /\ got = Len(Part(n)) /\ sess.received + got = Bytes(n + 1)
        /\ sess.received + got <= sess.total
    <3>1. got \in Nat /\ got <= Len(Part(n)) /\ Len(Part(n)) \in Nat
      BY <1>2, <1>3
    <3>2. got = Len(Part(n))
      BY <1>9, <3>1
    <3>3. got <= Remaining
      BY <1>4, <1>9, <3>1
    <3>4. Bytes(n) \in Int /\ Bytes(n + 1) \in Int /\ got = Bytes(n + 1) - Bytes(n)
      BY <1>2, <1>3, <3>2
    <3>5. sess.received + got = Bytes(n + 1)
      BY <1>1, <3>4
    <3>6. sess.received + got <= sess.total
      BY <1>1, <1>4, <3>1, <3>3
    <3> QED BY <3>1, <3>2, <3>5, <3>6
  <2>3. s1 \in Sessions
    <3>1. sess.received + got \in Nat /\ sess.next + 1 \in 0 .. ChunkCount
      BY <1>1, <1>2, <2>2
    <3>2. sess.payload \o body \in Seq(1 .. Size)
      BY <1>6
    <3> HIDE DEF s1
    <3> QED BY <2>1, <3>1, <3>2 DEF Sessions
  <2>4. /\ s1.open = sess.open /\ s1.temp = sess.temp /\ s1.next = n + 1
        /\ s1.received = Bytes(n + 1) /\ s1.total = sess.total
        /\ s1.payload = sess.payload \o body
    BY <1>1, <2>1, <2>2 DEF Sessions
  <2> HIDE DEF s1
  <2>5. Counts(s1)
    BY <1>1, <2>2, <2>4 DEF Counts
  <2>6. Holds(s1)
    <3> SUFFICES ASSUME NEW i \in 1 .. Bytes(n + 1)
                 PROVE  \E j \in DOMAIN (sess.payload \o body) :
                          (sess.payload \o body)[j] = i
      BY <2>4 DEF Holds
    <3>1. CASE i <= Bytes(n)
      <4>1. i \in 1 .. sess.received
        BY <1>1, <1>2, <3>1
      <4>2. PICK j \in DOMAIN sess.payload : sess.payload[j] = i
        BY <1>1, <4>1 DEF Holds
      <4>3. j \in DOMAIN (sess.payload \o body)
        BY <1>6, <2>2
      <4> QED BY <1>6, <4>2, <4>3
    <3>2. CASE ~(i <= Bytes(n))
      <4>1. i - Bytes(n) \in 1 .. got /\ Bytes(n) + (i - Bytes(n)) = i
        BY <1>1, <1>2, <2>2, <3>2
      <4>2. Len(sess.payload) + (i - Bytes(n)) \in DOMAIN (sess.payload \o body)
        <5>1. Len(sess.payload) \in Nat /\ got \in Nat /\ i - Bytes(n) \in 1 .. got
          BY <1>6, <2>2, <4>1
        <5>2. \A d \in 1 .. got : Len(sess.payload) + d \in 1 .. Len(sess.payload) + got
          BY <5>1
        <5> QED BY <1>6, <5>1, <5>2
      <4> QED BY <1>6, <4>1, <4>2
    <3> QED BY <3>1, <3>2
  <2>7. ASSUME Begins(sess) PROVE Begins(s1)
    <3>1. body = Part(n)
      <4>1. body = SubSeq(Part(n), 1, Len(Part(n)))
        BY <2>2 DEF body
      <4> QED BY <1>3, <4>1, SubSeqFull
    <3>2. sess.payload = SubSeq(File, 1, Bytes(n))
      BY <1>1, <2>7 DEF Begins
    <3>3. SubSeq(File, 1, Bytes(n)) \o SubSeq(File, Bytes(n) + 1, Bytes(n + 1))
            = SubSeq(File, 1, Bytes(n + 1))
      <4>1. /\ File \in Seq(1 .. Size) /\ 1 \in 1 .. Len(File) + 1
            /\ Bytes(n) \in 1 - 1 .. Len(File) /\ Bytes(n + 1) \in Bytes(n) .. Len(File)
        BY <1>2, FileIs
      <4> QED BY <4>1, ConcatAdjacentSubSeq
    <3> QED BY <1>3, <2>4, <3>1, <3>2, <3>3 DEF Begins
  <2> QED BY <2>2, <2>3, <2>4, <2>5, <2>6, <2>7 DEF s1
<1> QED BY <1>7, <1>8, <1>9

-----------------------------------------------------------------------------
(* The inductive invariant.                                                *)

\* The answers "ok" that have not been taken up yet.
Answered(w) == {k \in Workers : w[k].at = "ok"}

\* An upload begins with nothing sent; its completion is asked for once.
Stages(c, w) ==
  /\ c.phase = "start" => c.completed = 0 /\ \A k \in Workers : w[k].at = "off"
  /\ c.completing => c.phase \in {"completing", "failed"}

\* Every chunk that the client counts, or is about to count, is one that the session
\* counts.
Acknowledged(c, w, s) ==
  c.phase \in {"start", "chunks"} \/ c.completing =>
    c.completed + Cardinality(Answered(w)) <= s.next

\* What was put in place is the beginning of the client's file.
StoredBegins(st) ==
  st # Nothing => Len(st) \in Declared /\ st = SubSeq(File, 1, Len(st))

\* An upload shown as complete is stored to its last byte.
StoredWhole(c, st) ==
  c.phase = "complete" =>
    st # Nothing /\ \A i \in 1 .. Size : \E j \in DOMAIN st : st[j] = i

Clients == [phase : {"start", "chunks", "completing", "complete", "failed"},
            queue : 0 .. ChunkCount, completed : 0 .. ChunkCount,
            failure : BOOLEAN, completing : BOOLEAN]

WorkerState == [at : {"off", "sent", "ok", "error"}, idx : Chunks, attempt : 1 .. MaxAttempts]

Strays == [idx : Chunks, attempt : 1 .. MaxAttempts]

Typed(c, w, s, st, sr) ==
  /\ c \in Clients /\ w \in [Workers -> WorkerState] /\ s \in Sessions
  /\ st = Nothing \/ st \in Seq(1 .. Size)
  /\ sr \subseteq Strays

\* The two halves of the invariant: what the session and the file in place are, and what
\* the client may conclude from its answers.
FileSound(s, st, ct) ==
  /\ Counts(s) /\ Holds(s)
  /\ ct \in BOOLEAN
  /\ ~ct => Begins(s) /\ StoredBegins(st)

ClientSound(c, w, s, st) ==
  Stages(c, w) /\ Acknowledged(c, w, s) /\ StoredWhole(c, st)

Inv ==
  /\ Typed(client, worker, sess, stored, strays)
  /\ FileSound(sess, stored, cut)
  /\ ClientSound(client, worker, sess, stored)
  /\ trouble \in BOOLEAN

\* What the runs check follows from the invariant.
LEMMA InvMeans ==
  Inv => TypeOK /\ AcceptedOnceInOrder /\ CompleteMeansStored
<1> SUFFICES ASSUME Inv PROVE TypeOK /\ AcceptedOnceInOrder /\ CompleteMeansStored
  OBVIOUS
<1>1. TypeOK
  BY DEF Inv, Typed, FileSound, TypeOK, Clients, WorkerState, Sessions, Strays
<1>2. AcceptedOnceInOrder
  BY DEF Inv, FileSound, Counts, Begins, StoredBegins, AcceptedOnceInOrder, Bytes
<1>3. CompleteMeansStored
  BY DEF Inv, ClientSound, StoredWhole, CompleteMeansStored
<1> QED BY <1>1, <1>2, <1>3

\* Workers are numbered, no more than there are chunks.
LEMMA WorkerFacts ==
  /\ Workers \subseteq Nat /\ IsFiniteSet(Workers)
  /\ Cardinality(Workers) \in 0 .. ChunkCount
  /\ \A k \in Workers : k - 1 \in Chunks
  /\ Resting \in WorkerState
  /\ MaxAttempts \in Nat \ {0}
<1> DEFINE w == AtMost(Concurrency, ChunkCount)
<1>1. ChunkCount \in Nat \ {0}
  BY ChunkFacts
<1>2. /\ w \in Nat \ {0} /\ w <= ChunkCount
      /\ MaxAttempts \in Nat \ {0}
  BY <1>1, UploadAssumption DEF AtMost
<1>3. Workers = 1 .. w
  BY DEF Workers
<1> HIDE DEF w
<1>4. IsFiniteSet(Workers) /\ Cardinality(Workers) = w
  <2>1. IsFiniteSet(1 .. w) /\ Cardinality(1 .. w) = IF 1 > w THEN 0 ELSE w - 1 + 1
    BY <1>2, FS_Interval
  <2> QED BY <1>2, <1>3, <2>1
<1>5. Resting \in WorkerState
  BY <1>1, <1>2 DEF Resting, WorkerState, Chunks
<1>6. \A k \in Workers : k - 1 \in Chunks
  BY <1>1, <1>2, <1>3 DEF Chunks
<1> QED BY <1>1, <1>2, <1>3, <1>4, <1>5, <1>6

\* Taking up an answer, or losing it, leaves one answer less; a new answer makes one more.
LEMMA AnsweredFacts ==
  ASSUME NEW w0 \in [Workers -> WorkerState], NEW w1 \in [Workers -> WorkerState],
         NEW k \in Workers, \A j \in Workers : j # k => w1[j] = w0[j]
  PROVE  /\ Cardinality(Answered(w0)) \in Nat /\ Cardinality(Answered(w1)) \in Nat
         /\ w1[k].at # "ok" => Cardinality(Answered(w1)) <= Cardinality(Answered(w0))
         /\ w1[k].at # "ok" /\ w0[k].at = "ok" =>
              Cardinality(Answered(w1)) = Cardinality(Answered(w0)) - 1
         /\ Cardinality(Answered(w1)) <= Cardinality(Answered(w0)) + 1
<1>1. IsFiniteSet(Answered(w0)) /\ IsFiniteSet(Answered(w1))
  BY WorkerFacts, FS_Subset DEF Answered
<1>2. Cardinality(Answered(w0)) \in Nat /\ Cardinality(Answered(w1)) \in Nat
  BY <1>1, FS_CardinalityType
<1>3. CASE w1[k].at # "ok" /\ w0[k].at = "ok"
  <2>1. Answered(w1) = Answered(w0) \ {k} /\ k \in Answered(w0)
    BY <1>3 DEF Answered
  <2>2. Cardinality(Answered(w0) \ {k}) = Cardinality(Answered(w0)) - 1
    BY <1>1, <2>1, FS_RemoveElement
  <2> QED BY <1>2, <1>3, <2>1, <2>2
<1>4. CASE w1[k].at = w0[k].at \/ (w1[k].at # "ok" /\ w0[k].at # "ok")
  <2>1. Answered(w1) = Answered(w0)
    BY <1>4 DEF Answered
  <2> QED BY <1>2, <1>4, <2>1
<1>5. CASE w1[k].at = "ok" /\ w0[k].at # "ok"
  <2>1. Answered(w1) = Answered(w0) \cup {k} /\ k \notin Answered(w0)
    BY <1>5 DEF Answered
  <2>2. Cardinality(Answered(w0) \cup {k}) = Cardinality(Answered(w0)) + 1
    BY <1>1, <2>1, FS_AddElement
  <2> QED BY <1>2, <1>5, <2>1, <2>2
<1> QED BY <1>3, <1>4, <1>5

\* Nobody has answered when no worker is at "ok".
LEMMA NoneAnswered ==
  ASSUME NEW w, \A k \in Workers : w[k].at # "ok"
  PROVE  Cardinality(Answered(w)) = 0
<1>1. Answered(w) = {}
  BY DEF Answered
<1> QED BY <1>1, FS_EmptySet

\* The invariant holds at the start.
LEMMA InitInv == Init => Inv
<1> SUFFICES ASSUME Init PROVE Inv
  OBVIOUS
<1>1. ChunkCount \in Nat \ {0} /\ Size \in Nat /\ Bytes(0) = 0
  BY ChunkFacts
<1>2. << >> \in Seq(1 .. Size)
  BY EmptySeq
<1>3. worker \in [Workers -> WorkerState]
  BY WorkerFacts DEF Init
<1>4. NoSession \in Sessions
  BY <1>1, <1>2 DEF NoSession, Sessions
<1>5. client \in Clients
  BY <1>1 DEF Init, Clients
<1>6. Counts(sess) /\ Holds(sess) /\ Begins(sess)
  BY <1>1 DEF Init, NoSession, Counts, Holds, Begins
<1>7. Cardinality(Answered(worker)) = 0
  <2>1. \A k \in Workers : worker[k].at # "ok"
    BY DEF Init, Resting
  <2> QED BY <2>1, NoneAnswered
<1>8. ClientSound(client, worker, sess, stored)
  BY <1>7 DEF Init, Resting, NoSession, ClientSound, Acknowledged, Stages, StoredWhole
<1>9. FileSound(sess, stored, cut)
  BY <1>6 DEF Init, FileSound, StoredBegins
<1>10. Typed(client, worker, sess, stored, strays)
  BY <1>3, <1>4, <1>5 DEF Init, Typed
<1> QED BY <1>8, <1>9, <1>10 DEF Init, Inv

-----------------------------------------------------------------------------
(* The steps of the client.                                                *)

\* The session is created and the workers start.
LEMMA CreateInv ==
  ASSUME Inv, NEW total \in Declared, CreateSession(total)
  PROVE  Inv'
<1>1. /\ client \in Clients /\ client.phase = "start" /\ client.completed = 0
      /\ ~client.completing
      /\ stored = Nothing \/ stored \in Seq(1 .. Size)
      /\ strays \subseteq Strays
      /\ ~cut => StoredBegins(stored)
  BY DEF Inv, Typed, CreateSession, ClientSound, Stages, FileSound
<1>2. /\ client' = [client EXCEPT !.phase = "chunks", !.queue = Cardinality(Workers)]
      /\ worker' = [k \in Workers |-> [at |-> "sent", idx |-> k - 1, attempt |-> 1]]
      /\ sess' = [NoSession EXCEPT !.open = TRUE, !.total = total, !.temp = TRUE]
      /\ stored' = stored /\ strays' = strays /\ cut' = cut /\ trouble' \in BOOLEAN
  BY DEF CreateSession
<1>3. ChunkCount \in Nat \ {0} /\ Size \in Nat /\ Bytes(0) = 0
  BY ChunkFacts
<1>4. << >> \in Seq(1 .. Size) /\ total \in Nat
  BY <1>3, EmptySeq, UploadAssumption
<1>5. client' \in Clients
  BY <1>1, <1>2, WorkerFacts DEF Clients
<1>6. worker' \in [Workers -> WorkerState]
  BY <1>2, WorkerFacts DEF WorkerState
<1>7. sess' = [open |-> TRUE, total |-> total, received |-> 0, next |-> 0,
               temp |-> TRUE, payload |-> << >>]
  BY <1>2 DEF NoSession
<1>8. sess' \in Sessions
  BY <1>3, <1>4, <1>7 DEF Sessions
<1>9. Counts(sess') /\ Holds(sess') /\ Begins(sess')
  BY <1>3, <1>4, <1>7 DEF Counts, Holds, Begins
<1>10. Cardinality(Answered(worker')) = 0
  <2>1. \A k \in Workers : worker'[k].at # "ok"
    BY <1>2
  <2> QED BY <2>1, NoneAnswered
<1>11. client'.phase = "chunks" /\ client'.completed = 0 /\ ~client'.completing
  BY <1>1, <1>2 DEF Clients
<1>12. ClientSound(client', worker', sess', stored')
  BY <1>7, <1>10, <1>11 DEF ClientSound, Acknowledged, Stages, StoredWhole
<1>13. FileSound(sess', stored', cut')
  BY <1>1, <1>2, <1>9 DEF Inv, FileSound
<1>14. Typed(client', worker', sess', stored', strays')
  BY <1>1, <1>2, <1>5, <1>6, <1>8 DEF Typed
<1> QED BY <1>2, <1>12, <1>13, <1>14 DEF Inv

\* A step of a worker that leaves the session alone and counts an answer at most.
LEMMA WorkerStep ==
  ASSUME Inv, NEW k \in Workers,
         worker' \in [Workers -> WorkerState],
         \A j \in Workers : j # k => worker'[j] = worker[j],
         worker'[k].at # "ok",
         client' \in Clients,
         client'.phase = client.phase, client'.completing = client.completing,
         worker[k].at # "off",
         \/ client'.completed = client.completed
         \/ worker[k].at = "ok" /\ client'.completed <= client.completed + 1,
         strays' \subseteq Strays, trouble' \in BOOLEAN,
         sess' = sess, stored' = stored, cut' = cut
  PROVE  Inv'
<1>1. /\ Typed(client, worker, sess, stored, strays) /\ FileSound(sess, stored, cut)
      /\ ClientSound(client, worker, sess, stored)
  BY DEF Inv
<1>2. /\ Cardinality(Answered(worker)) \in Nat /\ Cardinality(Answered(worker')) \in Nat
      /\ Cardinality(Answered(worker')) <= Cardinality(Answered(worker))
      /\ worker[k].at = "ok" =>
           Cardinality(Answered(worker')) = Cardinality(Answered(worker)) - 1
  BY <1>1, AnsweredFacts DEF Typed
<1>3. client.completed \in Nat /\ client'.completed \in Nat /\ sess.next \in Nat
  BY <1>1, ChunkFacts DEF Typed, Clients, Sessions
<1>4. client'.completed + Cardinality(Answered(worker'))
        <= client.completed + Cardinality(Answered(worker))
  BY <1>2, <1>3
<1>5. Acknowledged(client', worker', sess')
  BY <1>1, <1>2, <1>3, <1>4 DEF ClientSound, Acknowledged
<1>6. Stages(client', worker')
  BY <1>1 DEF ClientSound, Stages
<1>7. StoredWhole(client', stored')
  BY <1>1 DEF ClientSound, StoredWhole
<1>8. Typed(client', worker', sess', stored', strays')
  BY <1>1 DEF Typed
<1>9. FileSound(sess', stored', cut')
  BY <1>1
<1> QED BY <1>5, <1>6, <1>7, <1>8, <1>9 DEF Inv, ClientSound

\* An answer "ok" is taken up, and the worker goes on.
LEMMA SucceedsInv ==
  ASSUME Inv, NEW k \in Workers, ChunkSucceeds(k)
  PROVE  Inv'
<1>1. client \in Clients /\ worker \in [Workers -> WorkerState] /\ strays \subseteq Strays
  BY DEF Inv, Typed
<1>2. /\ ChunkCount \in Nat \ {0}
      /\ \A n \in Chunks : n \in Nat /\ n + 1 \in 0 .. ChunkCount
  BY ChunkFacts
<1>3. /\ NextChunk(client) \in WorkerState /\ NextChunk(client).at # "ok"
      /\ client.queue \in Chunks \/ NextChunk(client) = Resting
  BY WorkerFacts DEF NextChunk, WorkerState, Resting
<1>4. /\ worker' = [worker EXCEPT ![k] = NextChunk(client)]
      /\ client' = [client EXCEPT
                      !.completed = AtMost(ChunkCount, @ + 1),
                      !.queue = IF NextChunk(client) = Resting THEN @ ELSE @ + 1]
      /\ sess' = sess /\ stored' = stored /\ cut' = cut
      /\ strays' = strays /\ trouble' = trouble /\ worker[k].at = "ok"
  BY DEF ChunkSucceeds
<1>5. /\ worker' \in [Workers -> WorkerState]
      /\ \A j \in Workers : j # k => worker'[j] = worker[j]
      /\ worker'[k].at # "ok"
  BY <1>1, <1>3, <1>4
<1>6. /\ client.completed \in 0 .. ChunkCount
      /\ AtMost(ChunkCount, client.completed + 1) \in 0 .. ChunkCount
      /\ AtMost(ChunkCount, client.completed + 1) <= client.completed + 1
  BY <1>1, <1>2 DEF AtMost, Clients
<1>7. (IF NextChunk(client) = Resting THEN client.queue ELSE client.queue + 1)
        \in 0 .. ChunkCount
  BY <1>1, <1>2, <1>3 DEF Clients
<1>8. /\ client' \in Clients
      /\ client'.phase = client.phase /\ client'.completing = client.completing
      /\ client'.completed <= client.completed + 1
  BY <1>1, <1>4, <1>6, <1>7 DEF Clients
<1>9. trouble' \in BOOLEAN
  BY <1>4 DEF Inv
<1> QED BY <1>1, <1>4, <1>5, <1>8, <1>9, WorkerStep

\* A worker that tries again has no answer yet.
LEMMA RetryMeans ==
  ASSUME NEW w \in WorkerState, ~GiveUp(w)
  PROVE  Retry(w) \in WorkerState /\ Retry(w).at # "ok"
<1>1. MaxAttempts \in Nat /\ w.attempt \in 1 .. MaxAttempts
  BY WorkerFacts DEF WorkerState
<1>2. w.attempt + 1 \in 1 .. MaxAttempts
  BY <1>1 DEF GiveUp
<1>3. Retry(w) \in WorkerState
  BY <1>2 DEF Retry, WorkerState
<1>4. Retry(w).at = "sent"
  BY DEF Retry, WorkerState
<1> QED BY <1>3, <1>4

\* A worker retries, or gives up and the upload with it.
LEMMA AfterErrorMeans ==
  ASSUME Inv, NEW k \in Workers, AfterError(k)
  PROVE  /\ worker' \in [Workers -> WorkerState]
         /\ \A j \in Workers : j # k => worker'[j] = worker[j]
         /\ worker'[k].at # "ok"
         /\ client' \in Clients
         /\ client'.phase = client.phase /\ client'.completing = client.completing
         /\ client'.completed = client.completed
<1>1. client \in Clients /\ worker \in [Workers -> WorkerState] /\ worker[k] \in WorkerState
  BY DEF Inv, Typed
<1>2. /\ worker' = [worker EXCEPT ![k] = IF GiveUp(worker[k]) THEN Resting ELSE Retry(worker[k])]
      /\ client' = [client EXCEPT !.failure = client.failure \/ GiveUp(worker[k])]
  BY DEF AfterError
<1>3. Resting \in WorkerState /\ Resting.at # "ok"
  BY WorkerFacts DEF Resting
<1>4. ~GiveUp(worker[k]) => Retry(worker[k]) \in WorkerState /\ Retry(worker[k]).at # "ok"
  BY <1>1, RetryMeans
<1>5. (client.failure \/ GiveUp(worker[k])) \in BOOLEAN
  BY DEF GiveUp
<1>6. /\ worker' \in [Workers -> WorkerState] /\ worker'[k].at # "ok"
      /\ \A j \in Workers : j # k => worker'[j] = worker[j]
  BY <1>1, <1>2, <1>3, <1>4
<1>7. /\ client' \in Clients
      /\ client'.phase = client.phase /\ client'.completing = client.completing
      /\ client'.completed = client.completed
  BY <1>1, <1>2, <1>5 DEF Clients
<1> QED BY <1>6, <1>7

\* A chunk that is refused is tried again, or fails the upload.
LEMMA RefusedInv ==
  ASSUME Inv, NEW k \in Workers, ChunkRefused(k)
  PROVE  Inv'
<1>1. /\ worker[k].at = "error" /\ AfterError(k)
      /\ sess' = sess /\ stored' = stored /\ cut' = cut
      /\ strays' = strays /\ trouble' = trouble
  BY DEF ChunkRefused
<1>2. strays' \subseteq Strays /\ trouble' \in BOOLEAN
  BY <1>1 DEF Inv, Typed
<1> QED BY <1>1, <1>2, AfterErrorMeans, WorkerStep

\* The connection of a chunk request is lost; the request may be on its way.
LEMMA LostInv ==
  ASSUME Inv, NEW k \in Workers, ConnectionLost(k)
  PROVE  Inv'
<1>1. /\ worker[k].at # "off" /\ AfterError(k)
      /\ sess' = sess /\ stored' = stored /\ cut' = cut /\ trouble' = TRUE
      /\ strays' = IF worker[k].at = "sent"
                   THEN strays \cup {[idx |-> worker[k].idx, attempt |-> worker[k].attempt]}
                   ELSE strays
  BY DEF ConnectionLost
<1>2. strays' \subseteq Strays
  BY <1>1 DEF Inv, Typed, WorkerState, Strays
<1> QED BY <1>1, <1>2, AfterErrorMeans, WorkerStep

\* A step that only moves the client on, to no completed upload.
LEMMA ClientMoves ==
  ASSUME Inv,
         client' \in Clients, client'.completed = client.completed,
         client'.phase \notin {"start", "complete"},
         client'.completing => client'.phase \in {"completing", "failed"},
         client'.phase = "chunks" \/ client'.completing =>
           client.phase \in {"start", "chunks"} \/ client.completing,
         worker' = worker, sess' = sess, stored' = stored, strays' = strays, cut' = cut,
         trouble' \in BOOLEAN
  PROVE  Inv'
<1>1. /\ Typed(client, worker, sess, stored, strays) /\ FileSound(sess, stored, cut)
      /\ ClientSound(client, worker, sess, stored)
  BY DEF Inv
<1>2. Acknowledged(client', worker', sess')
  BY <1>1 DEF ClientSound, Acknowledged
<1>3. Stages(client', worker') /\ StoredWhole(client', stored')
  BY DEF Stages, StoredWhole
<1>4. Typed(client', worker', sess', stored', strays')
  BY <1>1 DEF Typed
<1> QED BY <1>1, <1>2, <1>3, <1>4 DEF Inv, ClientSound

\* What the client does on its own keeps the invariant.
LEMMA ClientMovesInv ==
  ASSUME Inv, CreateFails \/ AllReturned \/ CompletionLost
  PROVE  Inv'
<1>1. /\ client \in Clients
      /\ client.completing => client.phase \in {"completing", "failed"}
      /\ trouble \in BOOLEAN
  BY DEF Inv, Typed, ClientSound, Stages
<1>2. CASE CreateFails
  <2>1. /\ client.phase = "start" /\ client' = [client EXCEPT !.phase = "failed"]
        /\ worker' = worker /\ sess' = sess /\ stored' = stored /\ strays' = strays
        /\ cut' = cut /\ trouble' \in BOOLEAN
    BY <1>2 DEF CreateFails
  <2>2. /\ client' \in Clients /\ client'.completed = client.completed
        /\ client'.phase = "failed" /\ client'.completing = client.completing
    BY <1>1, <2>1 DEF Clients
  <2> QED BY <1>1, <2>1, <2>2, ClientMoves
<1>3. CASE AllReturned
  <2>1. /\ client.phase = "chunks"
        /\ client' = IF client.failure
                     THEN [client EXCEPT !.phase = "failed"]
                     ELSE [client EXCEPT !.phase = "completing", !.completing = TRUE]
        /\ worker' = worker /\ sess' = sess /\ stored' = stored /\ strays' = strays
        /\ cut' = cut /\ trouble' \in BOOLEAN
    BY <1>1, <1>3 DEF AllReturned
  <2>2. /\ client' \in Clients /\ client'.completed = client.completed
        /\ client'.phase \in {"failed", "completing"}
    BY <1>1, <2>1 DEF Clients
  <2> QED BY <1>1, <2>1, <2>2, ClientMoves
<1>4. CASE CompletionLost
  <2>1. /\ client.phase = "completing" /\ client' = [client EXCEPT !.phase = "failed"]
        /\ worker' = worker /\ sess' = sess /\ stored' = stored /\ strays' = strays
        /\ cut' = cut /\ trouble' \in BOOLEAN
    BY <1>4 DEF CompletionLost
  <2>2. /\ client' \in Clients /\ client'.completed = client.completed
        /\ client'.phase = "failed" /\ client'.completing = client.completing
    BY <1>1, <2>1 DEF Clients
  <2> QED BY <1>1, <2>1, <2>2, ClientMoves
<1> QED BY <1>2, <1>3, <1>4

-----------------------------------------------------------------------------
(* The steps of the server, and the mishaps.                               *)

\* A chunk request of a worker is served: an answer "ok" is a chunk accepted.
LEMMA ServeInv ==
  ASSUME Inv, NEW k \in Workers, ServeChunk(k)
  PROVE  Inv'
<1> DEFINE n == worker[k].idx
           got == Len(Part(n))
           fits == Accepts(n) /\ got <= Remaining
<1>1. /\ Typed(client, worker, sess, stored, strays) /\ FileSound(sess, stored, cut)
      /\ ClientSound(client, worker, sess, stored)
      /\ sess \in Sessions /\ worker \in [Workers -> WorkerState] /\ n \in Chunks
      /\ worker[k] \in WorkerState
  BY DEF Inv, Typed, WorkerState
<1>2. /\ worker[k].at = "sent"
      /\ sess' = IF Accepts(n) THEN WriteChunk(n, got) ELSE sess
      /\ worker' = [worker EXCEPT ![k].at = IF fits THEN "ok" ELSE "error"]
      /\ client' = client /\ stored' = stored /\ strays' = strays /\ cut' = cut
      /\ trouble' = trouble
  BY DEF ServeChunk
<1>3. got \in Nat /\ got \in 0 .. Len(Part(n))
  BY <1>1, PartIs, ChunkFacts
<1>4. Accepts(n) => n = sess.next
  BY DEF Accepts
<1> HIDE DEF n, got
<1>5. /\ sess' \in Sessions /\ Counts(sess') /\ Holds(sess')
      /\ sess'.next >= sess.next
      /\ fits => sess'.next = sess.next + 1
      /\ Begins(sess) => Begins(sess')
  <2>1. CASE Accepts(n)
    <3>1. LET s1 == WriteChunk(n, got)
          IN  /\ s1 \in Sessions /\ Counts(s1) /\ Holds(s1)
              /\ s1.next \in {n, n + 1}
              /\ got = Len(Part(n)) /\ got <= Remaining => s1.next = n + 1
              /\ Begins(sess) /\ got \in {0, Len(Part(n))} => Begins(s1)
      <4>1. Counts(sess) /\ Holds(sess)
        BY <1>1 DEF FileSound
      <4> QED BY <1>1, <1>3, <2>1, <4>1, WriteChunkSound
    <3>2. sess' = WriteChunk(n, got) /\ n = sess.next /\ got = Len(Part(n)) /\ n \in Nat
      BY <1>1, <1>2, <1>4, <2>1, ChunkFacts DEF got
    <3> QED BY <3>1, <3>2
  <2>2. CASE ~Accepts(n)
    <3>1. sess.next \in Nat
      BY <1>1, ChunkFacts DEF Sessions
    <3> QED BY <1>1, <1>2, <2>2, <3>1 DEF FileSound
  <2> QED BY <2>1, <2>2
<1>6. /\ worker' \in [Workers -> WorkerState]
      /\ \A j \in Workers : j # k => worker'[j] = worker[j]
      /\ worker'[k].at = IF fits THEN "ok" ELSE "error"
  BY <1>1, <1>2 DEF WorkerState
<1>7. Acknowledged(client', worker', sess')
  <2>1. /\ Cardinality(Answered(worker)) \in Nat /\ Cardinality(Answered(worker')) \in Nat
        /\ ~fits => Cardinality(Answered(worker')) <= Cardinality(Answered(worker))
        /\ Cardinality(Answered(worker')) <= Cardinality(Answered(worker)) + 1
    <3>1. ~fits => worker'[k].at # "ok"
      BY <1>6
    <3> HIDE DEF fits
    <3> QED BY <1>1, <1>6, <3>1, AnsweredFacts
  <2>2. sess.next \in Nat /\ sess'.next \in Nat /\ client.completed \in Nat
    BY <1>1, <1>5, ChunkFacts DEF Sessions, Typed, Clients
  <2> HIDE DEF fits
  <2>3. CASE fits
    BY <1>1, <1>2, <1>5, <2>1, <2>2, <2>3 DEF ClientSound, Acknowledged
  <2>4. CASE ~fits
    BY <1>1, <1>2, <1>5, <2>1, <2>2, <2>4 DEF ClientSound, Acknowledged
  <2> QED BY <2>3, <2>4
<1>8. Stages(client', worker') /\ StoredWhole(client', stored')
  BY <1>1, <1>2 DEF ClientSound, Stages, StoredWhole
<1>9. FileSound(sess', stored', cut')
  BY <1>1, <1>2, <1>5 DEF FileSound
<1>10. Typed(client', worker', sess', stored', strays')
  BY <1>1, <1>2, <1>5, <1>6 DEF Typed
<1> QED BY <1>2, <1>7, <1>8, <1>9, <1>10 DEF Inv, ClientSound

\* A step of the server that no client sees, and that counts no chunk less.
LEMMA SessionStep ==
  ASSUME Inv, sess' \in Sessions, Counts(sess'), Holds(sess'), sess'.next >= sess.next,
         cut' \in BOOLEAN, ~cut' => ~cut /\ (Begins(sess) => Begins(sess')),
         client' = client, worker' = worker, stored' = stored,
         strays' \subseteq strays, trouble' \in BOOLEAN
  PROVE  Inv'
<1>1. /\ Typed(client, worker, sess, stored, strays) /\ FileSound(sess, stored, cut)
      /\ ClientSound(client, worker, sess, stored)
  BY DEF Inv
<1>2. /\ sess.next \in Nat /\ sess'.next \in Nat /\ client.completed \in Nat
      /\ Cardinality(Answered(worker)) \in Nat
  <2>1. worker \in [Workers -> WorkerState] /\ IsFiniteSet(Answered(worker))
    BY <1>1, WorkerFacts, FS_Subset DEF Typed, Answered
  <2> QED BY <1>1, <2>1, FS_CardinalityType, ChunkFacts DEF Typed, Sessions, Clients
<1>3. Acknowledged(client', worker', sess')
  BY <1>1, <1>2 DEF ClientSound, Acknowledged
<1>4. Stages(client', worker') /\ StoredWhole(client', stored')
  BY <1>1 DEF ClientSound, Stages, StoredWhole
<1>5. FileSound(sess', stored', cut')
  BY <1>1 DEF FileSound
<1>6. Typed(client', worker', sess', stored', strays')
  BY <1>1 DEF Typed
<1> QED BY <1>3, <1>4, <1>5, <1>6 DEF Inv, ClientSound

\* A request that its client has given up on arrives, whole or cut short.
LEMMA StrayInv ==
  ASSUME Inv, NEW r \in strays, NEW got, ServeStray(r, got)
  PROVE  Inv'
<1> DEFINE n == r.idx
<1>1. /\ sess \in Sessions /\ Counts(sess) /\ Holds(sess) /\ n \in Chunks
      /\ cut \in BOOLEAN /\ trouble \in BOOLEAN
  BY DEF Inv, Typed, FileSound, Strays
<1>2. /\ got \in 0 .. Len(Part(n)) /\ Accepts(n) /\ sess' = WriteChunk(n, got)
      /\ cut' = (cut \/ got \in 1 .. Len(Part(n)) - 1)
      /\ strays' = strays \ {r} /\ client' = client /\ worker' = worker
      /\ stored' = stored /\ trouble' = trouble
  BY DEF ServeStray
<1> HIDE DEF n
<1>3. LET s1 == WriteChunk(n, got)
      IN  /\ s1 \in Sessions /\ Counts(s1) /\ Holds(s1)
          /\ s1.next \in {n, n + 1}
          /\ got = Len(Part(n)) /\ got <= Remaining => s1.next = n + 1
          /\ Begins(sess) /\ got \in {0, Len(Part(n))} => Begins(s1)
  BY <1>1, <1>2, WriteChunkSound
<1>4. n = sess.next /\ n \in Nat /\ Len(Part(n)) \in Nat
  BY <1>1, <1>2, ChunkFacts, PartIs DEF Accepts
<1>5. sess'.next >= sess.next
  BY <1>2, <1>3, <1>4
<1>6. ~cut' => ~cut /\ got \in {0, Len(Part(n))}
  <2>1. ~cut' => ~cut /\ ~(got \in 1 .. Len(Part(n)) - 1)
    BY <1>2
  <2>2. got \in 0 .. Len(Part(n)) /\ Len(Part(n)) \in Nat
    BY <1>2, <1>4
  <2>3. ~(got \in 1 .. Len(Part(n)) - 1) => got \in {0, Len(Part(n))}
    BY <2>2
  <2> QED BY <2>1, <2>3
<1>7. ~cut' => ~cut /\ (Begins(sess) => Begins(sess'))
  BY <1>2, <1>3, <1>6
<1>8. /\ sess' \in Sessions /\ Counts(sess') /\ Holds(sess')
      /\ cut' \in BOOLEAN /\ strays' \subseteq strays /\ trouble' \in BOOLEAN
  BY <1>1, <1>2, <1>3
<1> QED BY <1>2, <1>5, <1>7, <1>8, SessionStep

\* A stray request is gone, the sweep takes the temporary file, the server restarts.
LEMMA SessionLostInv ==
  ASSUME Inv, (\E r \in strays : StrayGone(r)) \/ Sweep \/ Restart
  PROVE  Inv'
<1>1. /\ sess \in Sessions /\ Counts(sess) /\ Holds(sess) /\ sess.next \in Nat
      /\ cut \in BOOLEAN /\ trouble \in BOOLEAN /\ << >> \in Seq(1 .. Size)
  <2>1. sess \in Sessions /\ Counts(sess) /\ Holds(sess) /\ cut \in BOOLEAN /\ trouble \in BOOLEAN
    BY DEF Inv, Typed, FileSound
  <2>2. sess.next \in Nat
    BY <2>1, ChunkFacts DEF Sessions
  <2> QED BY <2>1, <2>2, EmptySeq
<1>2. ASSUME NEW r \in strays, StrayGone(r) PROVE Inv'
  <2>1. /\ sess' = sess /\ client' = client /\ worker' = worker /\ stored' = stored
        /\ cut' = cut /\ trouble' = trouble /\ strays' \subseteq strays
    BY <1>2 DEF StrayGone
  <2> QED BY <1>1, <2>1, SessionStep
<1>3. CASE Sweep
  <2>1. /\ sess' = [sess EXCEPT !.temp = FALSE, !.payload = << >>]
        /\ client' = client /\ worker' = worker /\ stored' = stored
        /\ cut' = cut /\ trouble' \in BOOLEAN /\ strays' = strays
    BY <1>3 DEF Sweep
  <2>2. sess' \in Sessions
    BY <1>1, <2>1 DEF Sessions
  <2>3. /\ sess'.open = sess.open /\ ~sess'.temp /\ sess'.next = sess.next
        /\ sess'.received = sess.received /\ sess'.total = sess.total
    BY <1>1, <2>1 DEF Sessions
  <2>4. Counts(sess') /\ Holds(sess') /\ Begins(sess') /\ sess'.next >= sess.next
    BY <1>1, <2>3 DEF Counts, Holds, Begins
  <2> QED BY <1>1, <2>1, <2>2, <2>4, SessionStep
<1>4. CASE Restart
  <2>1. /\ sess' = [sess EXCEPT !.open = FALSE]
        /\ client' = client /\ worker' = worker /\ stored' = stored
        /\ cut' = cut /\ trouble' \in BOOLEAN /\ strays' = strays
    BY <1>4 DEF Restart
  <2>2. sess' \in Sessions
    BY <1>1, <2>1 DEF Sessions
  <2>3. /\ ~sess'.open /\ sess'.temp = sess.temp /\ sess'.next = sess.next
        /\ sess'.received = sess.received /\ sess'.total = sess.total
        /\ sess'.payload = sess.payload
    BY <1>1, <2>1 DEF Sessions
  <2>4. Counts(sess') /\ Holds(sess') /\ sess'.next >= sess.next
        /\ (Begins(sess) => Begins(sess'))
    BY <1>1, <2>3 DEF Counts, Holds, Begins
  <2> QED BY <1>1, <2>1, <2>2, <2>4, SessionStep
<1> QED BY <1>2, <1>3, <1>4

\* A temporary file is never mistaken for no file.
LEMMA PayloadIsAFile ==
  ASSUME NEW f \in Seq(1 .. Size)
  PROVE  f # Nothing
<1>1. Len(f) = 1 => f[1] \in 1 .. Size
  <2>1. f \in [1 .. Len(f) -> 1 .. Size]
    BY LenProperties
  <2> QED BY <2>1
<1>2. Len(Nothing) = 1 /\ Nothing[1] = -1
  BY DEF Nothing
<1>3. -1 \notin 1 .. Size
  BY UploadAssumption
<1> QED BY <1>1, <1>2, <1>3

\* Complete: what is put in place is what the session counted, all of it if the client
\* counted every chunk.
LEMMA CompletionInv ==
  ASSUME Inv, ServeCompletion
  PROVE  Inv'
<1>1. /\ Typed(client, worker, sess, stored, strays) /\ FileSound(sess, stored, cut)
      /\ ClientSound(client, worker, sess, stored) /\ trouble \in BOOLEAN
      /\ client \in Clients /\ sess \in Sessions
  BY DEF Inv, Typed
<1>2. /\ client.completing
      /\ stored' = IF Placed THEN sess.payload ELSE stored
      /\ sess' = IF sess.open THEN NoSession ELSE sess
      /\ client' = [client EXCEPT
                      !.completing = FALSE,
                      !.phase = IF client.phase # "completing" THEN client.phase
                                ELSE IF Placed /\ client.completed = ChunkCount
                                THEN "complete" ELSE "failed"]
      /\ worker' = worker /\ strays' = strays /\ cut' = cut /\ trouble' = trouble
  BY DEF ServeCompletion
<1>3. client.phase \in {"completing", "failed"}
  BY <1>1, <1>2 DEF ClientSound, Stages
<1>4. /\ client' \in Clients /\ ~client'.completing
      /\ client'.phase \in {"complete", "failed"}
      /\ client'.phase = "complete" => Placed /\ client.completed = ChunkCount
  BY <1>1, <1>2, <1>3 DEF Clients
<1>5. ChunkCount \in Nat \ {0} /\ Size \in Nat /\ Bytes(0) = 0 /\ Bytes(ChunkCount) = Size
  BY ChunkFacts
<1>6. /\ NoSession \in Sessions /\ Counts(NoSession) /\ Holds(NoSession) /\ Begins(NoSession)
  <2>1. << >> \in Seq(1 .. Size)
    BY EmptySeq
  <2> QED BY <1>5, <2>1 DEF NoSession, Sessions, Counts, Holds, Begins
<1>7. ASSUME Placed
      PROVE  /\ sess.open /\ sess.temp /\ sess.payload \in Seq(1 .. Size)
             /\ sess.total \in Declared /\ sess.received = sess.total
  BY <1>1, <1>7 DEF Placed, Sessions, FileSound, Counts
<1>8. ASSUME Placed, Begins(sess) PROVE StoredBegins(sess.payload)
  <2>1. /\ sess.payload = SubSeq(File, 1, sess.received)
        /\ sess.received \in Declared /\ sess.received \in 0 .. Size
    BY <1>7, <1>8, UploadAssumption DEF Begins
  <2>2. \A i \in 1 .. sess.received : File[i] \in 1 .. Size
    BY <2>1, FileIs, <1>5
  <2>3. Len(SubSeq(File, 1, sess.received)) =
          IF 1 <= sess.received THEN sess.received - 1 + 1 ELSE 0
    BY <2>1, <2>2, SubSeqProperties
  <2>4. Len(sess.payload) = sess.received
    BY <1>5, <2>1, <2>3
  <2> QED BY <2>1, <2>4 DEF StoredBegins
<1>9. FileSound(sess', stored', cut')
  BY <1>1, <1>2, <1>6, <1>8 DEF FileSound
<1>10. Typed(client', worker', sess', stored', strays')
  BY <1>1, <1>2, <1>4, <1>6, <1>7 DEF Typed
<1>11. StoredWhole(client', stored')
  <2> SUFFICES ASSUME client'.phase = "complete"
               PROVE  /\ stored' # Nothing
                      /\ \A i \in 1 .. Size : \E j \in DOMAIN stored' : stored'[j] = i
    BY DEF StoredWhole
  <2>1. Placed /\ client.completed = ChunkCount
    BY <1>4
  <2>2. stored' = sess.payload /\ sess.payload # Nothing
    BY <1>2, <1>7, <2>1, PayloadIsAFile
  <2>3. sess.next = ChunkCount
    <3>1. worker \in [Workers -> WorkerState] /\ IsFiniteSet(Answered(worker))
      BY <1>1, WorkerFacts, FS_Subset DEF Typed, Answered
    <3>2. Cardinality(Answered(worker)) \in Nat
      BY <3>1, FS_CardinalityType
    <3>3. client.completed + Cardinality(Answered(worker)) <= sess.next
      BY <1>1, <1>2 DEF ClientSound, Acknowledged
    <3>4. sess.next \in 0 .. ChunkCount
      BY <1>1 DEF Sessions
    <3> QED BY <1>5, <2>1, <3>2, <3>3, <3>4
  <2>4. sess.received = Size /\ sess.temp /\ Holds(sess)
    BY <1>1, <1>5, <1>7, <2>1, <2>3 DEF FileSound, Counts
  <2> QED BY <2>2, <2>4 DEF Holds
<1>12. Stages(client', worker') /\ Acknowledged(client', worker', sess')
  BY <1>4 DEF Stages, Acknowledged
<1> QED BY <1>1, <1>2, <1>9, <1>10, <1>11, <1>12 DEF Inv, ClientSound

\* Every step keeps the invariant.
LEMMA NextInv == Inv /\ [Next]_vars => Inv'
<1> SUFFICES ASSUME Inv, [Next]_vars PROVE Inv'
  OBVIOUS
<1>1. CASE UNCHANGED vars
  BY <1>1 DEF vars, Inv
<1>2. ASSUME NEW total \in Declared, CreateSession(total) PROVE Inv'
  BY <1>2, CreateInv
<1>3. ASSUME NEW k \in Workers, ChunkSucceeds(k) PROVE Inv'
  BY <1>3, SucceedsInv
<1>4. ASSUME NEW k \in Workers, ChunkRefused(k) PROVE Inv'
  BY <1>4, RefusedInv
<1>5. ASSUME NEW k \in Workers, ServeChunk(k) PROVE Inv'
  BY <1>5, ServeInv
<1>6. ASSUME NEW k \in Workers, ConnectionLost(k) PROVE Inv'
  BY <1>6, LostInv
<1>7. ASSUME NEW r \in strays, NEW got, ServeStray(r, got) PROVE Inv'
  BY <1>7, StrayInv
<1>8. CASE (\E r \in strays : StrayGone(r)) \/ Sweep \/ Restart
  BY <1>8, SessionLostInv
<1>9. CASE CreateFails \/ AllReturned \/ CompletionLost
  BY <1>9, ClientMovesInv
<1>10. CASE ServeCompletion
  BY <1>10, CompletionInv
<1> QED
  BY <1>1, <1>2, <1>3, <1>4, <1>5, <1>6, <1>7, <1>8, <1>9, <1>10
  DEF Next, ClientStep, ServerStep, Mishap

-----------------------------------------------------------------------------
(* The theorems.                                                           *)

\* In every order of requests, retries, late arrivals, losses and restarts, the session
\* counts a prefix of the client's file and the client counts no chunk that the session
\* does not count.
THEOREM InvAlways == Spec => []Inv
<1>1. Init => Inv
  BY InitInv
<1>2. Inv /\ [Next]_vars => Inv'
  BY NextInv
<1> QED BY <1>1, <1>2, PTL DEF Spec

\* The uploader, its workers and the session are always of their types: no worker gets an
\* index outside the file or more attempts than it may have.
THEOREM TypeCorrect == Spec => []TypeOK
BY InvAlways, InvMeans, PTL

\* The session of upload.Chunk accepts each chunk once and in order, whatever is sent
\* again or arrives late; as long as no body was cut short, the temporary file and the
\* file put in place are the beginning of the client's file.
THEOREM InOrderAlways == Spec => []AcceptedOnceInOrder
BY InvAlways, InvMeans, PTL

\* An upload that runUpload shows as complete is in place with every byte of the file,
\* for any number of parallel workers and retries, and even after bodies cut short.
THEOREM CompleteIsStored == Spec => []CompleteMeansStored
BY InvAlways, InvMeans, PTL

=============================================================================
