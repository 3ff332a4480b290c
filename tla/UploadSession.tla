--------------------------- MODULE UploadSession ---------------------------
(***************************************************************************)
(* One chunked upload from the web panel: runUpload of uploader.ts with its*)
(* parallel workers and retries, the session of upload.Manager that serves *)
(* it, and the connections between them.                                   *)
(*                                                                         *)
(* A connection may be lost at any time.  The client sees an error at once;*)
(* the request may still reach the server later, whole or cut short, or    *)
(* never (the variable strays).  The server may restart, and the daily     *)
(* sweep of the temporary directory may take the payload away.             *)
(*                                                                         *)
(* A byte of the file is told by its position, so File == <<1, .., Size>>  *)
(* and a payload is intact when it is a prefix of File.                    *)
(***************************************************************************)
EXTENDS Integers, Sequences, FiniteSets

CONSTANTS Size,         \* file.size
          ChunkSize,    \* CHUNK_SIZE
          Concurrency,  \* UPLOAD_CONCURRENCY
          MaxAttempts,  \* MAX_ATTEMPTS
          Declared      \* the total_size a client may declare

ASSUME UploadAssumption ==
  /\ Size \in Nat
  /\ {ChunkSize, Concurrency, MaxAttempts} \subseteq Nat \ {0}
  /\ Declared \subseteq 0 .. Size

VARIABLES client,   \* the state of runUpload
          worker,   \* its workers
          sess,     \* the Session and its temporary file
          stored,   \* what the upload put at the destination
          strays,   \* chunk requests whose client has given up on them
          cut,      \* whether the server ever wrote part of a body only
          trouble   \* whether anything but the order of requests was ever amiss

vars == <<client, worker, sess, stored, strays, cut, trouble>>

AtMost(a, b) == IF a <= b THEN a ELSE b

File == [i \in 1 .. Size |-> i]

\* chunkCount: an empty file has one chunk.
ChunkCount == IF Size = 0 THEN 1 ELSE (Size + ChunkSize - 1) \div ChunkSize

Chunks == 0 .. ChunkCount - 1

\* file.slice
Part(n) == SubSeq(File, n * ChunkSize + 1, AtMost(Size, (n + 1) * ChunkSize))

Workers == 1 .. AtMost(Concurrency, ChunkCount)

Nothing == << -1 >>     \* no file, as opposed to an empty one

Resting == [at |-> "off", idx |-> 0, attempt |-> 1]

NoSession == [open |-> FALSE, total |-> 0, received |-> 0, next |-> 0,
              temp |-> FALSE, payload |-> << >>]

Init ==
  /\ client = [phase |-> "start", queue |-> 0, completed |-> 0,
               failure |-> FALSE, completing |-> FALSE]
  /\ worker = [k \in Workers |-> Resting]
  /\ sess = NoSession
  /\ stored = Nothing
  /\ strays = {}
  /\ cut = FALSE
  /\ trouble = FALSE

-----------------------------------------------------------------------------
(* The client.                                                             *)

\* The session is created and its id reaches the client.  The workers start
\* together, each with the next chunk of the queue.
CreateSession(total) ==
  /\ client.phase = "start"
  /\ sess' = [NoSession EXCEPT !.open = TRUE, !.total = total, !.temp = TRUE]
  /\ client' = [client EXCEPT !.phase = "chunks", !.queue = Cardinality(Workers)]
  /\ worker' = [k \in Workers |-> [at |-> "sent", idx |-> k - 1, attempt |-> 1]]
  /\ trouble' = (total # Size)
  /\ UNCHANGED <<stored, strays, cut>>

\* It is refused, or the answer is lost: there is no retry.
CreateFails ==
  /\ client.phase = "start"
  /\ client' = [client EXCEPT !.phase = "failed"]
  /\ trouble' = TRUE
  /\ UNCHANGED <<worker, sess, stored, strays, cut>>

\* The loop of a worker goes on: with the next chunk, or it returns.
NextChunk(c) ==
  IF c.queue \in Chunks /\ ~c.failure
  THEN [at |-> "sent", idx |-> c.queue, attempt |-> 1]
  ELSE Resting

ChunkSucceeds(k) ==
  /\ worker[k].at = "ok"
  /\ worker' = [worker EXCEPT ![k] = NextChunk(client)]
  /\ client' = [client EXCEPT
                  !.completed = AtMost(ChunkCount, @ + 1),
                  !.queue = IF NextChunk(client) = Resting THEN @ ELSE @ + 1]
  /\ UNCHANGED <<sess, stored, strays, cut, trouble>>

\* Seeded fault: a retry that does not count.
FaultyRetry(w) == [w EXCEPT !.at = "sent"]

\* A retry is sent at once, until the attempts are used up.
Retry(w) == [w EXCEPT !.at = "sent", !.attempt = @ + 1]

\* Seeded fault: one attempt too many.
FaultyGiveUp(w) == w.attempt > MaxAttempts

GiveUp(w) == w.attempt >= MaxAttempts

AfterError(k) ==
  /\ worker' = [worker EXCEPT ![k] = IF GiveUp(@) THEN Resting ELSE Retry(@)]
  /\ client' = [client EXCEPT !.failure = @ \/ GiveUp(worker[k])]

ChunkRefused(k) ==
  /\ worker[k].at = "error"
  /\ AfterError(k)
  /\ UNCHANGED <<sess, stored, strays, cut, trouble>>

\* The connection of a chunk request is lost, before or after it was served.
ConnectionLost(k) ==
  /\ worker[k].at \in {"sent", "ok", "error"}
  /\ strays' = IF worker[k].at = "sent"
               THEN strays \cup {[idx |-> worker[k].idx, attempt |-> worker[k].attempt]}
               ELSE strays
  /\ trouble' = TRUE
  /\ AfterError(k)
  /\ UNCHANGED <<sess, stored, cut>>

\* Promise.all: every worker has returned.
AllReturned ==
  /\ client.phase = "chunks"
  /\ \A k \in Workers : worker[k].at = "off"
  /\ client' = IF client.failure
               THEN [client EXCEPT !.phase = "failed"]
               ELSE [client EXCEPT !.phase = "completing", !.completing = TRUE]
  /\ UNCHANGED <<worker, sess, stored, strays, cut, trouble>>

CompletionLost ==
  /\ client.phase = "completing"
  /\ client' = [client EXCEPT !.phase = "failed"]
  /\ trouble' = TRUE
  /\ UNCHANGED <<worker, sess, stored, strays, cut>>

-----------------------------------------------------------------------------
(* The server.                                                             *)

\* Seeded fault: a chunk accepted again when it is sent again.
FaultyAcceptsAgain(n) == sess.open /\ n <= sess.next /\ sess.temp

\* Chunk, under the mutex of the manager.  The session accepts chunks in order
\* only; got is the length of the body that arrives.
Accepts(n) == sess.open /\ n = sess.next /\ sess.temp

Remaining == sess.total - sess.received

WriteChunk(n, got) ==
  LET body == SubSeq(Part(n), 1, got)
  IN  IF got > Remaining
      THEN [sess EXCEPT !.open = FALSE, !.temp = FALSE, !.payload = << >>]
      ELSE IF got < Len(Part(n))
      THEN [sess EXCEPT !.payload = @ \o body]
      ELSE [sess EXCEPT !.payload = @ \o body, !.received = @ + got,
                        !.next = @ + 1]

ServeChunk(k) ==
  LET n == worker[k].idx
      fits == Accepts(n) /\ Len(Part(n)) <= Remaining
  IN  /\ worker[k].at = "sent"
      /\ sess' = IF Accepts(n) THEN WriteChunk(n, Len(Part(n))) ELSE sess
      /\ worker' = [worker EXCEPT ![k].at = IF fits THEN "ok" ELSE "error"]
      /\ UNCHANGED <<client, stored, strays, cut, trouble>>

\* A stray request arrives, with as much of its body as was sent.
ServeStray(r, got) ==
  LET n == r.idx
  IN  /\ got \in 0 .. Len(Part(n))
      /\ Accepts(n)
      /\ sess' = WriteChunk(n, got)
      /\ cut' = (cut \/ got \in 1 .. Len(Part(n)) - 1)
      /\ strays' = strays \ {r}
      /\ UNCHANGED <<client, worker, stored, trouble>>

\* It never arrives, or is refused.
StrayGone(r) ==
  /\ strays' = strays \ {r}
  /\ UNCHANGED <<client, worker, sess, stored, cut, trouble>>

\* Complete: the session leaves the map, then the file is moved into place.
\* The temporary directory is removed either way.
Placed == sess.open /\ sess.received = sess.total /\ sess.temp

\* Seeded fault: the error of the rename ignored.
FaultyServeCompletion ==
  LET matches == sess.open /\ sess.received = sess.total
  IN  /\ client.completing
      /\ stored' = IF Placed THEN sess.payload ELSE stored
      /\ sess' = IF sess.open THEN NoSession ELSE sess
      /\ client' = [client EXCEPT
                      !.completing = FALSE,
                      !.phase = IF @ # "completing" THEN @
                                ELSE IF matches /\ client.completed = ChunkCount
                                THEN "complete" ELSE "failed"]
      /\ UNCHANGED <<worker, strays, cut, trouble>>

ServeCompletion ==
  /\ client.completing
  /\ stored' = IF Placed THEN sess.payload ELSE stored
  /\ sess' = IF sess.open THEN NoSession ELSE sess
  /\ client' = [client EXCEPT
                  !.completing = FALSE,
                  !.phase = IF @ # "completing" THEN @
                            ELSE IF Placed /\ client.completed = ChunkCount
                            THEN "complete" ELSE "failed"]
  /\ UNCHANGED <<worker, strays, cut, trouble>>

\* CleanupTemp finds the directory older than a day, whether or not the session
\* is still in use.
Sweep ==
  /\ sess.temp
  /\ sess' = [sess EXCEPT !.temp = FALSE, !.payload = << >>]
  /\ trouble' = TRUE
  /\ UNCHANGED <<client, worker, stored, strays, cut>>

\* The sessions are in memory; the temporary file stays behind.
Restart ==
  /\ sess.open
  /\ sess' = [sess EXCEPT !.open = FALSE]
  /\ trouble' = TRUE
  /\ UNCHANGED <<client, worker, stored, strays, cut>>

-----------------------------------------------------------------------------
ClientStep ==
  \/ \E total \in Declared : CreateSession(total)
  \/ \E k \in Workers : ChunkSucceeds(k) \/ ChunkRefused(k)
  \/ AllReturned

ServerStep ==
  \/ \E k \in Workers : ServeChunk(k)
  \/ ServeCompletion

Mishap ==
  \/ CreateFails
  \/ \E k \in Workers : ConnectionLost(k)
  \/ CompletionLost
  \/ \E r \in strays :
       \/ \E got \in 0 .. ChunkSize : ServeStray(r, got)
       \/ StrayGone(r)
  \/ Sweep
  \/ Restart

Next == ClientStep \/ ServerStep \/ Mishap

\* The event loop runs the callback of every answer, and the server answers
\* every request whose connection lasts: nothing else is certain to happen.
Fairness == WF_vars(ClientStep) /\ WF_vars(ServerStep)

Spec == Init /\ [][Next]_vars /\ Fairness

-----------------------------------------------------------------------------
(* Properties.                                                             *)

\* The client, its workers, the session and the late requests are well formed.
TypeOK ==
  /\ client \in [phase      : {"start", "chunks", "completing", "complete", "failed"},
                 queue      : 0 .. ChunkCount,
                 completed  : 0 .. ChunkCount,
                 failure    : BOOLEAN,
                 completing : BOOLEAN]
  /\ worker \in [Workers -> [at      : {"off", "sent", "ok", "error"},
                             idx     : Chunks,
                             attempt : 1 .. MaxAttempts]]
  /\ sess \in [open     : BOOLEAN,
               total    : Nat,
               received : Nat,
               next     : 0 .. ChunkCount,
               temp     : BOOLEAN,
               payload  : Seq(1 .. Size)]
  /\ stored = Nothing \/ stored \in Seq(1 .. Size)
  /\ strays \subseteq [idx : Chunks, attempt : 1 .. MaxAttempts]
  /\ cut \in BOOLEAN /\ trouble \in BOOLEAN

\* However often a chunk was sent, and however late a request arrives that its
\* client has given up on, the session counts the bytes of the first next chunks
\* and of no other, and never more than were declared.  Unless a body was cut
\* short, the payload holds these and nothing else, none of them twice, and a file
\* put in place is the beginning of the client's file of the declared length.
AcceptedOnceInOrder ==
  /\ sess.received = AtMost(Size, sess.next * ChunkSize) /\ sess.received <= sess.total
  /\ ~cut => /\ sess.temp => sess.payload = SubSeq(File, 1, sess.received)
             /\ stored # Nothing =>
                  Len(stored) \in Declared /\ stored = SubSeq(File, 1, Len(stored))

\* An upload the panel shows as complete is in place, with every byte of the
\* file in it.
CompleteMeansStored ==
  client.phase = "complete" =>
    stored # Nothing /\ \A i \in 1 .. Size : \E j \in DOMAIN stored : stored[j] = i

\* The upload comes to an end, as complete or as failed, whatever is lost.
UploadEnds == <>(client.phase \in {"complete", "failed"})

\* What the specification says of a chunk lost to the network: it is retried, and
\* the file is whole in the end.
CompleteMeansWhole == client.phase = "complete" => stored = File

\* What the uploader says of itself: chunks run in parallel, and a file is marked
\* as failed after a chunk that failed a few times.  So not when every request
\* arrived whole and every answer came back.
SmoothUploadSucceeds == ~trouble => client.phase # "failed"

=============================================================================
