------------------------------- MODULE Usage -------------------------------
(***************************************************************************)
(* The files of one user root and the row of the usage table that counts   *)
(* their bytes.  Every writer goes through its steps one at a time: the    *)
(* WebDAV requests PUT, DELETE, COPY and MOVE on the restricted file       *)
(* system, the panel's delete, copy and move, uploads with their conflict  *)
(* strategies, the recalculation, and a restart of the server.             *)
(*                                                                         *)
(* A path is a file; a tree is what one DELETE takes away, a file or the   *)
(* directory that holds them all.  WebDAV requests for one name exclude    *)
(* each other by their locks, unless the If header of one tags another     *)
(* resource; nothing else does.                                            *)
(***************************************************************************)
EXTENDS Integers, FiniteSets, FiniteSetsExt

CONSTANTS Path,         \* the files a root may hold
          Spare,        \* those that uniqueName may come up with
          Size,         \* the sizes of the files that are written
          Quota,        \* the quota of the user, 0 for none
          Worker,       \* the requests that may be in progress
          StorageIsAbsolute,
                        \* whether storage_dir is an absolute path
          MaxRequests,  \* a bound of the model
          MaxCut        \* a bound of the model: bytes of cut chunks in one payload

ASSUME UsageAssumption ==
  /\ IsFiniteSet(Path) /\ Path # {} /\ Spare \subseteq Path
  /\ IsFiniteSet(Worker)
  /\ Size \subseteq Nat
  /\ {Quota, MaxRequests, MaxCut} \subseteq Nat
  /\ StorageIsAbsolute \in BOOLEAN

VARIABLES files,      \* the size of every file, Absent for none
          usage,      \* the row of the usage table
          job,        \* the requests in progress
          requests,   \* how many requests there have been
          clean,      \* no two requests met on a file since the row was last corrected
          drift       \* by how many bytes the row was left behind since: what was done
                      \* to the files and never will be counted

vars == <<files, usage, job, requests, clean, drift>>

Absent == -1

Existing == {p \in Path : files[p] # Absent}

\* The sum of f over S.
Total(f, S) == MapThenSumSet(LAMBDA x : f[x], S)

\* Seeded fault: a file that is not there counts.
FaultyBytesOf(S) == Total(files, S)

\* pathSize, pathBytes: the bytes of the files among S.
BytesOf(S) == Total([p \in Path |-> IF files[p] = Absent THEN 0 ELSE files[p]], S)

Trees == {{p} : p \in Path} \cup {Path}

NoPath == "no path"

Idle == [kind |-> "none", at |-> "idle", src |-> NoPath, dst |-> NoPath,
         tree |-> {}, conflict |-> "overwrite", size |-> 0, count |-> 0,
         prev |-> 0, used |-> 0, delta |-> 0, tagged |-> FALSE, solo |-> FALSE]

Dav == {"put", "delete", "copy", "move"}

Init ==
  /\ files \in [Path -> Size \cup {Absent}]
  /\ usage = BytesOf(Path)
  /\ job = [w \in Worker |-> Idle]
  /\ requests = 0
  /\ clean = TRUE
  /\ drift = 0

-----------------------------------------------------------------------------
(* What requests do to one another.                                        *)

\* confirmLocks: the names a request has locks on, all of depth 0.  An If header
\* that tags another resource takes the place of the request's own locks.  The
\* panel, uploads and the recalculation have none.
LockNames(j) ==
  IF j.tagged THEN {}
  ELSE CASE j.kind \in {"put", "copy"} -> {{j.dst}}
         [] j.kind = "move"            -> {{j.src}, {j.dst}}
         [] j.kind = "delete"          -> {j.tree}
         [] OTHER                      -> {}

LocksFree(w) ==
  \A v \in Worker \ {w} :
    job[v].at # "start" => LockNames(job[v]) \cap LockNames(job[w]) = {}

\* The files whose size a request changes or relies on.
Touched(j) ==
  CASE j.kind \in {"put", "copy"}                     -> {j.dst}
    [] j.kind \in {"move", "panelCopy", "panelMove"}  -> {j.src, j.dst}
    [] j.kind \in {"delete", "panelDelete"}           -> j.tree
    [] j.kind = "upload" -> {j.dst} \cup IF j.conflict = "rename" THEN Spare ELSE {}
    [] j.kind = "recalculate"                         -> Path
    [] OTHER                                          -> {}

Interfere(i, j) ==
  Touched(i) \cap Touched(j) # {} /\ LockNames(i) \cap LockNames(j) = {}

\* A request arrives.
Begin(w, j) ==
  LET others == {v \in Worker \ {w} : job[v] # Idle}
  IN  /\ job[w] = Idle
      /\ requests < MaxRequests
      /\ requests' = requests + 1
      /\ job' = [v \in Worker |-> IF v = w THEN [j EXCEPT !.solo = (others = {})]
                                  ELSE [job[v] EXCEPT !.solo = FALSE]]
      /\ clean' = (clean /\ \A v \in others : ~Interfere(j, job[v]))
      /\ drift' = IF clean' THEN drift ELSE 0
      /\ UNCHANGED <<files, usage>>

Becomes(w, j) ==
  /\ job' = [job EXCEPT ![w] = j]
  /\ UNCHANGED <<requests, clean, drift>>

\* A request goes on, or ends, and leaves the row n bytes more behind.
Drifts(w, j, n) ==
  /\ job' = [job EXCEPT ![w] = j]
  /\ drift' = IF clean THEN drift + n ELSE 0
  /\ UNCHANGED <<requests, clean>>

-----------------------------------------------------------------------------
(* WebDAV.                                                                 *)

\* Service.Handler takes the usage once, for the whole request; writes look at it.
Arrive(w, k, src, dst, tree, n, tagged) ==
  Begin(w, [Idle EXCEPT !.kind = k, !.at = "start", !.src = src, !.dst = dst,
                        !.tree = tree, !.size = n, !.tagged = tagged,
                        !.used = IF k \in {"put", "copy"} THEN usage ELSE 0])

ArriveDav(w) ==
  \E tagged \in BOOLEAN :
    \/ \E p \in Path, n \in Size : Arrive(w, "put", NoPath, p, {}, n, tagged)
    \/ \E tree \in Trees : Arrive(w, "delete", NoPath, NoPath, tree, 0, tagged)
    \/ \E k \in {"copy", "move"}, p \in Path : \E q \in Path \ {p} :
         Arrive(w, k, p, q, {q}, 0, tagged)

\* Another request or a client has a lock on what it needs, or its If header
\* fails: 423, 412.
Refused(w) ==
  /\ job[w].kind \in Dav /\ job[w].at = "start"
  /\ Becomes(w, Idle)
  /\ UNCHANGED <<files, usage>>

\* A call fails before it has changed anything, and the request ends: of the file
\* system, such as a rename, or a statement of the store.
Fails(w) ==
  /\ job[w].at \in {"start", "open", "publish", "rename", "apply", "place", "walk", "set"}
  /\ Becomes(w, Idle)
  /\ UNCHANGED <<files, usage>>

\* openQuotaFile: a temporary file, and the size of the file it will replace.
Open(w) ==
  /\ \/ job[w].kind = "put" /\ job[w].at = "start" /\ LocksFree(w)
     \/ job[w].at = "open"
  /\ Becomes(w, [job[w] EXCEPT !.at = "body", !.prev = BytesOf({job[w].dst})])
  /\ UNCHANGED <<files, usage>>

\* Seeded fault: the size of the replaced file is not taken off.
FaultyExceeds(j, n) == Quota > 0 /\ n > 0 /\ j.used + n - 2 * j.prev > Quota

\* quotaFile.Write: whether one of the writes that bring n bytes is refused.
Exceeds(j, n) == Quota > 0 /\ n > 0 /\ j.used + n - j.prev > Quota

\* The body is copied to the temporary file.  It ends early when the client leaves
\* or the disk is full, and what there is of it is kept.  A write beyond the quota
\* fails the file: 507.
Body(w, n) ==
  /\ job[w].at = "body"
  /\ n <= job[w].size
  /\ Becomes(w, IF Exceeds(job[w], n) THEN Idle
                ELSE [job[w] EXCEPT !.at = "publish", !.count = n])
  /\ UNCHANGED <<files, usage>>

\* quotaFile.Close: the temporary file takes its place.
Publish(w) ==
  LET j == job[w]
  IN  /\ j.at = "publish"
      /\ files' = [files EXCEPT ![j.dst] = j.count]
      /\ Becomes(w, [j EXCEPT !.at = "commit", !.delta = j.count - j.prev])
      /\ UNCHANGED usage

\* RemoveAll measures the tree before it goes.  A COPY has opened its source by
\* then; a MOVE has not looked at it.
Measure(w) ==
  LET j == job[w]
      found == IF j.kind = "copy" THEN j.src \in Existing
               ELSE j.kind = "move" \/ j.tree \cap Existing # {}
      seen == [j EXCEPT !.at = "remove", !.delta = -BytesOf(j.tree),
                        !.size = IF j.kind = "copy" THEN BytesOf({j.src}) ELSE 0]
  IN  /\ j.at = "start"
      /\ j.kind \in {"delete", "copy", "move", "panelDelete"}
      /\ LocksFree(w)
      /\ Becomes(w, IF ~found THEN Idle
                    ELSE IF j.tree \cap Existing # {} THEN seen
                    ELSE [seen EXCEPT !.at = IF j.kind = "copy" THEN "open" ELSE "rename"])
      /\ UNCHANGED <<files, usage>>

Remove(w) ==
  /\ job[w].at = "remove"
  /\ files' = [p \in Path |-> IF p \in job[w].tree THEN Absent ELSE files[p]]
  /\ Becomes(w, [job[w] EXCEPT !.at = "removed"])
  /\ UNCHANGED usage

\* os.RemoveAll breaks off after some of the files, or none; they are not counted.
RemoveFails(w, some) ==
  /\ job[w].at = "remove"
  /\ some \subseteq job[w].tree \cap Existing
  /\ files' = [p \in Path |-> IF p \in some THEN Absent ELSE files[p]]
  /\ Drifts(w, Idle, -BytesOf(some))
  /\ UNCHANGED usage

\* The removal is counted, and a COPY or a MOVE goes on.
CommitRemoval(w) ==
  LET j == job[w]
  IN  /\ j.at = "removed"
      /\ usage' = usage + j.delta
      /\ Becomes(w, CASE j.kind = "copy" ->
                           [j EXCEPT !.at = "open", !.used = @ + j.delta]
                      [] j.kind = "move" -> [j EXCEPT !.at = "rename"]
                      [] OTHER           -> Idle)
      /\ UNCHANGED files

\* Seeded fault: an upload or a PUT counted in full over the file it replaced.
FaultyCommit(w) ==
  LET j == job[w]
  IN  /\ j.at = "commit"
      /\ usage' = IF j.kind \in {"put", "upload"} THEN usage + j.delta + j.prev
                  ELSE usage + j.delta
      /\ Becomes(w, Idle)
      /\ UNCHANGED files

\* AddUsage.
Commit(w) ==
  /\ job[w].at = "commit"
  /\ usage' = usage + job[w].delta
  /\ Becomes(w, Idle)
  /\ UNCHANGED files

\* AddUsage fails: the client has left and the context of the request is cancelled,
\* or the database is busy.  Nothing is undone.
CommitFails(w) ==
  /\ job[w].at \in {"commit", "removed"} /\ job[w].delta # 0
  /\ Drifts(w, Idle, job[w].delta)
  /\ UNCHANGED <<files, usage>>

Moved(src, dst) == files' = [files EXCEPT ![dst] = files[src], ![src] = Absent]

\* RestrictedFS.Rename of a MOVE.  It fails when the source is gone.
Rename(w) ==
  LET j == job[w]
  IN  /\ j.at = "rename"
      /\ IF j.src \in Existing
         THEN /\ Moved(j.src, j.dst)
              /\ Becomes(w, [j EXCEPT !.at = "commit", !.delta = -BytesOf({j.dst})])
         ELSE Becomes(w, Idle) /\ UNCHANGED files
      /\ UNCHANGED usage

-----------------------------------------------------------------------------
(* The panel.                                                              *)

ArrivePanel(w) ==
  \/ \E tree \in Trees : Arrive(w, "panelDelete", NoPath, NoPath, tree, 0, FALSE)
  \/ \E k \in {"panelCopy", "panelMove"}, p, q \in Path :
       Arrive(w, k, p, q, {}, 0, FALSE)

\* FileAction, PUT: the usage, the sizes, then the quota.  A move onto itself is
\* done; a copy needs its source.
Check(w) ==
  LET j == job[w]
      delta == (IF j.kind = "panelCopy" THEN BytesOf({j.src}) ELSE 0) - BytesOf({j.dst})
      stops == IF j.kind = "panelCopy" THEN j.src \notin Existing ELSE j.src = j.dst
      exceeds == Quota > 0 /\ usage + delta > Quota
  IN  /\ j.kind \in {"panelCopy", "panelMove"} /\ j.at = "start"
      /\ Becomes(w, IF stops \/ exceeds THEN Idle
                    ELSE [j EXCEPT !.at = "apply", !.delta = delta])
      /\ UNCHANGED <<files, usage>>

\* os.Rename.  It fails when the source is gone.
MoveFile(w) ==
  LET j == job[w]
  IN  /\ j.kind = "panelMove" /\ j.at = "apply" /\ j.src \in Existing
      /\ Moved(j.src, j.dst)
      /\ Becomes(w, [j EXCEPT !.at = "commit"])
      /\ UNCHANGED usage

\* copyPath truncates the destination, and only then reads the source: of a copy
\* onto itself, nothing is left, and delta is zero all the same.
CopyFile(w) ==
  LET j == job[w]
      n == IF j.src = j.dst THEN 0 ELSE files[j.src]
  IN  /\ j.kind = "panelCopy" /\ j.at = "apply" /\ j.src \in Existing
      /\ files' = [files EXCEPT ![j.dst] = n]
      /\ Drifts(w, [j EXCEPT !.at = "commit"], n - files[j.src])
      /\ UNCHANGED usage

\* It breaks off with n bytes in place, which are not counted.
CopyFails(w, n) ==
  LET j == job[w]
  IN  /\ j.kind = "panelCopy" /\ j.at = "apply" /\ j.src \in Existing
      /\ n <= IF j.src = j.dst THEN 0 ELSE files[j.src]
      /\ files' = [files EXCEPT ![j.dst] = n]
      /\ Drifts(w, Idle, n - BytesOf({j.dst}))
      /\ UNCHANGED usage

-----------------------------------------------------------------------------
(* Uploads.                                                                *)

\* The precheck of the quota credits the file that will be replaced.
Precheck(n, old) == Quota > 0 => n <= Quota - usage + old

\* Create: the size of the file to be replaced is read, and an upload that does
\* not fit is refused.
ArriveUpload(w) ==
  \E p \in Path, n \in Size, c \in {"overwrite", "skip", "rename"} :
    LET old == IF c = "overwrite" THEN BytesOf({p}) ELSE 0
    IN  /\ Precheck(n, old)
        /\ Begin(w, [Idle EXCEPT !.kind = "upload", !.at = "session", !.dst = p,
                                 !.size = n, !.prev = old, !.conflict = c])

\* Chunk: the bytes of a chunk that is cut off stay in the payload, and the retry
\* appends all of the chunk after them.  Only the latter is counted as received.
ChunkCut(w, n) ==
  LET j == job[w]
  IN  /\ j.at = "session"
      /\ n <= j.size /\ j.count + n <= MaxCut
      /\ Becomes(w, [j EXCEPT !.count = @ + n])
      /\ UNCHANGED <<files, usage>>

\* It is given up: its client stops, or the server refuses to complete it.
Abandon(w) ==
  /\ job[w].at = "session"
  /\ Becomes(w, Idle)
  /\ UNCHANGED <<files, usage>>

\* uniqueName: the names it may find free.
UniqueNames(p) == Spare \ Existing

\* Complete looks at the destination first.
Complete(w) ==
  LET j == job[w]
      taken == j.dst \in Existing
  IN  /\ j.at = "session"
      /\ CASE taken /\ j.conflict = "skip" -> Becomes(w, Idle)
           [] taken /\ j.conflict = "rename" ->
                \E q \in UniqueNames(j.dst) :
                  Becomes(w, [j EXCEPT !.at = "place", !.dst = q])
           [] OTHER -> Becomes(w, [j EXCEPT !.at = "place"])
      /\ UNCHANGED <<files, usage>>

\* The rename of Complete puts the whole payload in place; what is committed is
\* what was received, less the size of the file it was to replace.
Place(w) ==
  LET j == job[w]
  IN  /\ j.at = "place"
      /\ files' = [files EXCEPT ![j.dst] = j.size + j.count]
      /\ Drifts(w, [j EXCEPT !.at = "commit", !.delta = j.size - j.prev], j.count)
      /\ UNCHANGED usage

-----------------------------------------------------------------------------
(* The recalculation.                                                      *)

ArriveRecalculate(w) ==
  Begin(w, [Idle EXCEPT !.kind = "recalculate", !.tree = Existing,
                        !.at = IF Existing = {} THEN "set" ELSE "walk"])

\* filepath.Walk has the names of the directory and looks at one after the
\* other.  It stops at a name that is gone, and Recalculate takes that for a
\* root that does not exist.
Walk(w, p) ==
  LET j == job[w]
      rest == j.tree \ {p}
  IN  /\ j.at = "walk" /\ p \in j.tree
      /\ Becomes(w, IF p \in Existing
                    THEN [j EXCEPT !.tree = rest, !.size = @ + files[p],
                                   !.at = IF rest = {} THEN "set" ELSE "walk"]
                    ELSE [j EXCEPT !.tree = {}, !.at = "set"])
      /\ UNCHANGED <<files, usage>>

\* Seeded fault: the total is added to the row.
FaultyRecalculated(total) == usage + total

\* SetUsage.  Recalculate names the row by the absolute path of the root; all
\* others join it to storage_dir as configured.  Where that is relative, the
\* total goes to a row of its own, which nobody reads.
Recalculated(total) == IF StorageIsAbsolute THEN total ELSE usage

SetUsage(w) ==
  /\ job[w].at = "set"
  /\ usage' = Recalculated(job[w].size)
  /\ job' = [job EXCEPT ![w] = Idle]
  /\ clean' = (clean \/ (job[w].solo /\ StorageIsAbsolute))
  /\ drift' = IF StorageIsAbsolute THEN 0 ELSE drift
  /\ UNCHANGED <<files, requests>>

\* What each request has done to the files and not yet to the row.
Due == [w \in Worker |-> IF job[w].at \in {"commit", "removed"} THEN job[w].delta ELSE 0]

\* The process ends, at any point.  The next one recalculates before it serves, and
\* serves all the same when that fails.
Restart ==
  /\ \E w \in Worker : job[w] # Idle
  /\ job' = [w \in Worker |-> Idle]
  /\ \/ /\ StorageIsAbsolute
        /\ usage' = Recalculated(BytesOf(Path))
        /\ clean' = TRUE
        /\ drift' = 0
     \/ /\ drift' = IF clean THEN drift + Total(Due, Worker) ELSE 0
        /\ UNCHANGED <<usage, clean>>
  /\ UNCHANGED <<files, requests>>

-----------------------------------------------------------------------------
DavStep(w) ==
  \/ ArriveDav(w) \/ Refused(w) \/ Fails(w) \/ Open(w) \/ Publish(w)
  \/ Measure(w) \/ Remove(w) \/ \E some \in SUBSET Path : RemoveFails(w, some)
  \/ CommitRemoval(w) \/ Commit(w) \/ CommitFails(w) \/ Rename(w)
  \/ \E n \in 0 .. job[w].size : Body(w, n)

PanelStep(w) ==
  \/ ArrivePanel(w) \/ Check(w) \/ MoveFile(w) \/ CopyFile(w)
  \/ \E p \in Path : \E n \in 0 .. files[p] : CopyFails(w, n)

UploadStep(w) ==
  \/ ArriveUpload(w) \/ Abandon(w) \/ Complete(w) \/ Place(w)
  \/ \E n \in 1 .. MaxCut : ChunkCut(w, n)

RecalculateStep(w) ==
  ArriveRecalculate(w) \/ SetUsage(w) \/ \E p \in Path : Walk(w, p)

Next ==
  \/ \E w \in Worker : DavStep(w) \/ PanelStep(w) \/ UploadStep(w) \/ RecalculateStep(w)
  \/ Restart

Spec == Init /\ [][Next]_vars

-----------------------------------------------------------------------------
(* Properties.                                                             *)

Kinds == Dav \cup {"none", "panelDelete", "panelCopy", "panelMove", "upload", "recalculate"}

Steps == {"idle", "start", "open", "body", "publish", "commit", "remove", "removed",
          "rename", "apply", "session", "place", "walk", "set"}

Job == [kind : Kinds, at : Steps, src : Path \cup {NoPath}, dst : Path \cup {NoPath},
        tree : SUBSET Path, conflict : {"overwrite", "skip", "rename"},
        size : Nat, count : Nat, prev : Nat, used : Int, delta : Int,
        tagged : BOOLEAN, solo : BOOLEAN]

\* Sizes, the row and the requests in progress are well formed.
TypeOK ==
  /\ files \in [Path -> Nat \cup {Absent}]
  /\ usage \in Int
  /\ job \in [Worker -> Job]
  /\ \A w \in Worker : job[w].at = "idle" <=> job[w] = Idle
  /\ requests \in 0 .. MaxRequests
  /\ clean \in BOOLEAN /\ drift \in Int

\* The row, what requests are about to commit, and what failures left uncounted are
\* together the bytes of the files.  So nothing makes the row wrong but these: a
\* payload with bytes of cut chunks, a commit that fails, a removal or a copy that
\* breaks off, a copy onto itself, and a restart that does not recalculate; and
\* requests that meet on a file and have no lock in common.  A recalculation that
\* runs alone, or a restart, makes it right again.
Accounted == clean => usage + Total(Due, Worker) + drift = BytesOf(Path)

\* A request that meets no other lets the files grow to the quota at the most and
\* the bytes the row was left behind, whatever it is and whichever files it replaces;
\* also where the files were beyond the quota before.
QuotaKept ==
  [][\A w \in Worker :
       Quota > 0 /\ clean /\ job[w].solo /\ BytesOf(Path)' > BytesOf(Path)
         => BytesOf(Path)' <= Quota + drift']_vars

\* What the specification of the usage says of a write: one that would take the
\* files beyond the quota is refused.
QuotaEnforced ==
  [][Quota > 0 /\ BytesOf(Path)' > BytesOf(Path) => BytesOf(Path)' <= Quota]_vars

\* What the specification of the usage says: the recalculation corrects the row,
\* however wrong it was.  Asked of one that ran alone, it needs a storage_dir that
\* is absolute: one that is relative sends the total to another row.
RecalculationCorrects ==
  [][\A w \in Worker : SetUsage(w) /\ job[w].solo => usage' = BytesOf(Path)]_vars

\* What the design says of the temporary file of a PUT: nothing half finished is
\* left.
NoHalfFiles ==
  [][\A w \in Worker : Publish(w) => job[w].count = job[w].size]_vars

=============================================================================
