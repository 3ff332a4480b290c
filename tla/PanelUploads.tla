---------------------------- MODULE PanelUploads ----------------------------
(***************************************************************************)
(* The uploads of the file page: files and folders that are picked or      *)
(* dropped, the question about conflicts, and the sequence of files of     *)
(* uploadPicked, on top of the page of FileBrowser.  How the chunks of one *)
(* file get to the server is UploadSession.                                *)
(***************************************************************************)
EXTENDS FileBrowser

CONSTANTS MaxUploads,   \* bound: calls of uploadPicked
          Selections    \* what can be picked: [folder, tops], the first path segments

Uploads == 1 .. MaxUploads

\* A pick of nothing returns early; and who asked for a list is told from the others.
ASSUME SelectionAssumption ==
  /\ MaxUploads \in Nat
  /\ Selections \subseteq [folder : BOOLEAN, tops : Seq(Names) \ {<<>>}]
  /\ Uploads \cap (Acts \cup {Nobody}) = {}

VARIABLES batch,        \* the uploads
          question,     \* the conflict dialog, and whose answer it resolves
          panel         \* the upload whose progress is shown

uploadVars == <<batch, question, panel>>

vars == <<disk, route, shown, lists, message, dialog, acts, preview, left, sound, dirty,
          batch, question, panel>>

NoBatch == [at |-> "none", folder |-> FALSE, picks |-> <<>>]

\* Seeded fault: what no conflict was seen for is stored over what is there.
FaultyFresh(s, at) ==
  [at |-> at, folder |-> s.folder, picks |-> s.tops, next |-> 1, all |-> "none",
   choice |-> [i \in DOMAIN s.tops |-> "overwrite"],
   told |-> [i \in DOMAIN s.tops |-> "nothing"],
   to |-> Nobody,
   where |-> [i \in DOMAIN s.tops |-> Nobody],
   hit |-> [i \in DOMAIN s.tops |-> FALSE],
   failed |-> FALSE]

\* choice is what is done with each file, told what the user said of it; where it
\* was stored, and whether it replaced a file there.
Fresh(s, at) ==
  [at |-> at, folder |-> s.folder, picks |-> s.tops, next |-> 1, all |-> "none",
   choice |-> [i \in DOMAIN s.tops |-> "rename"],
   told |-> [i \in DOMAIN s.tops |-> "nothing"],
   to |-> Nobody,
   where |-> [i \in DOMAIN s.tops |-> Nobody],
   hit |-> [i \in DOMAIN s.tops |-> FALSE],
   failed |-> FALSE]

Init ==
  /\ BrowserInit
  /\ batch = [b \in Uploads |-> NoBatch]
  /\ question = [open |-> FALSE, resolver |-> Nobody]
  /\ panel = Nobody

-----------------------------------------------------------------------------
(* The choice.                                                             *)

\* The files still to be decided whose first segment is an entry of the page.
Clashes(r) == {i \in r.next .. Len(r.picks) : r.picks[i] \in shown.names}

Kept(r) == {i \in DOMAIN r.picks : r.choice[i] # "skip"}

\* The loop runs on to the next conflict, or to the end, where the upload of the
\* files begins at the address of that moment; without files it returns.
Resumed(r) ==
  IF r.all = "none" /\ Clashes(r) # {}
  THEN [r EXCEPT !.at = "asking", !.next = Min(Clashes(r))]
  ELSE LET decided == [r EXCEPT !.choice =
             [i \in DOMAIN r.picks |-> IF i \in Clashes(r) THEN r.all ELSE r.choice[i]]]
       IN  IF Kept(decided) = {} THEN [decided EXCEPT !.at = "over"]
           ELSE [decided EXCEPT !.at = "uploading", !.to = route, !.next = Min(Kept(decided))]

\* A question takes the place of the one there was, whose call it forgets.
Resume(b, r, rest) ==
  /\ batch' = [batch EXCEPT ![b] = Resumed(r)]
  /\ question' = IF Resumed(r).at = "asking"
                 THEN [open |-> TRUE, resolver |-> b] ELSE rest
  /\ panel' = IF Resumed(r).at = "uploading" THEN b ELSE panel
  /\ UNCHANGED <<disk, route, shown, lists, message, dialog, acts, preview, sound, dirty>>

\* Nothing covers the page; the calls are numbered as they come.
Begins(b, s) ==
  /\ dialog = Closed /\ preview.name = Nobody /\ ~question.open
  /\ \A c \in Uploads : batch[c] = NoBatch <=> c >= b
  /\ left["file"] >= Len(s.tops)
  /\ left' = [left EXCEPT !["file"] = @ - Len(s.tops)]

\* onPick takes all that was chosen.
Pick(b, s) ==
  /\ Begins(b, s)
  /\ Resume(b, Fresh(s, "ready"), question)

\* onDrop reads the first item; while it waits for that, the browser takes the
\* others back, so that a file is all there is, or a folder with its files.
Drop(b, s) ==
  LET taken == IF s.folder THEN s ELSE [s EXCEPT !.tops = SubSeq(s.tops, 1, 1)]
  IN  /\ Begins(b, s)
      /\ batch' = [batch EXCEPT ![b] = Fresh(taken, "collecting")]
      /\ UNCHANGED <<disk, route, shown, lists, message, dialog, acts, preview, sound, dirty,
                     question, panel>>

Collected(b) ==
  batch[b].at = "collecting" /\ Resume(b, batch[b], question) /\ UNCHANGED left

\* Seeded fault: a cancelled question is taken for a choice.
FaultySettled(r, value, forAll) ==
  [r EXCEPT !.told[r.next] = value,
            !.choice[r.next] = value,
            !.all = IF forAll /\ value # "cancel" THEN value ELSE @,
            !.next = @ + 1]

Settled(r, value, forAll) ==
  [r EXCEPT !.told[r.next] = value,
            !.choice[r.next] = IF value = "cancel" THEN "skip" ELSE value,
            !.all = IF forAll /\ value # "cancel" THEN value ELSE @,
            !.next = @ + 1]

\* resolveConflict: save with one of three choices, for all or not, or cancel, which
\* leaves out this file only.
Answer(value, forAll) ==
  /\ question.open
  /\ Resume(question.resolver, Settled(batch[question.resolver], value, forAll),
            [open |-> FALSE, resolver |-> Nobody])
  /\ UNCHANGED left

\* Closed by its corner, the dialog answers nothing.
Dismiss ==
  /\ question.open
  /\ question' = [question EXCEPT !.open = FALSE]
  /\ UNCHANGED <<browserVars, batch, panel>>

-----------------------------------------------------------------------------
(* The files.                                                              *)

\* The next file is sent to the address there is by now; after the last, reload.
Advance(b, r) ==
  LET rest == {i \in Kept(r) : i > r.next}
  IN  IF rest # {}
      THEN /\ batch' = [batch EXCEPT ![b] = [r EXCEPT !.next = Min(rest), !.to = route]]
           /\ UNCHANGED <<lists, dirty>>
      ELSE /\ batch' = [batch EXCEPT ![b] = [r EXCEPT !.at = "reloading"]]
           /\ Reload(route, b)

\* What the server stores a file as: over the one there is if so chosen, next to it
\* otherwise; in a folder, the file there may be another one.
StoredAs(r, path) ==
  IF ~Has(path) THEN {[path |-> path, hit |-> FALSE]}
  ELSE IF r.choice[r.next] = "overwrite"
       THEN {[path |-> path, hit |-> hit] : hit \in IF r.folder THEN BOOLEAN ELSE {TRUE}}
  ELSE {[path |-> IF r.folder THEN path ELSE Path(path.place, Copy(path.name)),
         hit |-> FALSE]}

Stored(b) ==
  LET r == batch[b]
  IN  \E s \in StoredAs(r, Path(r.to, r.picks[r.next])) :
        /\ disk' = With(disk, s.path)
        /\ Advance(b, [r EXCEPT !.where[r.next] = r.to, !.hit[r.next] = s.hit])

FileSent(b) ==
  /\ batch[b].at = "uploading"
  /\ Stored(b)
  /\ UNCHANGED <<route, shown, message, dialog, acts, preview, left, sound, question, panel>>

\* runUpload throws, with nothing stored or with the answer to complete lost, and
\* the loop goes on.
FileFails(b) ==
  /\ batch[b].at = "uploading"
  /\ Spend("fail")
  /\ Fail
  /\ \/ disk' = disk /\ Advance(b, [batch[b] EXCEPT !.failed = TRUE])
     \/ LET r == [batch[b] EXCEPT !.failed = TRUE]
        IN  \E s \in StoredAs(r, Path(r.to, r.picks[r.next])) :
              /\ disk' = With(disk, s.path)
              /\ Advance(b, [r EXCEPT !.where[r.next] = r.to, !.hit[r.next] = s.hit])
  /\ UNCHANGED <<route, shown, dialog, acts, preview, sound, question, panel>>

\* Seeded fault: a failed upload returns before it sets the timer.
FaultyBatchDone(b, i) ==
  /\ lists[i].at = "over" /\ lists[i].for = b
  /\ ~batch[b].failed
  /\ lists' = RemoveAt(lists, i)
  /\ Succeed
  /\ batch' = [batch EXCEPT ![b].at = "lingering"]
  /\ UNCHANGED <<disk, route, shown, dialog, acts, preview, left, sound, dirty,
                 question, panel>>

\* After the reload, whether that failed or not.
BatchDone(b, i) ==
  /\ lists[i].at = "over" /\ lists[i].for = b
  /\ lists' = RemoveAt(lists, i)
  /\ IF batch[b].failed THEN UNCHANGED message ELSE Succeed
  /\ batch' = [batch EXCEPT ![b].at = "lingering"]
  /\ UNCHANGED <<disk, route, shown, dialog, acts, preview, left, sound, dirty,
                 question, panel>>

\* The timer of one upload clears the progress shown, whose ever that is.
TimerFires(b) ==
  /\ batch[b].at = "lingering"
  /\ batch' = [batch EXCEPT ![b].at = "over"]
  /\ panel' = Nobody
  /\ UNCHANGED <<browserVars, question>>

-----------------------------------------------------------------------------
Answered ==
  \/ BrowserAnswered /\ UNCHANGED uploadVars
  \/ \E b \in Uploads : \/ Collected(b) \/ FileSent(b) \/ FileFails(b) \/ TimerFires(b)
                        \/ \E i \in DOMAIN lists : BatchDone(b, i)

User ==
  \/ BrowserUser /\ UNCHANGED uploadVars
  \/ ~question.open /\ BrowserClicked /\ UNCHANGED uploadVars
  \/ \E b \in Uploads, s \in Selections : Pick(b, s) \/ Drop(b, s)
  \/ \E value \in {"rename", "overwrite", "skip", "cancel"}, forAll \in BOOLEAN :
       Answer(value, forAll)
  \/ Dismiss

Next == Answered \/ User

\* Requests are answered or fail in the end, and what awaits them goes on.
Spec == Init /\ [][Next]_vars /\ WF_vars(Answered)

-----------------------------------------------------------------------------
(* Properties.                                                             *)

\* The page and the uploads are well formed.
TypeOK ==
  /\ BrowserTypeOK
  /\ \A b \in Uploads : batch[b] # NoBatch =>
       LET r == batch[b]
       IN  /\ r.at \in {"collecting", "asking", "uploading", "reloading", "lingering", "over"}
           /\ r.at = "uploading" => r.to \in Places /\ r.next \in Kept(r)
           /\ r.at = "asking" => r.next \in DOMAIN r.picks
           /\ \A i \in DOMAIN r.picks : r.choice[i] \in {"rename", "overwrite", "skip"}
  /\ question.open => question.resolver \in Uploads /\ batch[question.resolver].at = "asking"
  /\ panel \in Uploads \cup {Nobody}

AtRest ==
  BrowserAtRest /\ \A b \in Uploads : batch[b].at \notin {"uploading", "reloading"}

\* At rest, the page shows the directory of its address as it is on the server,
\* if the answers came in the order of the requests and nobody else touched the
\* disk.  So every navigation, change and upload, whatever it overlaps with and
\* whatever fails in it, is followed by a reload of the right directory.
ShowsTheDirectory ==
  AtRest /\ sound /\ ~dirty => shown = [of |-> route, names |-> disk[route]]

\* What the user said of a file of an upload: of itself, or before of all.
Said(r, i) == IF r.told[i] # "nothing" THEN r.told[i] ELSE r.all

\* An upload replaces a file only where the user chose that, of the file or of all
\* that follow, and stores nothing the user skipped; also when the entries asked
\* about are not, or no longer, those of the directory stored to.
ChoicesRespected ==
  \A b \in Uploads : batch[b] # NoBatch => \A i \in DOMAIN batch[b].picks :
    /\ batch[b].hit[i] => Said(batch[b], i) = "overwrite"
    /\ batch[b].told[i] \in {"skip", "cancel"} => batch[b].where[i] = Nobody

\* An upload that got past its questions ends, whether files or reloads fail.
UploadsEnd ==
  \A b \in Uploads : batch[b].at = "uploading" ~> batch[b].at = "over"

\* A folder is stored in one place, with its structure.
FolderTogether ==
  \A b \in Uploads : batch[b].folder =>
    \A i, j \in DOMAIN batch[b].picks :
      Nobody \notin {batch[b].where[i], batch[b].where[j]} =>
        batch[b].where[i] = batch[b].where[j]

\* A failure of an upload is told when it ends.
FailureTold ==
  [][\A b \in Uploads : batch[b].at = "reloading" /\ batch'[b].at = "lingering"
       => (batch[b].failed => message' = "error")]_vars
=============================================================================
