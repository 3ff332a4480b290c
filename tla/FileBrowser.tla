---------------------------- MODULE FileBrowser ----------------------------
(***************************************************************************)
(* The file page of the panel, FileBrowserView.vue: the address, the list  *)
(* of the directory, the dialogs that make, rename, move, copy and delete, *)
(* and the preview (PreviewOverlay.vue).  PanelUploads adds the uploads.   *)
(*                                                                         *)
(* What runs between two awaits is one step.  A request is served at one   *)
(* step and its answer is used at a later one; answers may overtake each   *)
(* other.  The entries acted on are not the directories browsed: those     *)
(* stay, and a list that fails stands for one that was removed.            *)
(***************************************************************************)
EXTENDS Naturals, SequencesExt

CONSTANTS Owners,       \* whose directories are browsed
          Me,           \* the one of them signed in, an administrator
          U,            \* the path segment before an owner, "u"
          Dirs,         \* the directories of each of them, as sequences
          Names,        \* names of entries
          Images,       \* those of them that are images
          Acts,         \* changes that may be under way at once
          Nobody,       \* no dialog, no entry, no caller
          Disks,        \* what the directories may hold at first
          Budgets,      \* bounds: what a behaviour may contain of each kind
          MaxLists      \* bound: lists under way

\* The name under which the server keeps both, one for each name.
Copy(n) == <<n>>

Entries == Names \cup {Copy(n) : n \in Names}

Places == [owner : Owners, dir : Dirs]

Top == <<>>

Image(n) == n \in Images \cup {Copy(m) : m \in Images}

\* Nobody and the changes are told from each other and from the kinds of dialog.
ASSUME BrowserAssumption ==
  /\ Me \in Owners /\ Top \in Dirs
  /\ Images \subseteq Names
  /\ Disks \subseteq [Places -> SUBSET Names]
  /\ MaxLists \in Nat \ {0}
  /\ Nobody \notin Acts \cup {"name", "move", "delete"}

VARIABLES disk,         \* the entries of each directory, on the server
          route,        \* the place the address names
          shown,        \* the entries on the page, and the place they are of
          lists,        \* the lists asked for, in the order of the requests
          message,      \* the alert shown
          dialog,       \* the dialog that is open
          acts,         \* the changes submitted
          preview,      \* the entry previewed, and the place of the list it is from
          left,         \* what remains of the budget
          sound,        \* whether the list used last was in order
          dirty         \* whether something the page is not told of changed the disk since
                        \* it last asked for a list

browserVars ==
  <<disk, route, shown, lists, message, dialog, acts, preview, left, sound, dirty>>

Closed == [box |-> Nobody, kind |-> Nobody, name |-> Nobody, at |-> Nobody]

NoAct == [at |-> "off", kind |-> Nobody, box |-> Nobody, path |-> Nobody, to |-> Nobody]

Path(place, n) == [place |-> place, name |-> n]

Paths == [place : Places, name : Entries]

Asked(place, caller) ==
  [of |-> place, at |-> "sent", names |-> {}, late |-> FALSE, for |-> caller]

BrowserInit ==
  /\ left \in Budgets
  /\ disk \in Disks
  /\ route = [owner |-> Me, dir |-> Top]
  /\ shown = [of |-> route, names |-> {}]
  /\ lists = <<Asked(route, Nobody)>>
  /\ message = "none"
  /\ dialog = Closed
  /\ acts = [a \in Acts |-> NoAct]
  /\ preview = [name |-> Nobody, of |-> route]
  /\ sound = FALSE
  /\ dirty = FALSE

Spend(kind) == left[kind] > 0 /\ left' = [left EXCEPT ![kind] = @ - 1]

\* One alert takes the place of the other.
Fail == message' = "error"

Succeed == message' = "notice"

CloseAlert ==
  /\ message # "none" /\ Spend("alert")
  /\ message' = "none"
  /\ UNCHANGED <<disk, route, shown, lists, dialog, acts, preview, sound, dirty>>

-----------------------------------------------------------------------------
(* The list.                                                               *)

\* browse asks for the directory of the address.
Reload(place, caller) ==
  /\ Len(lists) < MaxLists
  /\ lists' = Append(lists, Asked(place, caller))
  /\ dirty' = FALSE

\* Those asked for before the i-th are late once that one is used.
Used(i) ==
  LET marked == [j \in DOMAIN lists |-> [lists[j] EXCEPT !.late = @ \/ j < i]]
  IN  IF lists[i].for = Nobody
      THEN RemoveAt(marked, i)
      ELSE [marked EXCEPT ![i].at = "over"]

ServeList(i) ==
  /\ lists[i].at = "sent"
  /\ lists' = [lists EXCEPT ![i].at = "served", ![i].names = disk[lists[i].of]]
  /\ UNCHANGED <<disk, route, shown, message, dialog, acts, preview, left, sound, dirty>>

\* The answer replaces the entries, whatever the address is by now.
UseList(i) ==
  /\ lists[i].at = "served"
  /\ shown' = [of |-> lists[i].of, names |-> lists[i].names]
  /\ message' = IF message = "error" THEN "none" ELSE message
  /\ sound' = ~lists[i].late
  /\ lists' = Used(i)
  /\ UNCHANGED <<disk, route, dialog, acts, preview, left, dirty>>

\* A list that fails leaves the entries there are.
ListFails(i) ==
  /\ lists[i].at \in {"sent", "served"}
  /\ Spend("fail")
  /\ Fail
  /\ sound' = FALSE
  /\ lists' = Used(i)
  /\ UNCHANGED <<disk, route, shown, dialog, acts, preview, dirty>>

-----------------------------------------------------------------------------
(* The address.                                                            *)

\* go puts the owner's segments before the path, but for one's own directories.
Address(place) ==
  IF place.owner = Me THEN place.dir ELSE <<U, place.owner>> \o place.dir

\* The routes, in their order: /files/u/:userId/... and /files/...
Parsed(address) ==
  IF Len(address) >= 2 /\ address[1] = U
  THEN [owner |-> address[2], dir |-> SubSeq(address, 3, Len(address))]
  ELSE [owner |-> Me, dir |-> address]

\* One page shows all these addresses; it watches the address, and reloads.
AddressChanges(there) == there # route /\ route' = there /\ Reload(there, Nobody)

\* A folder, the breadcrumbs, a link, the back button, which a dialog does not
\* keep from working.
Navigate(to) ==
  LET there == Parsed(Address(to))
  IN  /\ Spend("nav")
      /\ there \in Places
      /\ AddressChanges(there)
      /\ UNCHANGED <<disk, shown, message, dialog, acts, preview, sound>>

\* The button of the toolbar.
Refresh ==
  /\ dialog = Closed /\ preview.name = Nobody
  /\ Spend("nav")
  /\ Reload(route, Nobody)
  /\ UNCHANGED <<disk, route, shown, message, dialog, acts, preview, sound>>

-----------------------------------------------------------------------------
(* The dialogs.                                                            *)

\* The row or the toolbar is clicked: the dialog of one kind is opened for an entry.
Prompt(box, kind, n) ==
  /\ dialog = Closed /\ preview.name = Nobody
  /\ left["act"] > 0
  /\ dialog' = [box |-> box, kind |-> kind, name |-> n, at |-> shown.of]
  /\ UNCHANGED <<disk, route, shown, lists, message, acts, preview, left, sound, dirty>>

PromptName(kind, n) ==
  /\ kind \in {"mkdir", "rename", "copy"}
  /\ n \in IF kind = "mkdir" THEN {Nobody} ELSE shown.names
  /\ Prompt("name", kind, n)

PromptMove(n) == n \in shown.names /\ Prompt("move", "move", n)

PromptDelete(n) == n \in shown.names /\ Prompt("delete", "delete", n)

Cancel ==
  /\ dialog # Closed
  /\ dialog' = Closed
  /\ UNCHANGED <<disk, route, shown, lists, message, acts, preview, left, sound, dirty>>

\* action sends the change.  The dialog stays open, and can be submitted again, until
\* the answer.
Act(path, to) ==
  LET next == CHOOSE free \in Acts : acts[free] = NoAct
  IN  /\ \E free \in Acts : acts[free] = NoAct
      /\ Spend("act")
      /\ acts' = [acts EXCEPT ![next] = [at |-> "sent", kind |-> dialog.kind, box |-> dialog.box,
                                         path |-> path, to |-> to]]
      /\ UNCHANGED <<disk, route, shown, lists, message, dialog, preview, sound, dirty>>

\* join puts the name under the address there is now, not that of the list.
Join(n) == Path(route, n)

SubmitName(n) ==
  /\ dialog.box = "name"
  /\ Act(Join(IF dialog.kind = "mkdir" THEN n ELSE dialog.name), Join(n))

\* The destination is typed: any directory of the owner.
SubmitMove(to) ==
  /\ dialog.box = "move" /\ to.place.owner = route.owner
  /\ Act(Join(dialog.name), to)

ConfirmDelete == dialog.box = "delete" /\ Act(Join(dialog.name), Join(dialog.name))

Has(path) == path.name \in disk[path.place]

With(d, path) == [d EXCEPT ![path.place] = @ \cup {path.name}]

Less(d, path) == [d EXCEPT ![path.place] = @ \ {path.name}]

\* What the file API does; whatever is at the destination is replaced.
Done(act) ==
  CASE act.kind = "mkdir"  -> With(disk, act.to)
    [] act.kind = "delete" -> Less(disk, act.path)
    [] act.kind = "copy"   -> With(disk, act.to)
    [] OTHER               -> With(Less(disk, act.path), act.to)

\* Nothing but a new folder can be had without a source.  The answer arrives, or is lost.
ServeAct(a) ==
  /\ acts[a].at = "sent"
  /\ acts[a].kind = "mkdir" \/ Has(acts[a].path)
  /\ disk' = Done(acts[a])
  /\ \/ acts' = [acts EXCEPT ![a].at = "done"] /\ UNCHANGED <<left, dirty>>
     \/ acts' = [acts EXCEPT ![a].at = "failed"] /\ Spend("fail") /\ dirty' = TRUE
  /\ UNCHANGED <<route, shown, lists, message, dialog, preview, sound>>

\* The entry is gone, or the request is refused.
RefuseAct(a) ==
  /\ acts[a].at = "sent"
  /\ \/ acts[a].kind # "mkdir" /\ ~Has(acts[a].path) /\ UNCHANGED left
     \/ Spend("fail")
  /\ acts' = [acts EXCEPT ![a].at = "failed"]
  /\ UNCHANGED <<disk, route, shown, lists, message, dialog, preview, sound, dirty>>

\* Seeded fault: action does not reload.
FaultyActDone(a) ==
  /\ acts[a].at = "done"
  /\ acts' = [acts EXCEPT ![a] = NoAct]
  /\ dialog' = IF dialog.box = acts[a].box THEN Closed ELSE dialog
  /\ UNCHANGED <<disk, route, shown, lists, message, preview, left, sound, dirty>>

\* action reloads, at the address there is by now.
ActDone(a) ==
  /\ acts[a].at = "done"
  /\ Reload(route, a)
  /\ acts' = [acts EXCEPT ![a].at = "reloading"]
  /\ UNCHANGED <<disk, route, shown, message, dialog, preview, left, sound>>

\* The list is over, whether it failed or not, and the dialog of that kind is closed,
\* even if it was opened again meanwhile.
ActOver(a, i) ==
  /\ lists[i].at = "over" /\ lists[i].for = a
  /\ lists' = RemoveAt(lists, i)
  /\ acts' = [acts EXCEPT ![a] = NoAct]
  /\ dialog' = IF dialog.box = acts[a].box THEN Closed ELSE dialog
  /\ UNCHANGED <<disk, route, shown, message, preview, left, sound, dirty>>

\* The dialog stays as it is, nothing is reloaded.
ActFailed(a) ==
  /\ acts[a].at = "failed"
  /\ acts' = [acts EXCEPT ![a] = NoAct]
  /\ Fail
  /\ UNCHANGED <<disk, route, shown, lists, dialog, preview, left, sound, dirty>>

-----------------------------------------------------------------------------
(* The preview.                                                            *)

Preview(n) ==
  /\ preview.name = Nobody /\ dialog = Closed
  /\ Spend("preview")
  /\ n \in shown.names
  /\ preview' = [name |-> n, of |-> shown.of]
  /\ UNCHANGED <<disk, route, shown, lists, message, dialog, acts, sound, dirty>>

\* step goes to another image of the page, if the one shown is among them.
Step(n) ==
  /\ Spend("preview")
  /\ {preview.name, n} \subseteq {m \in shown.names : Image(m)}
  /\ n # preview.name
  /\ preview' = [name |-> n, of |-> shown.of]
  /\ UNCHANGED <<disk, route, shown, lists, message, dialog, acts, sound, dirty>>

ClosePreview ==
  /\ preview.name # Nobody
  /\ preview' = [preview EXCEPT !.name = Nobody]
  /\ UNCHANGED <<disk, route, shown, lists, message, dialog, acts, left, sound, dirty>>

\* What the overlay fetches: the page passes it the user and no directory.
Url == Path([owner |-> route.owner, dir |-> Top], preview.name)

-----------------------------------------------------------------------------
\* Another page, a WebDAV client or another user puts or removes an entry.
Foreign(path) ==
  /\ Spend("foreign")
  /\ disk' = IF Has(path) THEN Less(disk, path) ELSE With(disk, path)
  /\ dirty' = TRUE
  /\ UNCHANGED <<route, shown, lists, message, dialog, acts, preview, sound>>

-----------------------------------------------------------------------------
BrowserAnswered ==
  \/ \E i \in DOMAIN lists :
       \/ ServeList(i) \/ UseList(i) \/ ListFails(i)
       \/ \E a \in Acts : ActOver(a, i)
  \/ \E a \in Acts : ServeAct(a) \/ RefuseAct(a) \/ ActDone(a) \/ ActFailed(a)

\* What a dialog or the preview covers cannot be clicked.
BrowserClicked ==
  \/ Refresh
  \/ \E kind \in {"mkdir", "rename", "copy"}, n \in Entries \cup {Nobody} : PromptName(kind, n)
  \/ \E n \in Entries : PromptMove(n) \/ PromptDelete(n) \/ Preview(n)

BrowserUser ==
  \/ \E to \in Places : Navigate(to)
  \/ Cancel \/ CloseAlert
  \/ \E n \in Names \cup {dialog.name} :
       \/ Join(n) \in Paths /\ SubmitName(n)
       \/ \E place \in Places : Path(place, n) \in Paths /\ SubmitMove(Path(place, n))
  \/ ConfirmDelete
  \/ \E n \in Entries : Step(n)
  \/ ClosePreview
  \/ \E path \in [place : Places, name : Names] : Foreign(path)

-----------------------------------------------------------------------------
(* Properties.                                                             *)

\* The page, the requests under way and the disk are well formed.
BrowserTypeOK ==
  /\ disk \in [Places -> SUBSET Entries] /\ route \in Places
  /\ shown \in [of : Places, names : SUBSET Entries]
  /\ Len(lists) <= MaxLists
  /\ \A i \in DOMAIN lists :
       /\ lists[i].of \in Places /\ lists[i].names \subseteq Entries
       /\ lists[i].at \in {"sent", "served", "over"} /\ lists[i].late \in BOOLEAN
  /\ message \in {"none", "error", "notice"}
  /\ dialog = Closed \/ dialog.kind = "mkdir" \/ dialog.name \in Entries
  /\ \A a \in Acts : acts[a] # NoAct => acts[a].path \in Paths /\ acts[a].to \in Paths
  /\ preview.name \in Entries \cup {Nobody}
  /\ sound \in BOOLEAN /\ dirty \in BOOLEAN

\* Nothing asked for is left, and no change waits for its reload.
BrowserAtRest == lists = <<>> /\ \A a \in Acts : acts[a] = NoAct

\* A preview shows the entry it was opened on.
PreviewShowsEntry == preview.name # Nobody => Url = Path(preview.of, preview.name)

\* What a deletion removes is what the dialog asked about: the entry of the list
\* that was on the page.
DeletesWhatWasConfirmed ==
  [][\A a \in Acts : acts[a] = NoAct /\ acts'[a].kind = "delete"
       => acts'[a].path = Path(dialog.at, dialog.name)]_browserVars

\* go leads to the directory it was called for.
FoldersOpen == \A place \in Places : Parsed(Address(place)) = place
=============================================================================
