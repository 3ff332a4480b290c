# Easy WebDAV: a verification project

TLA+ models of the server in `src/internal` (Go) and of its web panel in
`src/web/src` (TypeScript and Vue), the TLC configurations that check them, and
proofs that TLAPS checks. `PROJECT.json` maps every definition to the
lines it stands for.

## 1. The system

One process serves WebDAV clients under `/dav/` and the panel's JSON API under
`/api/v1/`. Each request runs on a goroutine of its own. The parts share the
files below the storage directory, one SQLite database behind a single
connection (so each statement is atomic and a handler is a sequence of them),
and a few structures in memory.

| component | state it keeps | operations | interacts with |
|---|---|---|---|
| lock table `xnet/lock.go` | tree of reference-counted nodes, token index, expiry heap, held flags, token counter; one mutex | Confirm and its release, Create, Refresh, Unlock, expiry at the start of each | called by the handlers with a clock reading taken earlier |
| WebDAV handlers `xnet/webdav.go`, `webdav/locks.go`, `webdav/handler.go` | per request: temporary locks or a claim, a snapshot of the usage | OPTIONS to PROPPATCH; LOCK, refresh, UNLOCK | lock table (names scoped to the user's root), file system, store |
| WebDAV file operations `xnet/file.go` | none | moveFiles, copyFiles, walkFS | restricted file system |
| restricted file system `webdav/restricted.go` | usage snapshot, temporary files | OpenFile, Write, Close, RemoveAll, Rename, Mkdir | disk, usage rows |
| chunked uploads `upload/upload.go`, `web/src/uploader.ts` | sessions in memory, payload on disk; in the panel a queue and three workers | create, chunk, complete, sweep; retries | disk, usage rows |
| usage accounting `store.go`, `quota/recalculate.go` | a byte count per root | AddUsage, SetUsage, daily recalculation | all writers of files |
| panel files `api/files.go` | none | list, mkdir, delete, copy, move, download | disk, usage rows |
| accounts `api/auth.go`, `api/users.go`, `auth/*.go`, `admin.go` | users, sessions, settings; two Basic caches | setup, login, logout, password, users' life cycle | store |
| login limiter `auth/security.go` | failures per address; one mutex | Allow, Fail, Reset | Login; a second instance for Basic |
| panel session `store.ts`, `router.ts`, `App.vue`, `LoginView.vue` | user, setupRequired, loaded; the route and its redirect | bootstrap, signIn, signUp, signOut, the guard of every navigation | auth API; a cookie that all tabs share |
| file page `FileBrowserView.vue`, `PreviewOverlay.vue` | the list, the dialogs, the alert, the preview; the directory is in the address | browse, mkdir, rename, move, copy, delete, preview | file API, router |
| panel uploads `FileBrowserView.vue`, `uploader.ts` | the tasks of the upload, one resolver of the conflict dialog, a timer | pick, drop, the conflict loop, `runUpload` file by file | file page, upload API |
| administration pages `UsersView.vue`, `SettingsView.vue`, `format.ts` | the table, a form, the settings in the session | load, save, toggle, delete, settings | users and settings API |

The panel runs on one event loop: what stands between two awaits is atomic, and
everything else may interleave with other handlers, with answers that come in any
order, and with the user, whom nothing keeps from clicking while a request is
under way.

What is hard in it, component by component, and what makes it correct:

* **Lock table.** Long histories of nested locks, expiry while a request uses a
  lock, clock readings that arrive out of order. Correct if no two locks
  conflict, the three indexes agree, a claim is exclusive, and a release finds
  what it held.
* **WebDAV handlers.** Several calls of the lock table per request with other
  requests between them, errors half way. Correct if two writers of one resource
  exclude each other, a client's lock excludes all writers but its owner, and
  nothing stays locked behind a request. Everything below a collection is the
  weak spot (section 5).
* **Uploads.** Lost connections, retries, chunks that overtake each other,
  restarts. Correct if a stored file is the client's file and the panel's verdict
  is true.
* **Usage.** Five writers that stat, write and commit in separate steps against
  a recalculation that stores an absolute total. Correct if the count equals the
  bytes on disk whenever nothing is under way, and stays within the quota.
* **Accounts.** Check and act in separate statements, two caches, revocations
  whose errors are ignored. Correct if an administrator always remains, a changed
  password or a disabled account ends all access, nobody inherits a deleted
  user's access, and setup happens once.
* **Limiter.** Correct if failures are bounded however attempts overlap, and an
  address that is locked out is let in again.

* **Panel session.** Calls of the store that overlap, answers that are lost, and a
  guard that runs on navigations only. Correct if the page at rest is one for its
  user, nobody is shown as signed in without a session, and the page opens.
* **File page and uploads.** Awaits during which the address, the list and the
  dialogs change. Correct if the page at rest shows its directory, an action
  happens to the entry it was asked for, an upload overwrites only what the user
  agreed to, stays in one directory and ends.
* **Administration pages.** Forms filled from a table that others change, quotas
  that pass through units. Correct if the table at rest is current and a save
  changes what was touched and nothing else.

`PROJECT.json` lists the hazards line by line, with the properties that cover
them or why none does yet.

## 2. The modules

| module | what it is |
|---|---|
| `MemLS` | the lock table as constant-level operators, one per method of `memLS`: table in, table out |
| `LockSystem` | abstract specification of the interface `LockSystem`: a set of granted locks, some of them claimed |
| `LockService` | state machine: the methods of `MemLS` called by any number of goroutines, releases pending; its properties; the refinement of `LockSystem` |
| `MemLSProofs` | lemmas about the operators of `MemLS`, used by both proof modules below |
| `LockServiceProofs` | theorems about `LockService`, and that it implements `LockSystem` |
| `DavLocking` | WebDAV requests over the same operators: temporary locks, If headers, LOCK, refresh, UNLOCK |
| `DavLockingProofs` | theorems about `DavLocking` |
| `UploadSession` | one chunked upload: the panel's workers, the connections, the session on the server |
| `UploadSessionProofs` | theorems about `UploadSession` |
| `Usage` | the files of one root and the usage row, with every request that writes either, in its separate steps |
| `UsageProofs` | sums over sets of files, and theorems about `Usage` |
| `LoginLimiter` | the limiters of the panel and of WebDAV, attempts in flight |
| `Accounts` | users, sessions and the Basic cache, with every request and admin command that changes them, in its separate statements |
| `AuthProofs` | theorems about `Accounts` and `LoginLimiter` |
| `PanelSession` | one page load of the panel: the store, the guard, the form and the top bar, against the cookie |
| `FileBrowser` | the file page: address, lists, dialogs, changes, preview; actions for `PanelUploads` to compose |
| `PanelUploads` | the file page with its uploads and the conflict dialog |
| `PanelProofs` | theorems about `PanelSession` and `PanelUploads` |
| `UserAdmin` | the users and settings pages against the rows of the server, and the quota in units |
| `UserAdminProofs` | theorems about the quota in units, what a save changes and what the table shows |
| `MCLockService`, `MCDavLocking`, `MCUsage`, `MCAccounts`, `MCPanelUploads`, `MCUserAdmin` | the small trees of names, disks, selections and budgets TLC uses, symmetry |

### State and actions

`MemLS`: `m.byName`, `m.byToken`, `m.byExpiry` and `m.gen` are the fields of the
Go struct. A node without a lock is in the map as long as its `refCount` is not
zero; `NoNode` stands for a missing entry. `WalkToRoot[n]` is what `walkToRoot`
visits. Names are opaque: cleaning and the prefix of `scopedLocks` happen before
the table is called. The Unix time at which `gen` starts is left out. `remove`
takes a set of nodes, since the loop over the heap removes all expired nodes
under one hold of the mutex, in an order that makes no difference.

`LockService`: each call is one step because the method holds `m.mu` from its
first line to its return. `clock` is the wall clock; a call may bring any reading
up to now (`Readings`), which is what happens when goroutines wait for the mutex.
`claims[p]` is the closure `Confirm` returned to `p`; `Release(p)` may come at
any time. `Refresh` and `Unlock` may bring any token.

`DavLocking`: `req[w]` is the request on worker `w`. `Arrive` and
`TakeSecondLock` are the calls of `h.lock` in `confirmLocks`, `GiveBack` the
calls of `Unlock` in its release closure and in its error path, `ArriveIf` and
`TryNextList` the passes of its loop over the lists of the If header, `Finish`
the end of the file operation, after which the deferred release runs.
`given` are the tokens clients know. A list of an If header is chosen when it is
tried, and all headers have `Lists` of them: a list that fails only collects
expired locks, so this covers shorter headers.  Malformed headers, foreign hosts
in a tag and the `403` of read-only users end a request before the table is
touched and are left out. The `Not` and ETag conditions are ignored by the code
and by the model.

`UploadSession`: `client` and `worker` are the variables of `runUpload`, one
step per callback of the event loop. `sess` is the `Session` and its payload,
whose bytes are told by their position in the file. A connection may be lost
before or after the request is served; what the client gave up on stays in
`strays` and may still arrive, whole or cut. `trouble` and `cut` record whether
anything was lost, refused or swept, and whether a body was cut; nothing in the
model depends on them.

`Usage`: `files` has the size of every file of a root, `usage` is the row that
the server reads. `job[w]` is a request in progress: `at` is the point it has
reached, `used`, `prev` and `delta` are the locals of the code that go stale
(the usage snapshot of `SetQuota`, `previous`, the bytes about to be committed).
A step is one call of the file system or of the store: measure, remove, commit,
rename. A `Stat` and the call right after it that uses the result, where both
belong to one helper, are one step. `LockNames` and `LocksFree` stand for the
temporary locks of `confirmLocks` (`DavLocking` shows what they guarantee); a request
whose If header tags another resource (`tagged`) has none on the paths it names.

Any call may fail, at any time and for any reason: a file system that is full or
refuses, a busy database, a context that net/http cancels as the client leaves. A call
that has done nothing ends the request (`Fails`); `RemoveFails`, `CopyFails` and a short
`Body` have done a part of it, and `CommitFails` finds everything done but the count. An
upload appends chunks to its payload: `ChunkCut` is one whose connection breaks, whose
bytes stay there uncounted, `size` is what is received in the end, and `Place` puts both
in place. A restart drops the requests and the sessions of uploads; its recalculation
may fail too, which `main` only logs.

`drift` records by how many bytes all of this has left the row behind the files,
`clean` that no two requests without a common lock met on a file since the row was last
corrected (then nothing is said of the row), and `solo` that a request has met no other
since it began; no guard reads them. Paths are files; the
directory of `Trees` only serves to delete several at once. Creating folders,
`Overwrite: F` and the missing parent of a path change no file and are left out,
and users who share a root are taken to have the same quota.

`LoginLimiter`: `entries[d][i]` is the entry of address `i` in the limiter at door
`d`, which is `AuthAPI.Login` or the WebDAV middleware; each has one of its own.
`tries[t]` is a request between `Allow` and `Fail` or `Reset`, when the password
is verified without a lock. The age of an entry stands for `time.Since(started)`.
`recent[d][i][k]` counts the failures of the last `k` ticks, for `AnyStretchBounded` only. Addresses
are opaque: which header they come from is not modelled.

`Accounts`: `users` and `sessions` are the tables, `lastId` the AUTOINCREMENT
sequence, `cache` the map of the `BasicAuthenticator` that serves WebDAV. A step
is one statement of the store, or one hold of the cache's mutex; `proc[r]` is a
request, `at` the statement it comes to next, and its other fields are what it
has read (`user`, `role`, `pass`) or was given (`name`, `pass`, `off`) and what
may be stale by then. The user's row is read and the session touched in one step
(`PanelLookup`): nothing a request does in between can tell. The other
`BasicAuthenticator`, which `server.New` gives to the panel, has a cache that
nothing ever enters, hence `ClearUser`. `serial`, `epoch` and `since` tell
accounts, password changes and their time apart; `out`, `outdated`, `accounts`
and `unrevoked` record history. No guard reads any of them. `StatementFails` is
a busy database or a cancelled context; a revocation that fails is ignored, as
in the code. `Restart` empties the cache and drops the requests. Users start out
absent, or as an administrator and another account with a session each. Role
changes do not exist in the code.

In the panel modules a request is three steps: it is sent, the server serves it,
its answer is used. It may also fail without effect, or take effect and have its
answer lost. A step of the page is the code from one await to the next.

`PanelSession`: `store` has the fields of the Pinia store that decide anything,
`page` is the route and the redirect in its query, `op[o]` a call of `signIn`,
`signUp`, `signOut` or the first `bootstrap`, at the await it has reached: `Serve`
and `Fails` are the login, setup or logout, `ServeMe`, `UseMe`, `SettingsAnswered`,
`ServeStatus` and `UseStatus` those of `bootstrap`, whose callers navigate when it
returns (`Return`). The form is not disabled while a call is under way (`busy` only
animates its button), so calls overlap. `Meddle` is another tab or the server.
`muddled` records that one of these happened; no guard reads it. `Shown` is what
`App.vue` lets through its spinner. Of an address, the route is kept; the redirect
is to a route of the panel. The role of a user does not change.

`FileBrowser`: `route` is what `userId` and `currentPath` compute, `shown` the
entries, with the directory they were asked for, which the page itself does not
keep. `lists` are the calls of `browse` in the order they were made; one of them
that an action awaits is `over` before the action goes on (`ActOver`). `acts` are
the calls of `action`. `late`, `sound` and `dirty` record whether lists were used
out of order or failed, and whether the disk changed behind the page's back; no
guard reads them. Directories are fixed and entries are not browsed into, so what a
change does to a directory that is open is not in the model. A copy or a renamed
upload is kept as `Copy(n)`. The user may write.

`PanelUploads`: `batch[b]` is a call of `uploadPicked` with its locals: `picks` the
first segments of the relative paths, `choice` the `conflict` of each task ("skip"
for one left out), `next` the place of the loop, `all` is `applyAll`. `to` is the
directory the file under way is sent to, which `runUpload` reads from its options
at the start of a file. `told`, `where` and `hit` record what the user said and
where each file went. One file of an upload is one step: `UploadSession` has its
chunks. `question.resolver` is `conflictResolver`. Dragged items are read one by
one (`Drop`, `Collected`).

`UserAdmin`: `rows` and `settings` are on the server, `versions` counts the writes
of each row, `known` is `session.settings`. `table`, `loads`, `dialog` and `edits`
are as in the file page. A form keeps the version it was filled from (`base`) and
the fields that were changed in it (`touched`), which the code does not: they are
there for the properties. `Typed` amounts are tenths of a unit, and `Kilo` is what
the units are powers of, 1024 in the code. User names, passwords and root
directories, with the check of the form, are left out, and so is the usage column.
A visit to the settings page is one step, since the users page is not there
meanwhile.

## 3. What TLC checks

| run | bounds | result |
|---|---|---|
| `lock_service` | names `/`, `/a`, `/b`; 2 callers; 2 tokens; clock 0..1; timeouts 1 and infinite | all properties hold, `LockSystem` is implemented |
| `dav_locking` | names `/`, `/a`, `/a/b`; 2 workers; 3 tokens; clock 0..1; headers of 2 lists | all properties hold |
| `upload_session` | 5 bytes in chunks of 2, 3 workers, 2 attempts; declared sizes 4 and 5 | all properties hold |
| `upload_retry` | 5 bytes, 3 workers, 3 attempts as in the code | violated: see section 5 |
| `usage` | 2 files, one of them a name `uniqueName` may find; files of size 2 and what is left of them when a body ends early, quota 3; 1 byte of cut chunks; 2 requests at a time, 3 in all | all properties hold |
| `login_limiter` | both limiters, 1 address, 2 requests at a time; limit 3, window of 3 ticks | all properties hold |
| `accounts` | 2 names, 2 passwords, 3 ids, 3 sessions; 2 requests at a time, 3 in all; entries of 2 ticks, sessions of 1; admin commands beside the server | all properties hold |
| `accounts_cache` | the same, 2 requests in all, no admin commands | violated: see section 5 |
| `panel_session` | 2 accounts, one of them an administrator; 2 calls at a time; 1 change of the cookie from elsewhere | all properties hold |
| `file_browser` | 2 owners with 2 directories each, 2 names; 2 lists, 2 changes and 2 uploads at a time; 9 budgets | all properties hold |
| `folder_split` | the same | violated: see section 5 |
| `user_admin` | 3 ids, 2 administrators; 2 requests and 2 loads at a time; units that are powers of 4; 3 budgets | all properties hold |

Why the bounds are enough. Conflicts between locks are between two of them, on
one path to the root or on two; the tree has a root with two members, and a chain
of three where requests are concerned. Two tokens give every pair of locks and a
token used again after its lock is gone; with three, a MOVE holds two temporary
locks beside a client's lock. One tick separates a reading taken before a lock
expires from one taken after. Two requests interleave in every way the mutex
allows; a third adds no new kind of conflict, and the theorems of section 4 do
not bound callers, names or tokens. Three chunks, the last one short, with as
many workers as the panel has, let a chunk overtake, be repeated and arrive
late; two attempts are enough for a retry that succeeds and one that does not.
The declared size 4 reaches the branch that discards an upload that is too long.
In `Usage` two requests overlap on one file or on two, a third comes after a
drift (a recalculation or a refused write). Files of size 2, or 1 and 0 where a body or
a copy broke off, against a quota of 3: one file fits, a whole one and a cut one fit
exactly, two whole ones only where they replace something. One byte of cut chunks takes
the row behind the files, and files to the quota by the row beyond it. `MaxRequests` is
the bound in the guard of `Begin`, `MaxCut` that in the guard of `ChunkCut`.
The limiter treats addresses apart, so one is enough; a limit of three leaves
room for a window that is opened, one that fills up and one overrun by requests
let in before, and both meet in one stretch of `recent`. In `Accounts` the third
id is a user created after a deletion, the third session one made by a login
under way, and three requests are a change, one it races with, and one after
both; `MaxStarts` is the bound, in `Begins`, and ids and sessions end with their
sets, in `Insert` and `DrawSession`. Names, passwords and requests are symmetric.
In the panel, two calls, lists, changes or uploads under way overlap in every way;
a third repeats one of them. `MaxMeddling`, `MaxLists`, `MaxLoads` and `MaxUploads`
are bounds in the guards of `Meddle`, `Reload`, `Load` and `Begins`. A budget bounds
how many navigations, changes, files, failures, previews and changes from elsewhere
a behaviour has; each of `MCBudgets` puts those together that act on one another:
two navigations and a failure, a navigation with a change and a failure, two
changes, a change or a preview with a change from elsewhere, a change with an
upload, a navigation with an upload of two files, two uploads with a failure, and
three files. `Spend` and the guard of `Begins` read it. The selections are one file,
two files and a folder of two; the directories are the top and one below it, of two
owners. With `Kilo = 4` the quotas 0, 8 and 52 are unlimited, a whole number of
kilobytes that is none of megabytes, and one of two digits; typed amounts are 1.5
units and one below zero. Section 4 proves what depends on the size of the units.
These runs set `CHECK_DEADLOCK FALSE`: a user may stop, and budgets end.
`MaxGen` is in the guards that issue tokens; `DavLocking` reserves the tokens of
requests under way, so the bound stops no request half way. The clock stops at
`MaxTime`. Deadlock is checked in the lock modules, where some call is always
possible; an upload ends, and so do the requests of `Usage`, so these set
`CHECK_DEADLOCK FALSE`. Workers and callers are symmetric.

The properties are stated and explained in the modules. In short:

* `LockService`: `Exclusive` (no lock covers the root of another), `IndexOK`
  (reference counts, tokens, heap and held flags agree), `ReleaseFindsItsNodes`
  (`unhold` cannot panic), `ClaimsDisjoint` and `ClaimsCovered` (what the comment
  on `Confirm` promises), `Implements` (every step is one `LockSystem` allows).
* `DavLocking`: `WritersExclusive`, `LockedResourcesRespected`, `LocksAccounted`
  (no lock leaks, temporary locks are kept, what is held is claimed). Requests whose If header tags another
  resource are exempt from the first two for the path they name: the code checks
  the tagged resource instead.
* `UploadSession`: `AcceptedOnceInOrder`, `CompleteMeansStored`, and under fairness
  `UploadEnds`.
* `Usage`: `Accounted` (the row, the pending commits and `drift` are the bytes on
  disk, unless requests without a common lock met on one file: so the row is wrong
  after a cut chunk, a commit, a removal or a copy that failed, a copy onto itself and
  a restart without recalculation, by just that, and never otherwise), `QuotaKept` (a
  request that meets no other grows the files to the quota at the most, and by what the
  row was left behind), `RecalculationCorrects` (a recalculation that runs alone leaves
  the bytes of the files in the row, where `storage_dir` is absolute).
* `LoginLimiter`: `FailuresBounded` (a window counts `Limit - 1` failures and the
  requests in flight at the most), `AnyStretchBounded` (a stretch as long as a
  window, laid anywhere, has less than twice that), `LockoutEnds`.
* `Accounts`: `NoInheritedAccess` (ids are not used again, so what a deleted user
  leaves behind opens no other account), `ShutOut` (a user disabled or deleted
  when a request begins is let in by nothing), `RevocationComplete` (sessions
  from before a password change or disabling are gone, unless the revocation
  failed), `OldPasswordFades` (what the Basic cache holds of a password that is not
  the account's, or from before a disabling, lasts `TTL` at the most after the change,
  but for what a verification under way at the change enters after it: `late`),
  `AdminRemains` (removals that do not overlap leave an
  administrator).
* `PanelSession`: `PageFitsUser` (with no call under way, the page is one its user
  may see, whatever overlapped), `ShownIsSignedIn` (who is shown as signed in has
  the cookie, whatever was lost), `Opens`.
* `PanelUploads`: `ShowsTheDirectory` (at rest, the entries are those of the
  directory in the address, if lists came in order), `ChoicesRespected` (what is
  overwritten or skipped was chosen to be, even where the questions were about
  another list), `UploadsEnd`.
* `UserAdmin`: `TableCurrent` (at rest, the table is the rows, if loads came in
  order), `OnlyWhatWasTouched` (a save from a current row changes the touched fields
  only, though it sends all), `DefaultsApply` (a new user gets the settings).

Fairness. `LoginLimiter` assumes that time passes (`LockoutEnds` needs nothing
else; requests may go on or not). `UploadSession` assumes weak fairness of the client's
callbacks (the event loop runs every callback that is due) and of the server's
answers to connections that last (a goroutine each, and the mutex is given back
after each chunk). Losses, the sweep and restarts are never forced. A body that
stalls for ever is outside: `Chunk` would hold the mutex as long (hazard at
`upload.go:80`). `PanelSession` and `PanelUploads` assume weak fairness of what
follows on an answer: a fetch resolves or rejects in the end, and the event loop
runs what awaits it. For `PanelUploads` that is one condition for the whole page,
as one queue serves it; budgets end, so no user's step comes in between for ever.
Users and other tabs are never forced to act, so a question nobody answers stays
open (hazard at `FileBrowserView.vue:241`).

Each property of a passing run has a seeded fault (operators named `Faulty...`
beside the operator they replace) under which TLC finds it violated.

## 4. What is proved

Each theorem holds for every value of the constants that the named assumptions
allow. The assumptions say that sets of names, requests, workers or ids are finite,
that limits and sizes are natural numbers, what a tree is, and which names are told
from which; TLC evaluates them in every run. Every invariant and every action property
of a passing run is proved. Wherever an invariant of section 3 is not inductive, which is nearly
everywhere, the module defines the invariant `Inv` that is and proves `Init => Inv`,
one lemma per action, and the temporal step.

**The lock table** (`MemLSProofs`, `LockServiceProofs`; any finite tree of names, any
number of callers, tokens and ticks, any timeouts). `InvAlways` is `Spec => []Inv`;
from it follow `TypeCorrect`, `IndexesConsistent`, `LocksExclusive`, `ReleaseSafe`,
`ClaimsAlwaysCovered` and `ClaimsExclusive`, all the invariants of run `lock_service`.
The assumptions `NameAssumption`, `BoundAssumption` and `TimeAssumption` are: names are
finitely many, the empty name is not one of them, every name is on its own path to the
root, and two names on one path are on the path of one another, which holds for any
tree; timeouts are natural numbers. None of the invariants is inductive alone. That
`Create` lets in no conflicting lock depends on the reference counts being exact:
`canCreate` learns that there is a lock below the new root only from the presence of
the node (`LockedIsPresent`, `CanCreateMeans`). The counts stay exact because `remove`
takes a node off once per lock (`RemoveEffect`, over `Cardinality`), which needs token
index and nodes to be inverse. That a release finds its nodes depends on held nodes
being off the heap (`HeapExact`) and refused by `Unlock`. `Inv` is the conjunction of
these. There is one lemma per operator of `MemLS` (it keeps the table `Sound`), one per
operator for the claims (`Good`), and one per action. `ClaimsExclusive` follows from
`Exclusive`: two locks that cover one resource have roots on one path to the root, and
the upper one would cover the lower one's root.

`TableImplements` is the refinement: every behaviour of `LockService` is one of
`LockSystem`, with the locks of the table (`LocksOf`) for those granted. Each action is
shown to be the step of the interface with the same verdict, or a stutter. What that
takes is that the efficient test of the code is the plain one of the interface: the
walk of `canCreate` over nodes and reference counts refuses exactly the roots that
conflict with some lock (`CanCreateIsFree`), the loop over the expiry heap removes
exactly the locks whose deadline has passed and that are not claimed
(`CollectIsAlive`), and `lookup` finds the locks the interface calls usable
(`UsableIsLookup`). Each rests on a part of `Inv`, so the refinement is proved
from `InvAlways`.

**WebDAV requests** (`DavLockingProofs`; any number of workers, any finite tree, from
`DavAssumption` and those of the table). `TypeCorrect`, `WritersAlwaysExclusive`,
`LockedAlwaysRespected` and `LocksAlwaysAccounted` are all the invariants of run
`dav_locking`. `Inv` says of each request, at each point of its handler, what it looks
like (`Shape`), that its tokens are unknown to clients (`OwnTokens`), that its temporary
locks are still there, on the resources it named (`TempKept`), that its claim is held
(`ClaimHeld`), and that every resource it named is covered by a lock of its own or is
one it has yet to ask for (`Covered`); of any two requests that they share no token
(`Apart`); and of the table that tokens suffice (`Reserve`), what is held is claimed
(`HeldClaimed`) and what is locked is known to someone (`Accounted`). A request has to
survive the calls of the others: `SafeKept` says that it does if the locks it relies on
(`Protected`) are the same afterwards, and expiry, which any call may cause, leaves
these alone, since temporary locks are infinite and claimed ones off the heap
(`CollectKeeps`). `WritersExclusive` then follows as for the claims: two locks cover no
common resource. Tokens of clients may be anything, also those of a lock that is gone.

**Uploads** (`UploadSessionProofs`; any sizes, numbers of workers and attempts, from
`UploadAssumption`). `TypeCorrect`, `InOrderAlways` and `CompleteIsStored`. The session
alone is sound: what it counts is what its first `next` chunks hold (`Counts`), every
byte of that is in the temporary file (`Holds`), which is the beginning of the client's
file unless a body was cut (`Begins`). What the panel may conclude is a matter of
counting (`Acknowledged`): chunks counted as complete, and answers about to be, are no
more than the chunks the session has accepted. For every accepted request there is one
answer at the most, and a retry of a chunk already accepted is refused, so when the
panel has counted all chunks the session has them all, though no chunk can be told by
the answer it got.

**Usage** (`UsageProofs`; any files, sizes, quota and number of requests, from
`UsageAssumption`). `TypeCorrect`, `RowAccounted` (`Accounted`), `QuotaIsKept`
(`QuotaKept`) and the action property `RecalculationIsRight`
(`RecalculationCorrects`, on the hypothesis `StorageIsAbsolute`). All follow
from `Invariant`, `Spec => []Inv`. `Accounted` alone is not inductive: a commit
adds what its request has read of the disk some steps before. `Knows` says what that
is at each point of each handler (`prev` is the size of the file to be replaced,
`delta` what is about to be removed or replaced, `size` the part of the walk done so
far), and `ReadsHold` that it is still true of the disk while the count is clean or the
request alone. It stays true because no step of another request changes a file that
this one relies on: of two requests that touch one file, both are of WebDAV and want the
lock of one name (`Undisturbed`), which only one of them holds (`LocksDisjoint`), and a
step changes only what its request touches (`OthersKnow`). A step that fails adds to
`drift` what it has done to the files, so each lemma says of its action how the bytes
change and what of that is due, counted or drifted (`JobStep`, `WorkStep`, `WorkEnds`).
`QuotaKept` is an action property. `Careful` says of a request that has met no other
that the row, not the disk, has room for what it was let in for (`Fits`), at each point
from the check on; `Accounted` then turns the row into bytes at the step that writes
them (`StepKeeps`), which is where `drift` comes into the bound. Requests that arrive
meanwhile do no more than that before this one is no longer alone (`OnlyOneActs`).

The sums of `Accounted` are a fold over a set. That a fold can be computed step by step
(`FoldExists`, `TotalFold`) is proved by induction over the subsets of a finite set,
which `FiniteSetInduction` states for a set of subsets instead of a predicate. From it
follow the lemmas the steps cite: a sum splits over disjoint sets (`TotalSplit`), and a
change of one file changes it by the difference (`TotalChange`).

**Accounts** (`AuthProofs`; any names, passwords, requests, sessions and ids from 1
on, from `AccountsAssumption`). `TypeCorrect`, `NothingInherited`, `StayOut`,
`RevocationsComplete`, `OldPasswordsFade` and the action property `LastAdminRemains`:
all that run `accounts` checks. Statements of other requests run between any two of a
request, so `Inv` is made of facts about one row, one session, one cache entry or one
request that outlive whatever the tables undergo: the user table only ever `Grows` (ids
are given once, a row keeps its role, its epoch does not fall, and its password stays
the same within an epoch), and `Ages` as time
passes. Ids number the accounts, so `serial` is the id, and nothing made for one account
fits another (`MadeFor`). A session from before the last change is `Covered` by a
request about to revoke it, by the request that made the change and keeps it, or by a
revocation that failed. Who was shut out when a request began is disabled as long as he
exists (`OutGood`). A request that counted the administrators leaves another one unless
one has gone since (`Counted`). A request that verifies a password takes along the epoch
it was the password of (`OfPassword`), and so does the entry it makes: a password that
is not the account's is of an earlier epoch, and such an entry has no more left than
`TTL` less the time since the change (`Fades`), unless it was entered after the change.

**Limiter** (`AuthProofs`; any limit, window, number of doors, addresses and requests
in flight, from `LimiterAssumption`). `LimiterTypeCorrect`, `FailuresAlwaysBounded`
and `StretchAlwaysBounded`. `FailuresBounded` is not inductive: a count below the bound
may have many attempts in flight. `WithInFlight` bounds the count and the attempts in
flight together: an attempt is let into a window only while the count is below the
limit, and ending one adds to the count what it takes from the attempts. A window
opened by a late failure begins with at most all requests in flight. For a stretch laid
anywhere, `Placed` says where its failures lie: those younger than the window are
counted by it but for the one that opened it, and those before it belong to one earlier
window, whose opening failure has left the stretch. As a window ends, the failure that
opened it reaches the end of the stretch, so a new one finds it with `PerWindow - 1` at
the most.

**Panel session** (`PanelProofs`; any accounts and administrators, any number of
calls under way and of changes from elsewhere, from `SessionAssumption`).
`SessionTypeCorrect`, `PageAlwaysFits` and `ShownAlwaysSignedIn`. The page
alone does not fit its user inductively: between `clear()` and the navigation of
its caller it does not. `PageSettled` says that the page fits unless a call is under way
that has still to return; since every call that changes the user ends in `Return`,
which navigates through the guard with the user of that moment (`GuardFits`), the
last one to return leaves a page that fits, whichever calls it overlapped.
`CookieInv` follows a call without overlaps: what it has got from `me` is the cookie
or nothing, and before that the store has nobody or the user the cookie names.

**File page and uploads** (`PanelProofs`; any owners, directories, names, selections,
changes and uploads, and any number of lists under way, from `BrowserAssumption` and
`SelectionAssumption`). `TypeCorrect`, `DirectoryShown` (`ShowsTheDirectory`) and
`ChoicesAlwaysRespected` (`ChoicesRespected`). For the choices, the invariant follows
each upload through its stages: while questions are asked (`Undecided`), nothing is
stored, whoever said "skip" or "cancel" of a file has taken it out, a task that
replaces was said to, and nothing was said of the files from `next` on; so the answer
for all, which decides just those, contradicts none given before. From then on
(`Decided`) the choice of a file is what was said of it or of all, and only a file
chosen to replace does. The open question belongs to an upload that asks
(`UploadsInv`), whichever upload that is. For the page, the newest list decides, as in
`UserAdmin`: lists used or overtaken come first (`Ordered`), no change or upload waits
for two (`Waiting`), and the newest one is of the directory of the address; while it is
under way it will bring the entries of the server, and once it is used the page shows
them, unless a change or an upload has still to ask for the next one (`Newest`,
`Quiet`). `DropKeeps` is about what is left of `lists` when one of them ends, `MinIn`
about the next file of a loop, which is the least of those left.

**Administration pages** (`UserAdminProofs`; any users, administrators, requests and
loads under way, any `Kilo`, from `AdminAssumption` and `FirstAssumption`).
`WholeQuotaKept`: a quota of whole kilobytes goes through
`splitQuota` and `quotaToBytes` unchanged, for every quota and every `Kilo`, by cases
over the unit the form picks (`UnitExact`) and the exact rounding of `RoundExact`.
From it follow `TypeCorrect`, `TouchedOnly`
(`OnlyWhatWasTouched`) and `DefaultsReach` (`DefaultsApply`). Neither action property holds in every
typed state: a request must carry the row it was made from. `Inv` says so of every
copy on its way. Rows in a load and in the table are those of the server as long as
their version is (`Snap`); the form would send (`Body`), and a request sends, the row
of its version but for what was touched, or the session's defaults (`Faithful`). A
row that is written gets a new version, so what was said of the old one stays true
(`SnapKept`, `FaithKept`): the heart of the proof. Opening a form is where the units
come in. `TableAlwaysCurrent` needs another invariant, `Tracked`, on top: of the loads
in the order they were asked for, those used or overtaken come first (`Ordered`), a
request waits for one load only (`Waiting`), and the newest one decides (`Newest`).
While it is under way it will bring the rows of the server, because every request that
writes asks for a load after it; once it was used, or overtaken, the table shows them.

Only model-checked: liveness (`LockoutEnds`, `UploadEnds`, `Opens`, `UploadsEnd`). It
needs fairness and `ENABLED`, which the prover does not handle. The properties of
section 5 have counterexamples, so there is nothing to prove.

## 5. Where code and documents part

The runs that expect a violation:

* `upload_retry`: a chunk cut half way leaves its bytes in the payload, the retry
  appends the whole chunk after them, and the size check of `Complete` does not
  see it: the stored file is corrupt, and the panel shows it as complete.
* `accounts_cache`: a password change, a reset or a disabling clears the Basic
  cache of the panel's authenticator, which is always empty. The one that serves
  WebDAV keeps the old password for up to a minute. (A disabled user is stopped
  all the same, as a hit reads the row: `ShutOut`.)
* `folder_split`: `uploadPicked` reads the directory anew for every file. A user who
  opens another directory while a folder is uploading gets the rest of it there,
  while `web-file-browser/spec.md:23` wants the structure of a folder kept.

Further configurations, which no run of `PROJECT.json` uses, each show a
counterexample as well:

* `DavMoves.cfg` (`MovedLocksRespected`): MOVE and DELETE of a collection lock the
  collection only, with depth 0; a member locked by another client is moved or
  deleted all the same. The README promises `423` for writes to a locked resource.
* `UploadParallel.cfg` (`SmoothUploadSucceeds`): the panel sends chunks in parallel,
  the server accepts them in order only; with no loss at all an upload can fail.
* `UsageQuota.cfg` (`QuotaEnforced`): the bytes that a cut chunk leaves in the payload
  are neither in the size the quota was checked for nor in what is committed. One upload
  alone, whose client waits for every answer, takes the files beyond the quota, and the
  row stays behind them until the next recalculation. `quota-usage/spec.md:15` wants
  every write that would exceed the quota refused.
* `UsagePut.cfg` (`NoHalfFiles`): when the body of a PUT breaks off, the handler
  closes the file as usual, and the part that arrived replaces the old file. Its
  commit fails with the cancelled context, so the usage drifts as well.
* `UsageRelative.cfg` (`RecalculationCorrects`): `Recalculate` stores its total under
  the absolute path of the root. With a relative `storage_dir`, which is the default
  and what the systemd unit in `deploy/` runs with, the server reads another row, which
  only ever adds and never is corrected.

Properties that state what one may expect and TLC finds violated, where no document
is clear enough to quote: `SignedOutEitherWay` of `PanelSession` (when the logout
fails, `bootstrap` signs the user back in; `store.ts:76` has the cookie cleared
either way), `DeletesWhatWasConfirmed` of `FileBrowser` (a dialog submitted after the
back button acts on the other directory), `PreviewShowsEntry` (the overlay is not
given its directory, so previews of entries below the top fail), `FailureTold` of
`PanelUploads` (the reload erases the error of a failed upload), `NoLostUpdate` of
`UserAdmin` (a form or a button takes back what another administrator changed).
`FoldersOpen` fails when a directory is named `u`: its address is that of another
user's files.

The properties above say where they stop, and some of those places are at odds
with a document as well:

* the quota (`quota-usage/spec.md:15`) is checked against a snapshot: requests of
  one user that overlap together exceed it, so `QuotaKept` is about a request that
  meets no other;
* a panel upload of several dropped files takes the first only, since the browser takes
  the items back during the first await (`web-file-browser/spec.md:26-27` has three
  dropped files uploaded);
* two administrators who remove each other at the same time leave none
  (`AdminRemains` excludes it with `outdated`);
* a login that has verified the old password makes its session after the
  revocation, and a revocation whose statement fails is ignored
  (`admin-auth/spec.md:30` wants all sessions gone);
* two requests to `Setup` at once both create an administrator;
* `design.md:65` speaks of one sliding window for panel and WebDAV together; the
  code has two limiters, each with a fixed window.

Met while modelling and contradicting no document: a panel copy of a file onto
itself truncates it; a MOVE without a source removes the destination, and a COPY
refused for the quota has already removed it; a file that vanishes during the
recalculation ends the walk and the partial total is stored; a save of a user closes whichever form is open when it is answered.

## 6. Plan

Done: `MemLS`, `LockSystem`, `LockService`, `DavLocking`, `UploadSession`,
`LoginLimiter`, `Accounts`, `Usage`, `PanelSession`, `FileBrowser`, `PanelUploads` and
`UserAdmin`, with proofs of every invariant. Next, most important first:

1. `PanelFiles`: `safeTargetPath`, `copyPath`, `moveFiles` and `copyFiles` on a
   small tree of files and directories against a reference definition.
2. A restart of the lock table in `DavLocking` with tokens of the old process.
3. The upload manager with several uploads and its one mutex.
4. The quota and permission fields of `Accounts` read by `Usage`.
5. The usage card and the selection of the file page; the password dialog of the
   users page.

Proofs worth adding: that `DavLocking` provides the locks `Usage` assumes (`LocksFree`
from `WritersExclusive`), as a refinement between the two.

## 7. Running it

    tlc -workers 2 -config LockService.cfg MCLockService
    tlc -workers 2 -config DavLocking.cfg MCDavLocking
    tlc -workers 2 -config UploadSession.cfg UploadSession
    tlc -workers 2 -config Usage.cfg MCUsage
    tlc -workers 2 -config UsageQuota.cfg MCUsage
    tlc -workers 2 -config LoginLimiter.cfg LoginLimiter
    tlc -workers 2 -config Accounts.cfg MCAccounts
    tlc -workers 2 -config PanelSession.cfg PanelSession
    tlc -workers 2 -config PanelUploads.cfg MCPanelUploads
    tlc -workers 2 -config PanelFolder.cfg MCPanelUploads
    tlc -workers 2 -config UserAdmin.cfg MCUserAdmin
    tlapm MemLSProofs.tla
    tlapm LockServiceProofs.tla
    tlapm DavLockingProofs.tla
    tlapm UploadSessionProofs.tla
    tlapm UsageProofs.tla
    tlapm AuthProofs.tla
    tlapm PanelProofs.tla
    tlapm UserAdminProofs.tla

Not modelled, and why: configuration, logging, privilege drop and disk usage
(sequential start-up and I/O), PROPFIND and XML (parsing and formatting without
state), the vendored XML package, the unused helpers in `quota.go`, routing; of the
panel, the views for the account and the overview and the dialog that explains how
to connect (forms of one request, read-only lists and texts), translations, themes,
highlighting, and the sorting and filtering of the list.
