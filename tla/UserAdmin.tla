----------------------------- MODULE UserAdmin -----------------------------
(***************************************************************************)
(* The administration pages of the panel: the table of users with its      *)
(* dialogs and buttons (UsersView.vue), the settings (SettingsView.vue)    *)
(* and the quota of a form in units (format.ts), against the rows of the   *)
(* server, which other administrators change too.                          *)
(*                                                                         *)
(* What runs between two awaits is one step; a request is served at one    *)
(* step and its answer is used at a later one.                             *)
(***************************************************************************)
EXTENDS Integers, Sequences

Lists == INSTANCE SequencesExt

CONSTANTS Ids,          \* ids of users, never given twice
          Admins,       \* those of administrators
          New,          \* no user: the form creates one
          Edits,        \* requests that change something, at once
          Kilo,         \* what the quota units are powers of, 1024
          Populations,  \* the users there may be at first
          Defaults,     \* the settings there may be at first
          Quotas,       \* quotas other administrators set
          Typed,        \* amounts typed, in tenths
          Budgets,      \* bounds: what a behaviour may contain of each kind
          MaxLoads      \* bound: loads under way

ASSUME AdminAssumption ==
  /\ Admins \subseteq Ids /\ New \notin Ids \cup Edits
  /\ Kilo \in Nat \ {0}
  /\ Quotas \subseteq Nat /\ Typed \subseteq Int
  /\ MaxLoads \in Nat \ {0}

VARIABLES rows,         \* the users on the server
          versions,     \* how often each was changed
          settings,     \* the defaults for new users, on the server
          known,        \* those the session store has
          table,        \* the rows on the page, and the versions they are of
          loads,        \* the loads under way, in the order of the requests
          dialog,       \* the form that is open
          edits,        \* the requests under way
          left,         \* what remains of the budget
          sound,        \* whether the load used last was in order
          dirty,        \* whether a row changed unknown to the page since its last load
          drifted       \* whether the settings changed unknown to the session

vars == <<rows, versions, settings, known, table, loads, dialog, edits, left, sound, dirty,
          drifted>>

-----------------------------------------------------------------------------
(* Quotas in units.                                                        *)

Mega == Kilo * Kilo

Giga == Kilo * Kilo * Kilo

\* Math.round of n / d.
Round(n, d) == (2 * n + d) \div (2 * d)

\* Seeded fault: the quota is always shown in megabytes.
FaultySplitQuota(bytes) == [tenths |-> Round(10 * bytes, Mega), unit |-> Mega]

\* The largest unit that divides the quota; else megabytes, to a tenth.
SplitQuota(bytes) ==
  IF bytes = 0 THEN [tenths |-> 0, unit |-> Mega]
  ELSE IF bytes % Giga = 0 THEN [tenths |-> 10 * (bytes \div Giga), unit |-> Giga]
  ELSE IF bytes % Mega = 0 THEN [tenths |-> 10 * (bytes \div Mega), unit |-> Mega]
  ELSE IF bytes % Kilo = 0 THEN [tenths |-> 10 * (bytes \div Kilo), unit |-> Kilo]
  ELSE [tenths |-> Round(10 * bytes, Mega), unit |-> Mega]

\* Seeded fault: an amount below zero is not taken for zero.
FaultyQuotaToBytes(amount) == Round(amount.tenths * amount.unit, 10)

QuotaToBytes(amount) ==
  IF amount.tenths <= 0 THEN 0 ELSE Round(amount.tenths * amount.unit, 10)

\* A form keeps these; all others it rounds to a tenth of a megabyte.
Whole(bytes) == bytes % Kilo = 0

-----------------------------------------------------------------------------
Permissions == {"read", "readwrite"}

Absent == [permission |-> "read", quota |-> -1, disabled |-> FALSE]

Row == [permission : Permissions, quota : Nat, disabled : BOOLEAN]

Rows == Row \cup {Absent}

Setting == [permission : Permissions, quota : Nat]

ASSUME FirstAssumption ==
  /\ \A first \in Populations : first \in [Ids -> Rows]
  /\ \A first \in Defaults : first \in Setting

Exists(i) == rows[i] # Absent

Enabled == {i \in Admins : Exists(i) /\ ~rows[i].disabled}

\* What is assumed of settings that could not be loaded.
Blank == [quota |-> 0, permission |-> "readwrite"]

Shut == [for |-> New, open |-> FALSE, form |-> Absent, amount |-> SplitQuota(0),
         base |-> 0, touched |-> {}]

NoEdit == [at |-> "off", kind |-> "save", for |-> New, body |-> Absent, base |-> 0,
           touched |-> {}]

Sent(caller) == [at |-> "sent", rows |-> rows, versions |-> versions, late |-> FALSE,
                 for |-> caller]

Init ==
  /\ left \in Budgets
  /\ rows \in Populations
  /\ versions = [i \in Ids |-> IF Exists(i) THEN 1 ELSE 0]
  /\ settings \in Defaults
  /\ \/ known = settings /\ drifted = FALSE
     \/ known = Blank /\ drifted = TRUE
  /\ table = [rows |-> [i \in Ids |-> Absent], versions |-> [i \in Ids |-> 0]]
  /\ loads = <<Sent(New)>>
  /\ dialog = Shut
  /\ edits = [e \in Edits |-> NoEdit]
  /\ sound = FALSE /\ dirty = FALSE

Spend(kind) == left[kind] > 0 /\ left' = [left EXCEPT ![kind] = @ - 1]

-----------------------------------------------------------------------------
(* The table.                                                              *)

Load(caller) ==
  /\ Len(loads) < MaxLoads
  /\ loads' = Append(loads, Sent(caller))
  /\ dirty' = FALSE

\* Those asked for before the i-th are late once that one is used.
Used(i) ==
  LET marked == [j \in DOMAIN loads |-> [loads[j] EXCEPT !.late = @ \/ j < i]]
  IN  IF loads[i].for = New
      THEN Lists!RemoveAt(marked, i)
      ELSE [marked EXCEPT ![i].at = "over"]

ServeLoad(i) ==
  /\ loads[i].at = "sent"
  /\ loads' = [loads EXCEPT ![i].at = "served", ![i].rows = rows, ![i].versions = versions]
  /\ UNCHANGED <<rows, versions, settings, known, table, dialog, edits, left, sound, dirty, drifted>>

UseLoad(i) ==
  /\ loads[i].at = "served"
  /\ table' = [rows |-> loads[i].rows, versions |-> loads[i].versions]
  /\ sound' = ~loads[i].late
  /\ loads' = Used(i)
  /\ UNCHANGED <<rows, versions, settings, known, dialog, edits, left, dirty, drifted>>

LoadFails(i) ==
  /\ loads[i].at \in {"sent", "served"}
  /\ Spend("fail")
  /\ sound' = FALSE
  /\ loads' = Used(i)
  /\ UNCHANGED <<rows, versions, settings, known, table, dialog, edits, dirty, drifted>>

-----------------------------------------------------------------------------
(* The form and the buttons.                                               *)

Shown == {i \in Ids : table.rows[i] # Absent}

\* openDialog copies the row of the table, or the defaults of the session.
OpenDialog(who) ==
  /\ ~dialog.open /\ left["edit"] > 0
  /\ who \in Shown \cup {New}
  /\ LET given == IF who = New
                  THEN [permission |-> known.permission, quota |-> known.quota, disabled |-> FALSE]
                  ELSE table.rows[who]
     IN  dialog' = [for |-> who, open |-> TRUE, form |-> given, touched |-> {},
                    amount |-> SplitQuota(given.quota),
                    base |-> IF who = New THEN 0 ELSE table.versions[who]]
  /\ UNCHANGED <<rows, versions, settings, known, table, loads, edits, left, sound, dirty, drifted>>

\* The fields; the status is there for users that exist.
Type(permission, amount, disabled) ==
  /\ dialog.open /\ dialog.touched = {}
  /\ dialog.for = New => ~disabled
  /\ dialog' = [dialog EXCEPT
       !.form.permission = permission, !.form.disabled = disabled, !.amount = amount,
       !.touched = {field \in {"permission", "quota", "disabled"} :
                      CASE field = "permission" -> permission # dialog.form.permission
                        [] field = "quota"      -> amount # dialog.amount
                        [] field = "disabled"   -> disabled # dialog.form.disabled}]
  /\ UNCHANGED <<rows, versions, settings, known, table, loads, edits, left, sound, dirty, drifted>>

CloseDialog ==
  /\ dialog.open
  /\ dialog' = Shut
  /\ UNCHANGED <<rows, versions, settings, known, table, loads, edits, left, sound, dirty, drifted>>

Request(kind, who, body, base, touched) ==
  LET e == CHOOSE free \in Edits : edits[free] = NoEdit
  IN  /\ \E free \in Edits : edits[free] = NoEdit
      /\ Spend("edit")
      /\ edits' = [edits EXCEPT ![e] = [at |-> "sent", kind |-> kind, for |-> who, body |-> body,
                                        base |-> base, touched |-> touched]]
      /\ UNCHANGED <<rows, versions, settings, known, table, loads, dialog, sound, dirty, drifted>>

\* save sends all fields, touched or not.
Save ==
  LET quota == QuotaToBytes(dialog.amount)
  IN  /\ dialog.open /\ quota >= 0
      /\ Request("save", dialog.for, [dialog.form EXCEPT !.quota = quota],
                 dialog.base, dialog.touched)

\* A click in the table; the buttons are off for the last administrator it shows.
LastAdmin(i) ==
  i \in Admins /\ {j \in Admins \cap Shown : ~table.rows[j].disabled} = {i}

\* toggleUser sends the whole row the table shows.
Toggle(i) ==
  /\ ~dialog.open
  /\ i \in Shown /\ ~LastAdmin(i)
  /\ Request("toggle", i, [table.rows[i] EXCEPT !.disabled = ~@], table.versions[i], {"disabled"})

Remove(i) ==
  /\ ~dialog.open
  /\ i \in Shown /\ ~LastAdmin(i)
  /\ Request("remove", i, Absent, table.versions[i], {"permission", "quota", "disabled"})

-----------------------------------------------------------------------------
(* The server.                                                             *)

Wrote(i, row) ==
  /\ rows' = [rows EXCEPT ![i] = row]
  /\ versions' = [versions EXCEPT ![i] = @ + 1]

\* UserByPath refuses to disable or delete an administrator when one is enabled.
Accepts(i, row) ==
  /\ Exists(i)
  /\ i \in Admins /\ (row = Absent \/ row.disabled) => \E j, k \in Enabled : j # k

Unused == {i \in Ids \ Admins : versions[i] = 0}

Applied(edit) ==
  IF edit.for = New
  THEN \E i \in Unused : Wrote(i, edit.body)
  ELSE Accepts(edit.for, edit.body) /\ Wrote(edit.for, edit.body)

\* The answer arrives or is lost.
ServeEdit(e) ==
  /\ edits[e].at = "sent"
  /\ Applied(edits[e])
  /\ \/ edits' = [edits EXCEPT ![e].at = "done"] /\ UNCHANGED <<left, dirty>>
     \/ edits' = [edits EXCEPT ![e].at = "failed"] /\ Spend("fail") /\ dirty' = TRUE
  /\ UNCHANGED <<settings, known, table, loads, dialog, sound, drifted>>

\* The server refuses it, or it does not reach the server.
RefuseEdit(e) ==
  /\ edits[e].at = "sent"
  /\ \/ /\ IF edits[e].for = New THEN Unused = {} ELSE ~Accepts(edits[e].for, edits[e].body)
        /\ UNCHANGED left
     \/ Spend("fail")
  /\ edits' = [edits EXCEPT ![e].at = "failed"]
  /\ UNCHANGED <<rows, versions, settings, known, table, loads, dialog, sound, dirty, drifted>>

\* Seeded fault: the load does not follow a button of the table.
FaultyEditDone(e) ==
  /\ edits[e].at = "done"
  /\ IF edits[e].kind = "save"
     THEN /\ dialog' = Shut
          /\ Load(e)
          /\ edits' = [edits EXCEPT ![e].at = "loading"]
     ELSE /\ edits' = [edits EXCEPT ![e] = NoEdit]
          /\ UNCHANGED <<dialog, loads, dirty>>
  /\ UNCHANGED <<rows, versions, settings, known, table, left, sound, drifted>>

\* save closes the form that is open by now, and all load.
EditDone(e) ==
  /\ edits[e].at = "done"
  /\ dialog' = IF edits[e].kind = "save" THEN Shut ELSE dialog
  /\ Load(e)
  /\ edits' = [edits EXCEPT ![e].at = "loading"]
  /\ UNCHANGED <<rows, versions, settings, known, table, left, sound, drifted>>

\* The load is over, whether it failed or not.
EditOver(e, i) ==
  /\ loads[i].at = "over" /\ loads[i].for = e
  /\ loads' = Lists!RemoveAt(loads, i)
  /\ edits' = [edits EXCEPT ![e] = NoEdit]
  /\ UNCHANGED <<rows, versions, settings, known, table, dialog, left, sound, dirty, drifted>>

\* The error is shown, the form stays, the table is not loaded.
EditFailed(e) ==
  /\ edits[e].at = "failed"
  /\ edits' = [edits EXCEPT ![e] = NoEdit]
  /\ UNCHANGED <<rows, versions, settings, known, table, loads, dialog, left, sound, dirty, drifted>>

-----------------------------------------------------------------------------
(* The settings.                                                           *)

\* Seeded fault: what was saved is not applied to the session.
FaultyAccepted(values) ==
  /\ settings' = values
  /\ UNCHANGED known
  /\ drifted' = FALSE

\* applySettings; or the answer is lost.
Accepted(values) ==
  /\ settings' = values
  /\ \/ known' = values /\ drifted' = FALSE
     \/ known' = known /\ drifted' = TRUE

\* What save sends: all of the form, of which the permission or the amount was
\* changed.
Filled(form, permission, amount) ==
  {[form EXCEPT !.permission = permission, !.quota = QuotaToBytes(SplitQuota(@))],
   [form EXCEPT !.quota = QuotaToBytes(amount)]}

\* A visit to the settings, between two visits to the users, of which only one is
\* on the screen.  The form shows the settings, or if they fail to load what it
\* begins with.
VisitSettings(permission, amount) ==
  /\ Spend("settings")
  /\ loads = <<>> /\ \A e \in Edits : edits[e] = NoEdit
  /\ \E form \in {settings, Blank} : \E values \in Filled(form, permission, amount) :
       Accepted(values)
  /\ dialog' = Shut
  /\ table' = [rows |-> [i \in Ids |-> Absent], versions |-> [i \in Ids |-> 0]]
  /\ loads' = <<Sent(New)>>
  /\ dirty' = FALSE
  /\ UNCHANGED <<rows, versions, edits, sound>>

-----------------------------------------------------------------------------
\* Another administrator edits a user.
Foreign(i, row) ==
  /\ Spend("foreign")
  /\ Accepts(i, row) /\ Wrote(i, row)
  /\ dirty' = TRUE
  /\ UNCHANGED <<settings, known, table, loads, dialog, edits, sound, drifted>>

-----------------------------------------------------------------------------
Answered ==
  \/ \E i \in DOMAIN loads : \/ ServeLoad(i) \/ UseLoad(i) \/ LoadFails(i)
                             \/ \E e \in Edits : EditOver(e, i)
  \/ \E e \in Edits : ServeEdit(e) \/ RefuseEdit(e) \/ EditDone(e) \/ EditFailed(e)

Amounts == [tenths : Typed, unit : {Kilo, Mega}]

User ==
  \/ \E who \in Ids \cup {New} : OpenDialog(who)
  \/ \E permission \in Permissions, amount \in Amounts \cup {dialog.amount}, disabled \in BOOLEAN :
       Type(permission, amount, disabled)
  \/ CloseDialog \/ Save
  \/ \E i \in Ids : Toggle(i) \/ Remove(i)
  \/ \E permission \in Permissions, amount \in Amounts : VisitSettings(permission, amount)

Elsewhere ==
  \E i \in Ids, quota \in Quotas, disabled \in BOOLEAN :
    Foreign(i, [rows[i] EXCEPT !.quota = quota, !.disabled = disabled])

Next == Answered \/ User \/ Elsewhere

Spec == Init /\ [][Next]_vars

-----------------------------------------------------------------------------
(* Properties.                                                             *)

\* Rows, table, form and requests are well formed; no quota is below zero.
TypeOK ==
  /\ rows \in [Ids -> Rows] /\ table.rows \in [Ids -> Rows]
  /\ versions \in [Ids -> Nat]
  /\ {settings, known} \subseteq Setting
  /\ Len(loads) <= MaxLoads
  /\ \A i \in DOMAIN loads : loads[i].at \in {"sent", "served", "over"}
  /\ dialog.for \in Ids \cup {New}
  /\ \A e \in Edits : edits[e].body \in Rows /\ edits[e].for \in Ids \cup {New}
  /\ {sound, dirty, drifted} \subseteq BOOLEAN

AtRest == loads = <<>> /\ \A e \in Edits : edits[e] = NoEdit

\* At rest, the table shows the rows of the server, if the answers came in the
\* order of the requests and nobody else changed a row: every save and every
\* button is followed by a load, whatever overlaps with it or fails.
TableCurrent == AtRest /\ sound /\ ~dirty => table.rows = rows

\* A save or a button that was based on the row as the server has it changes the
\* fields the administrator touched and no other, although it sends them all; the
\* quota in particular survives its way through the units of the form, if those
\* can express it.
OnlyWhatWasTouched ==
  [][\A e \in Edits :
       LET edit == edits[e]
       IN  /\ edit.at = "sent" /\ edits'[e].at # "sent" /\ edit.for # New
           /\ edit.base = versions[edit.for] /\ Whole(rows[edit.for].quota)
           /\ rows' # rows
           => \A field \in {"permission", "quota", "disabled"} \ edit.touched :
                rows'[edit.for][field] = rows[edit.for][field]]_vars

\* A new user gets the defaults of the settings where the form was not touched, as
\* the session got to know them when it began or saved them.
DefaultsApply ==
  [][\A e \in Edits :
       LET edit == edits[e]
       IN  /\ edit.at = "sent" /\ edits'[e].at # "sent" /\ edit.for = New
           /\ ~drifted /\ Whole(settings.quota)
           => \A i \in Ids : rows'[i] # rows[i] =>
                \A field \in {"permission", "quota"} \ edit.touched :
                  rows'[i][field] = settings[field]]_vars

\* An edit never takes back what another one did to the same user.
NoLostUpdate ==
  [][\A e \in Edits :
       LET edit == edits[e]
       IN  /\ edit.at = "sent" /\ edits'[e].at # "sent" /\ edit.for # New
           /\ rows' # rows
           => \A field \in {"permission", "quota", "disabled"} \ edit.touched :
                rows'[edit.for][field] = rows[edit.for][field]]_vars
=============================================================================
