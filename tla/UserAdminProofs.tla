-------------------------- MODULE UserAdminProofs --------------------------
(***************************************************************************)
(* What the quota goes through in a form, for every quota and whatever the *)
(* units are powers of; and what a save changes, for any number of users,  *)
(* administrators, requests and loads under way.                           *)
(***************************************************************************)
EXTENDS UserAdmin, SequenceTheorems, TLAPS

\* Math.round leaves a whole number alone.
LEMMA RoundExact ==
  ASSUME NEW n \in Int
  PROVE  Round(10 * n, 10) = n
BY DEF Round

\* A unit that divides a quota goes into it a whole number of times.
LEMMA Exact ==
  ASSUME NEW bytes \in Nat \ {0}, NEW unit \in Nat \ {0}, bytes % unit = 0
  PROVE  /\ bytes \div unit \in Nat \ {0}
         /\ (bytes \div unit) * unit = bytes
<1> DEFINE q == bytes \div unit
<1>1. q \in Int /\ bytes = (unit * q) + (bytes % unit)
  OBVIOUS
<1>2. bytes = unit * q
  BY <1>1
<1>3. q > 0
  BY <1>1, <1>2
<1> QED BY <1>1, <1>2, <1>3

\* An amount that is the exact number of units is converted back.
LEMMA UnitExact ==
  ASSUME NEW bytes \in Nat \ {0}, NEW unit \in Nat \ {0}, bytes % unit = 0
  PROVE  QuotaToBytes([tenths |-> 10 * (bytes \div unit), unit |-> unit]) = bytes
<1> DEFINE q == bytes \div unit
<1>1. q \in Nat \ {0} /\ q * unit = bytes
  BY Exact
<1>2. (10 * q) * unit = 10 * bytes
  BY <1>1
<1>3. ~(10 * q <= 0)
  BY <1>1
<1> HIDE DEF q
<1>4. QuotaToBytes([tenths |-> 10 * q, unit |-> unit]) = Round((10 * q) * unit, 10)
  BY <1>3 DEF QuotaToBytes
<1> QED BY <1>2, <1>4, RoundExact DEF q

\* The units are units.
LEMMA UnitsPositive == Mega \in Nat \ {0} /\ Giga \in Nat \ {0} /\ Kilo \in Nat \ {0}
<1> DEFINE k2 == Kilo * Kilo
<1>1. Kilo \in Nat \ {0}
  BY AdminAssumption
<1>2. k2 \in Nat \ {0}
  BY <1>1
<1>3. k2 * Kilo \in Nat \ {0}
  <2> HIDE DEF k2
  <2> QED BY <1>1, <1>2
<1> QED BY <1>1, <1>2, <1>3 DEF Mega, Giga

\* A quota that is a whole number of kilobytes goes through the form of an
\* administrator and comes back to the server as it was, whichever of the units the
\* form shows it in: a save that was about something else leaves it alone.
THEOREM WholeQuotaKept ==
  ASSUME NEW bytes \in Nat, Whole(bytes)
  PROVE  QuotaToBytes(SplitQuota(bytes)) = bytes
<1>1. CASE bytes = 0
  <2>1. SplitQuota(bytes).tenths = 0
    BY <1>1 DEF SplitQuota
  <2> QED BY <1>1, <2>1 DEF QuotaToBytes
<1>2. CASE bytes # 0
  <2>1. bytes \in Nat \ {0} /\ bytes % Kilo = 0
    BY <1>2 DEF Whole
  <2>2. \E unit \in {Giga, Mega, Kilo} :
          /\ bytes % unit = 0
          /\ SplitQuota(bytes) = [tenths |-> 10 * (bytes \div unit), unit |-> unit]
    <3>1. CASE bytes % Giga = 0
      BY <1>2, <3>1 DEF SplitQuota
    <3>2. CASE bytes % Giga # 0 /\ bytes % Mega = 0
      BY <1>2, <3>2 DEF SplitQuota
    <3>3. CASE bytes % Giga # 0 /\ bytes % Mega # 0
      BY <1>2, <2>1, <3>3 DEF SplitQuota
    <3> QED BY <3>1, <3>2, <3>3
  <2> QED BY <2>1, <2>2, UnitExact, UnitsPositive
<1> QED BY <1>1, <1>2

-----------------------------------------------------------------------------
(* The invariant: what the page keeps of a row is that row, as long as its *)
(* version is the one the page has.                                        *)

Amount == [tenths : Int, unit : Nat \ {0}]

Fields == {"permission", "quota", "disabled"}

\* Rows and the versions they are of.
Snap(r, v) ==
  /\ r \in [Ids -> Rows] /\ v \in [Ids -> Nat]
  /\ \A i \in Ids : v[i] <= versions[i] /\ (v[i] = versions[i] => r[i] = rows[i])

LoadSet ==
  {l \in [at : {"sent", "served", "over"}, rows : [Ids -> Rows], versions : [Ids -> Nat],
          late : BOOLEAN, for : Edits \cup {New}] : Snap(l.rows, l.versions)}

\* What is sent for a user has the fields of the row that were not touched, unless the
\* row has changed since; what is sent for a new one has those of the settings.
Faithful(who, base, touched, body) ==
  /\ who # New =>
       /\ base <= versions[who]
       /\ base = versions[who] /\ Whole(rows[who].quota)
            => \A field \in Fields \ touched : body[field] = rows[who][field]
  /\ who = New /\ Whole(known.quota)
       => \A field \in {"permission", "quota"} \ touched : body[field] = known[field]

DialogSet ==
  [for : Ids \cup {New}, open : BOOLEAN, form : Rows, amount : Amount, base : Nat,
   touched : SUBSET Fields]

EditSet ==
  [at : {"off", "sent", "done", "failed", "loading"}, kind : {"save", "toggle", "remove"},
   for : Ids \cup {New}, body : Rows, base : Nat, touched : SUBSET Fields]

\* What a save would send.
Body == [dialog.form EXCEPT !.quota = QuotaToBytes(dialog.amount)]

ServerInv ==
  /\ rows \in [Ids -> Rows] /\ versions \in [Ids -> Nat]
  /\ \A i \in Ids : versions[i] = 0 => rows[i] = Absent
  /\ settings \in Setting /\ known \in Setting
  /\ sound \in BOOLEAN /\ dirty \in BOOLEAN /\ drifted \in BOOLEAN
  /\ ~drifted => known = settings

TableInv ==
  /\ Snap(table.rows, table.versions)
  /\ loads \in Seq(LoadSet) /\ Len(loads) <= MaxLoads

DialogInv ==
  /\ dialog \in DialogSet
  /\ dialog.open => /\ dialog.form \in Row
                    /\ Faithful(dialog.for, dialog.base, dialog.touched, Body)

EditsInv ==
  /\ edits \in [Edits -> EditSet]
  /\ \A e \in Edits : edits[e].at = "sent" =>
       Faithful(edits[e].for, edits[e].base, edits[e].touched, edits[e].body)

Inv == ServerInv /\ TableInv /\ DialogInv /\ EditsInv

-----------------------------------------------------------------------------
(* Lemmas.                                                                 *)

\* Rounding gives no number below zero.
LEMMA RoundNat ==
  ASSUME NEW n \in Nat, NEW d \in Nat \ {0}
  PROVE  Round(n, d) \in Nat
BY DEF Round

\* What a form shows of a quota is an amount, and what it makes of any amount is a
\* quota.
LEMMA QuotaTypes ==
  /\ \A bytes \in Nat : SplitQuota(bytes) \in Amount
  /\ \A amount \in Amount : QuotaToBytes(amount) \in Nat
<1>1. ASSUME NEW bytes \in Nat PROVE SplitQuota(bytes) \in Amount
  <2>1. \A unit \in {Giga, Mega, Kilo} : 10 * (bytes \div unit) \in Int
    BY UnitsPositive
  <2>2. Round(10 * bytes, Mega) \in Int
    BY RoundNat, UnitsPositive
  <2> QED BY <2>1, <2>2, UnitsPositive DEF SplitQuota, Amount
<1>2. ASSUME NEW amount \in Amount PROVE QuotaToBytes(amount) \in Nat
  <2>1. CASE amount.tenths <= 0
    BY <2>1 DEF QuotaToBytes
  <2>2. CASE ~(amount.tenths <= 0)
    <3> DEFINE t == amount.tenths  u == amount.unit
    <3>1. t \in Nat /\ u \in Nat
      BY <2>2 DEF Amount
    <3>2. t * u \in Nat
      <4> HIDE DEF t, u
      <4> QED BY <3>1
    <3>3. Round(t * u, 10) \in Nat
      BY <3>2, RoundNat
    <3> QED BY <2>2, <3>3 DEF QuotaToBytes
  <2> QED BY <2>1, <2>2
<1> QED BY <1>1, <1>2

\* A sequence without one of its elements: those before it, and those after it one
\* place earlier.
LEMMA RemoveAtElements ==
  ASSUME NEW S, NEW s \in Seq(S), NEW i \in 1 .. Len(s)
  PROVE  LET t == Lists!RemoveAt(s, i)
         IN  /\ t \in Seq(S) /\ Len(t) = Len(s) - 1
             /\ \A j \in 1 .. Len(t) : t[j] = IF j < i THEN s[j] ELSE s[j + 1]
<1> DEFINE a == SubSeq(s, 1, i - 1)  b == SubSeq(s, i + 1, Len(s))
<1>1. Len(s) \in Nat /\ i \in Int /\ 1 <= i /\ i <= Len(s) /\ \A j \in 1 .. Len(s) : s[j] \in S
  OBVIOUS
<1>2. /\ a \in Seq(S) /\ Len(a) = i - 1
      /\ \A j \in 1 .. i - 1 : a[j] = s[j]
  <2>1. \A j \in 1 .. i - 1 : s[j] \in S
    BY <1>1
  <2>2. 1 \in Int /\ i - 1 \in Int
    BY <1>1
  <2>3. a \in Seq(S)
    BY <2>1, <2>2, SubSeqProperties, Zenon
  <2>4. Len(a) = i - 1
    BY <1>1
  <2>5. \A j \in 1 .. i - 1 : a[j] = s[j]
    BY <1>1
  <2> QED BY <2>3, <2>4, <2>5
<1>3. /\ b \in Seq(S) /\ Len(b) = Len(s) - i
      /\ \A j \in 1 .. Len(s) - i : b[j] = s[i + j]
  <2>1. \A j \in i + 1 .. Len(s) : s[j] \in S
    BY <1>1
  <2>2. i + 1 \in Int /\ Len(s) \in Int
    BY <1>1
  <2>3. b \in Seq(S)
    BY <2>1, <2>2, SubSeqProperties, Zenon
  <2>4. Len(b) = Len(s) - i
    BY <1>1
  <2>5. \A j \in 1 .. Len(s) - i : b[j] = s[i + j]
    BY <1>1
  <2> QED BY <2>3, <2>4, <2>5
<1> HIDE DEF a, b
<1>4. /\ a \o b \in Seq(S) /\ Len(a \o b) = Len(a) + Len(b)
      /\ \A j \in 1 .. Len(a) + Len(b) :
           (a \o b)[j] = IF j <= Len(a) THEN a[j] ELSE b[j - Len(a)]
  BY <1>2, <1>3, ConcatProperties, Zenon
<1>5. Len(a \o b) = Len(s) - 1
  BY <1>1, <1>2, <1>3, <1>4
<1>6. ASSUME NEW j \in 1 .. Len(a \o b)
      PROVE  (a \o b)[j] = IF j < i THEN s[j] ELSE s[j + 1]
  <2>1. (a \o b)[j] = IF j <= i - 1 THEN a[j] ELSE b[j - (i - 1)]
    BY <1>2, <1>4
  <2>2. j \in 1 .. Len(s) - 1
    BY <1>5
  <2>3. CASE j < i
    <3>1. j \in 1 .. i - 1 /\ j <= i - 1
      BY <1>1, <2>2, <2>3
    <3> QED BY <1>2, <2>1, <2>3, <3>1
  <2>4. CASE ~(j < i)
    <3>1. /\ j - (i - 1) \in 1 .. Len(s) - i /\ ~(j <= i - 1)
          /\ i + (j - (i - 1)) = j + 1
      BY <1>1, <2>2, <2>4
    <3>2. b[j - (i - 1)] = s[i + (j - (i - 1))]
      BY <1>3, <3>1
    <3> QED BY <2>1, <2>4, <3>1, <3>2
  <2> QED BY <2>3, <2>4
<1> QED BY <1>4, <1>5, <1>6 DEF Lists!RemoveAt, a, b

\* A load that is used or has failed leaves loads of the same rows.
LEMMA UsedTyped ==
  ASSUME Inv, NEW i \in DOMAIN loads
  PROVE  Used(i) \in Seq(LoadSet) /\ Len(Used(i)) <= Len(loads)
<1> DEFINE marked == [j \in DOMAIN loads |-> [loads[j] EXCEPT !.late = @ \/ j < i]]
<1>1. loads \in Seq(LoadSet) /\ Len(loads) \in Nat /\ DOMAIN loads = 1 .. Len(loads)
  BY DEF Inv, TableInv
<1>2. ASSUME NEW l \in LoadSet, NEW late \in BOOLEAN
      PROVE  [l EXCEPT !.late = late] \in LoadSet /\ [l EXCEPT !.at = "over"] \in LoadSet
  BY DEF LoadSet, Snap
<1>3. \A j \in 1 .. Len(loads) : marked[j] \in LoadSet
  <2> TAKE j \in 1 .. Len(loads)
  <2>1. loads[j] \in LoadSet /\ j \in Int /\ i \in Int
    BY <1>1
  <2>2. (loads[j].late \/ j < i) \in BOOLEAN
    BY <2>1 DEF LoadSet
  <2>3. [loads[j] EXCEPT !.late = loads[j].late \/ j < i] \in LoadSet
    BY <1>2, <2>1, <2>2
  <2> QED BY <1>1, <2>3
<1>4. marked \in Seq(LoadSet) /\ Len(marked) = Len(loads) /\ i \in 1 .. Len(marked)
  <2>1. marked \in [1 .. Len(loads) -> LoadSet]
    BY <1>1, <1>3
  <2> QED BY <1>1, <2>1, IsASeq
<1> HIDE DEF marked
<1>5. CASE loads[i].for = New
  <2>1. Used(i) = Lists!RemoveAt(marked, i)
    BY <1>5 DEF Used, marked
  <2> QED BY <1>1, <1>4, <2>1, RemoveAtElements
<1>6. CASE loads[i].for # New
  <2>1. Used(i) = [marked EXCEPT ![i] = [marked[i] EXCEPT !.at = "over"]]
    BY <1>1, <1>4, <1>6 DEF Used, marked
  <2> DEFINE l == [marked[i] EXCEPT !.at = "over"]
  <2>2. l \in LoadSet
    BY <1>1, <1>2, <1>3
  <2> HIDE DEF l
  <2>3. [marked EXCEPT ![i] = l] \in Seq(LoadSet) /\ Len([marked EXCEPT ![i] = l]) = Len(marked)
    BY <1>4, <2>2, ExceptSeq
  <2> QED BY <1>1, <1>4, <2>1, <2>3 DEF l
<1> QED BY <1>5, <1>6

\* The rows stay, or one is written.
RowsStep == UNCHANGED <<rows, versions>> \/ \E i \in Ids, row \in Rows : Wrote(i, row)

\* A row that is written gets a new version, so what was true of the rows that the page
\* keeps is still true.
LEMMA SnapKept ==
  ASSUME ServerInv, RowsStep, NEW r, NEW v, Snap(r, v)
  PROVE  Snap(r, v)'
<1>1. CASE UNCHANGED <<rows, versions>>
  BY <1>1 DEF Snap
<1>2. ASSUME NEW i \in Ids, NEW row \in Rows, Wrote(i, row) PROVE Snap(r, v)'
  <2>1. rows' = [rows EXCEPT ![i] = row] /\ versions' = [versions EXCEPT ![i] = versions[i] + 1]
    BY <1>2 DEF Wrote
  <2> QED BY <2>1 DEF Snap, ServerInv
<1> QED BY <1>1, <1>2 DEF RowsStep

\* A load outlives the writes of the server: a row that is written gets a new version.
LEMMA LoadsKept ==
  ASSUME ServerInv, RowsStep
  PROVE  LoadSet \subseteq LoadSet' /\ Seq(LoadSet) \subseteq Seq(LoadSet')
<1>1. LoadSet \subseteq LoadSet'
  BY SnapKept DEF LoadSet
<1> QED BY <1>1

\* What a form or a request was made from outlives them too.
LEMMA FaithKept ==
  ASSUME ServerInv, RowsStep, known' = known, NEW who \in Ids \cup {New}, NEW base \in Nat,
         NEW touched, NEW body, Faithful(who, base, touched, body)
  PROVE  Faithful(who, base, touched, body)'
<1>1. CASE UNCHANGED <<rows, versions>>
  BY <1>1 DEF Faithful
<1>2. ASSUME NEW i \in Ids, NEW row \in Rows, Wrote(i, row)
      PROVE  Faithful(who, base, touched, body)'
  <2>1. rows' = [rows EXCEPT ![i] = row] /\ versions' = [versions EXCEPT ![i] = versions[i] + 1]
    BY <1>2 DEF Wrote
  <2>2. CASE who = New
    BY <2>2 DEF Faithful
  <2>3. CASE who # New
    <3>1. who \in Ids /\ base <= versions[who] /\ versions[who] \in Nat /\ versions[i] \in Nat
      BY <2>3 DEF Faithful, ServerInv
    <3>2. base <= versions'[who] /\ (base = versions'[who] => who # i /\ versions'[who] = versions[who])
      BY <2>1, <3>1 DEF ServerInv
    <3>3. who # i => rows'[who] = rows[who]
      BY <2>1, <3>1 DEF ServerInv
    <3> QED BY <2>3, <3>2, <3>3 DEF Faithful
  <2> QED BY <2>2, <2>3
<1> QED BY <1>1, <1>2 DEF RowsStep

\* The rows of the server keep their types, and a row nobody ever wrote stays absent.
LEMMA RowsKept ==
  ASSUME ServerInv, RowsStep
  PROVE  /\ rows' \in [Ids -> Rows] /\ versions' \in [Ids -> Nat]
         /\ \A i \in Ids : versions'[i] = 0 => rows'[i] = Absent
<1>1. CASE UNCHANGED <<rows, versions>>
  BY <1>1 DEF ServerInv
<1>2. ASSUME NEW i \in Ids, NEW row \in Rows, Wrote(i, row)
      PROVE  /\ rows' \in [Ids -> Rows] /\ versions' \in [Ids -> Nat]
             /\ \A j \in Ids : versions'[j] = 0 => rows'[j] = Absent
  <2>1. rows' = [rows EXCEPT ![i] = row] /\ versions' = [versions EXCEPT ![i] = versions[i] + 1]
    BY <1>2 DEF Wrote
  <2> QED BY <2>1 DEF ServerInv
<1> QED BY <1>1, <1>2 DEF RowsStep

\* Each part of the invariant outlives a step that leaves its variables alone, whatever
\* happens to the rows.
LEMMA TableKept ==
  ASSUME ServerInv, TableInv, RowsStep, UNCHANGED table
  PROVE  Snap(table.rows, table.versions)'
<1>1. PICK r, v : r = table.rows /\ v = table.versions
  OBVIOUS
<1>2. Snap(r, v)
  BY <1>1 DEF TableInv
<1>3. Snap(r, v)'
  BY <1>2, SnapKept
<1> QED BY <1>1, <1>3 DEF Snap

\* The form stays faithful to its row whatever the server writes.
LEMMA DialogKept ==
  ASSUME ServerInv, DialogInv, RowsStep, UNCHANGED <<dialog, known>>
  PROVE  DialogInv'
<1>1. Body' = Body
  BY DEF Body
<1>2. dialog.for \in Ids \cup {New} /\ dialog.base \in Nat
  BY DEF DialogInv, DialogSet
<1>3. dialog.open => Faithful(dialog.for, dialog.base, dialog.touched, Body)'
  <2> SUFFICES ASSUME dialog.open PROVE Faithful(dialog.for, dialog.base, dialog.touched, Body)'
    OBVIOUS
  <2>1. PICK who, base, touched, body :
          /\ who \in Ids \cup {New} /\ base \in Nat
          /\ who = dialog.for /\ base = dialog.base /\ touched = dialog.touched /\ body = Body
    BY <1>2
  <2>2. Faithful(who, base, touched, body)
    BY <2>1 DEF DialogInv
  <2>3. Faithful(who, base, touched, body)'
    BY <2>1, <2>2, FaithKept
  <2>4. who = dialog'.for /\ base = dialog'.base /\ touched = dialog'.touched /\ body = Body'
    BY <1>1, <2>1
  <2> QED BY <2>3, <2>4 DEF Faithful
<1> QED BY <1>1, <1>3 DEF DialogInv, DialogSet

\* The requests that are not answered by the step are those that were sent before.
LEMMA EditsKept ==
  ASSUME ServerInv, EditsInv, RowsStep, UNCHANGED known, edits' \in [Edits -> EditSet],
         \A e \in Edits : edits'[e].at = "sent" =>
           edits'[e] = edits[e] \/ Faithful(edits'[e].for, edits'[e].base, edits'[e].touched,
                                            edits'[e].body)
  PROVE  EditsInv'
<1> SUFFICES ASSUME NEW e \in Edits, edits'[e].at = "sent"
             PROVE  Faithful(edits[e].for, edits[e].base, edits[e].touched, edits[e].body)'
  BY DEF EditsInv, EditSet
<1> DEFINE next == edits'[e]
<1>1. next \in EditSet
  OBVIOUS
<1>2. Faithful(next.for, next.base, next.touched, next.body)
  BY DEF EditsInv
<1> QED BY <1>1, <1>2, FaithKept DEF EditSet, Faithful

\* A step that touches neither table nor loads keeps what is said of them.
LEMMA TableSame ==
  ASSUME ServerInv, TableInv, RowsStep, UNCHANGED <<table, loads>>
  PROVE  TableInv'
BY TableKept, LoadsKept DEF TableInv

\* A request that is answered, refused or forgotten.
LEMMA EditMoved ==
  ASSUME ServerInv, EditsInv, RowsStep, UNCHANGED known, NEW e \in Edits, NEW x \in EditSet,
         x.at # "sent", edits' = [edits EXCEPT ![e] = x]
  PROVE  EditsInv'
<1>1. edits' \in [Edits -> EditSet]
  BY DEF EditsInv
<1>2. \A f \in Edits : edits'[f].at = "sent" => edits'[f] = edits[f]
  BY DEF EditsInv
<1> QED BY <1>1, <1>2, EditsKept

\* A step that touches no request keeps what is said of those under way.
LEMMA EditsSame ==
  ASSUME ServerInv, EditsInv, RowsStep, UNCHANGED <<known, edits>>
  PROVE  EditsInv'
BY EditsKept DEF EditsInv

\* A new load carries the rows of the server.
LEMMA LoadAdds ==
  ASSUME ServerInv, TableInv, NEW caller \in Edits \cup {New}, Load(caller),
         UNCHANGED <<rows, versions, table>>
  PROVE  TableInv'
<1>1. RowsStep
  BY DEF RowsStep
<1>2. Sent(caller) \in LoadSet
  BY DEF Sent, LoadSet, Snap, ServerInv
<1>3. Append(loads, Sent(caller)) \in Seq(LoadSet) /\ Len(Append(loads, Sent(caller))) = Len(loads) + 1
  BY <1>2 DEF TableInv
<1>4. loads' \in Seq(LoadSet')
  BY <1>1, <1>3, LoadsKept DEF Load
<1>5. Len(loads') <= MaxLoads
  BY <1>3, AdminAssumption DEF Load, TableInv
<1> QED BY <1>1, <1>4, <1>5, TableKept DEF TableInv

\* A request that is sent is faithful to what it was based on.
LEMMA RequestKept ==
  ASSUME Inv, NEW kind \in {"save", "toggle", "remove"}, NEW who \in Ids \cup {New},
         NEW body \in Rows, NEW base \in Nat, NEW touched \in SUBSET Fields,
         Faithful(who, base, touched, body), Request(kind, who, body, base, touched)
  PROVE  Inv'
<1> USE DEF Inv
<1> DEFINE x == [at |-> "sent", kind |-> kind, for |-> who, body |-> body, base |-> base,
                 touched |-> touched]
<1>1. PICK e \in Edits : edits' = [edits EXCEPT ![e] = x]
  <2> DEFINE e == CHOOSE free \in Edits : edits[free] = NoEdit
  <2>1. e \in Edits
    BY DEF Request
  <2> QED BY <2>1 DEF Request
<1>2. UNCHANGED <<rows, versions, settings, known, table, loads, dialog, sound, dirty, drifted>>
  BY DEF Request
<1>3. RowsStep
  BY <1>2 DEF RowsStep
<1>4. ServerInv'
  BY <1>2 DEF ServerInv
<1>5. TableInv'
  BY <1>2, <1>3, TableSame
<1>6. DialogInv'
  BY <1>2, <1>3, DialogKept
<1>7. EditsInv'
  <2>1. x \in EditSet
    BY DEF EditSet
  <2>2. edits' \in [Edits -> EditSet]
    BY <1>1, <2>1 DEF EditsInv
  <2>3. \A f \in Edits : edits'[f] = edits[f] \/ edits'[f] = x
    BY <1>1 DEF EditsInv
  <2> QED BY <1>2, <1>3, <2>2, <2>3, EditsKept
<1> QED BY <1>4, <1>5, <1>6, <1>7

\* What the page begins with has its types.
LEMMA Constants ==
  /\ Absent \in Rows /\ Shut \in DialogSet /\ ~Shut.open
  /\ NoEdit \in EditSet /\ NoEdit.at = "off"
  /\ Blank \in Setting
  /\ Absent \notin Row /\ New \notin Ids /\ Admins \subseteq Ids
<1>1. SplitQuota(0) \in Amount
  BY QuotaTypes
<1> QED BY <1>1, AdminAssumption
        DEF Absent, Rows, Row, Shut, DialogSet, NoEdit, EditSet, Blank, Setting, Permissions

\* The invariant holds at the start.
LEMMA InitInv == Init => Inv
<1> SUFFICES ASSUME Init PROVE Inv
  OBVIOUS
<1>1. rows \in [Ids -> Rows] /\ settings \in Setting
  BY FirstAssumption DEF Init
<1>2. ServerInv
  <2>1. versions \in [Ids -> Nat] /\ \A i \in Ids : versions[i] = 0 => rows[i] = Absent
    BY DEF Init, Exists
  <2>2. known \in Setting /\ drifted \in BOOLEAN /\ (~drifted => known = settings)
    <3>1. CASE known = settings /\ drifted = FALSE
      BY <1>1, <3>1
    <3>2. CASE known = Blank /\ drifted = TRUE
      BY <3>2, Constants
    <3> QED BY <3>1, <3>2 DEF Init
  <2>3. sound \in BOOLEAN /\ dirty \in BOOLEAN
    BY DEF Init
  <2> QED BY <1>1, <2>1, <2>2, <2>3 DEF ServerInv
<1>3. TableInv
  <2>1. Snap(table.rows, table.versions)
    BY <1>2, Constants DEF Init, Snap, ServerInv
  <2>2. Sent(New) \in LoadSet
    BY <1>2 DEF Sent, LoadSet, Snap, ServerInv
  <2>3. loads \in Seq(LoadSet) /\ Len(loads) = 1
    BY <2>2 DEF Init
  <2> QED BY <2>1, <2>3, AdminAssumption DEF TableInv
<1>4. DialogInv
  BY Constants DEF Init, DialogInv
<1>5. EditsInv
  BY Constants DEF Init, EditsInv
<1> QED BY <1>2, <1>3, <1>4, <1>5 DEF Inv

\* Steps of the loads.
LEMMA LoadSteps ==
  ASSUME Inv, NEW i \in DOMAIN loads, ServeLoad(i) \/ UseLoad(i) \/ LoadFails(i)
  PROVE  Inv'
<1> USE DEF Inv
<1>1. UNCHANGED <<rows, versions, settings, known, dialog, edits>> /\ RowsStep
  BY DEF ServeLoad, UseLoad, LoadFails, RowsStep
<1>2. UNCHANGED <<dirty, drifted>> /\ sound' \in BOOLEAN
  BY DEF ServeLoad, UseLoad, LoadFails, ServerInv
<1>3. ServerInv'
  BY <1>1, <1>2 DEF ServerInv
<1>4. DialogInv' /\ EditsInv'
  BY <1>1, DialogKept, EditsSame
<1>5. loads \in Seq(LoadSet) /\ i \in 1 .. Len(loads) /\ loads[i] \in LoadSet
  BY DEF TableInv
<1>6. Snap(table.rows, table.versions)'
  <2>1. CASE UNCHANGED table
    BY <1>1, <2>1, TableKept
  <2>2. CASE UseLoad(i)
    <3>1. PICK r, v : r = loads[i].rows /\ v = loads[i].versions
      OBVIOUS
    <3>2. Snap(r, v)'
      <4>1. Snap(r, v)
        BY <1>5, <3>1 DEF LoadSet
      <4> QED BY <1>1, <4>1, SnapKept
    <3>3. table'.rows = r /\ table'.versions = v
      BY <2>2, <3>1 DEF UseLoad
    <3> QED BY <3>2, <3>3 DEF Snap
  <2> QED BY <2>1, <2>2 DEF ServeLoad, LoadFails
<1>7. loads' \in Seq(LoadSet) /\ Len(loads') <= MaxLoads
  <2>1. CASE ServeLoad(i)
    <3> DEFINE l == [loads[i] EXCEPT !.at = "served", !.rows = rows, !.versions = versions]
    <3>1. l \in LoadSet
      <4>1. Snap(rows, versions)
        BY DEF Snap, ServerInv
      <4>2. rows \in [Ids -> Rows] /\ versions \in [Ids -> Nat]
        BY DEF ServerInv
      <4> QED BY <1>5, <4>1, <4>2 DEF LoadSet
    <3>2. loads' = [loads EXCEPT ![i] = l]
      BY <2>1 DEF ServeLoad
    <3> HIDE DEF l
    <3>3. [loads EXCEPT ![i] = l] \in Seq(LoadSet) /\ Len([loads EXCEPT ![i] = l]) = Len(loads)
      BY <1>5, <3>1, ExceptSeq
    <3> QED BY <3>2, <3>3 DEF TableInv
  <2>2. CASE loads' = Used(i)
    <3>1. Len(Used(i)) \in Nat /\ Len(loads) \in Nat
      BY <1>5, UsedTyped
    <3> QED BY <2>2, <3>1, UsedTyped, AdminAssumption DEF TableInv
  <2> QED BY <2>1, <2>2 DEF UseLoad, LoadFails
<1>8. TableInv'
  BY <1>1, <1>6, <1>7, LoadsKept DEF TableInv
<1> QED BY <1>3, <1>4, <1>8

\* Steps of the requests.
LEMMA EditSteps ==
  ASSUME Inv, NEW e \in Edits,
         \/ RefuseEdit(e) \/ EditDone(e) \/ EditFailed(e)
         \/ \E i \in DOMAIN loads : EditOver(e, i)
  PROVE  Inv'
<1> USE DEF Inv
<1>1. UNCHANGED <<rows, versions, settings, known, table, sound, drifted>> /\ RowsStep
  BY DEF RefuseEdit, EditDone, EditFailed, EditOver, RowsStep
<1>2. dirty' \in BOOLEAN
  BY DEF RefuseEdit, EditDone, EditFailed, EditOver, Load, ServerInv
<1>3. ServerInv'
  BY <1>1, <1>2 DEF ServerInv
<1>4. TableInv'
  <2>1. CASE UNCHANGED loads
    BY <1>1, <2>1, TableSame
  <2>2. CASE EditDone(e)
    BY <1>1, <2>2, LoadAdds DEF EditDone
  <2>3. ASSUME NEW i \in DOMAIN loads, EditOver(e, i) PROVE TableInv'
    <3>1. loads \in Seq(LoadSet) /\ i \in 1 .. Len(loads)
      BY DEF TableInv
    <3>2. loads' \in Seq(LoadSet) /\ Len(loads') = Len(loads) - 1
      BY <2>3, <3>1, RemoveAtElements DEF EditOver
    <3>3. Len(loads') \in Nat /\ Len(loads) \in Nat /\ Len(loads') <= Len(loads)
      BY <3>1, <3>2
    <3> QED BY <1>1, <3>2, <3>3, TableKept, LoadsKept, AdminAssumption DEF TableInv
  <2> QED BY <2>1, <2>2, <2>3 DEF RefuseEdit, EditFailed
<1>5. DialogInv'
  <2>1. CASE UNCHANGED dialog
    BY <1>1, <2>1, DialogKept
  <2>2. CASE dialog' = Shut
    BY <2>2, Constants DEF DialogInv
  <2> QED BY <2>1, <2>2 DEF RefuseEdit, EditDone, EditFailed, EditOver
<1>6. EditsInv'
  <2>1. PICK x \in EditSet : x.at # "sent" /\ edits' = [edits EXCEPT ![e] = x]
    <3>1. edits[e] \in EditSet
      BY DEF EditsInv
    <3>2. \A at \in {"done", "failed", "loading"} : [edits[e] EXCEPT !.at = at] \in EditSet
      BY <3>1 DEF EditSet
    <3>3. CASE RefuseEdit(e)
      BY <3>1, <3>2, <3>3 DEF RefuseEdit, EditSet
    <3>4. CASE EditDone(e)
      BY <3>1, <3>2, <3>4 DEF EditDone, EditSet
    <3>5. CASE edits' = [edits EXCEPT ![e] = NoEdit]
      BY <3>5, Constants
    <3> QED BY <3>3, <3>4, <3>5 DEF EditFailed, EditOver
  <2> QED BY <1>1, <2>1, EditMoved
<1> QED BY <1>3, <1>4, <1>5, <1>6

\* An edit that is applied writes its body as the row of one user.
LEMMA AppliedWrites ==
  ASSUME Inv, NEW e \in Edits, Applied(edits[e])
  PROVE  \E i \in Ids : /\ Wrote(i, edits[e].body) /\ edits[e].body \in Rows
                        /\ edits[e].for # New => i = edits[e].for
<1>1. edits[e].body \in Rows /\ edits[e].for \in Ids \cup {New}
  BY DEF Inv, EditsInv, EditSet
<1>2. CASE edits[e].for = New
  BY <1>1, <1>2 DEF Applied, Unused
<1>3. CASE edits[e].for # New
  BY <1>1, <1>3 DEF Applied
<1> QED BY <1>2, <1>3

\* The server serves an edit, of this page or of another one.
LEMMA ServerSteps ==
  ASSUME Inv,
         \/ \E e \in Edits : ServeEdit(e)
         \/ \E i \in Ids, quota \in Quotas, disabled \in BOOLEAN :
              Foreign(i, [rows[i] EXCEPT !.quota = quota, !.disabled = disabled])
  PROVE  Inv'
<1> USE DEF Inv
<1>1. UNCHANGED <<settings, known, table, loads, dialog, sound, drifted>>
  BY DEF ServeEdit, Foreign
<1>2. RowsStep
  <2>1. ASSUME NEW e \in Edits, ServeEdit(e) PROVE RowsStep
    BY <2>1, AppliedWrites DEF ServeEdit, RowsStep
  <2>2. ASSUME NEW i \in Ids, NEW quota \in Quotas, NEW disabled \in BOOLEAN,
               Foreign(i, [rows[i] EXCEPT !.quota = quota, !.disabled = disabled])
        PROVE  RowsStep
    <3> DEFINE row == [rows[i] EXCEPT !.quota = quota, !.disabled = disabled]
    <3>1. rows[i] \in Row
      BY <2>2 DEF Foreign, Accepts, Exists, Rows, ServerInv
    <3>2. row \in Rows
      BY <3>1, AdminAssumption DEF Row, Rows
    <3>3. Wrote(i, row)
      BY <2>2 DEF Foreign
    <3> HIDE DEF row
    <3> QED BY <3>2, <3>3 DEF RowsStep
  <2> QED BY <2>1, <2>2
<1>3. ServerInv'
  <2>1. dirty' \in BOOLEAN
    BY DEF ServeEdit, Foreign, ServerInv
  <2> QED BY <1>1, <1>2, <2>1, RowsKept DEF ServerInv
<1>4. TableInv' /\ DialogInv'
  BY <1>1, <1>2, TableSame, DialogKept
<1>5. EditsInv'
  <2>1. ASSUME NEW e \in Edits, ServeEdit(e) PROVE EditsInv'
    <3>1. edits[e] \in EditSet
      BY DEF EditsInv
    <3>2. PICK x \in EditSet : x.at # "sent" /\ edits' = [edits EXCEPT ![e] = x]
      <4>1. \A at \in {"done", "failed"} :
              [edits[e] EXCEPT !.at = at] \in EditSet /\ [edits[e] EXCEPT !.at = at].at = at
        BY <3>1 DEF EditSet
      <4>2. \E at \in {"done", "failed"} : edits' = [edits EXCEPT ![e] = [edits[e] EXCEPT !.at = at]]
        BY <2>1 DEF ServeEdit
      <4> QED BY <4>1, <4>2
    <3> QED BY <1>1, <1>2, <3>2, EditMoved
  <2>2. CASE UNCHANGED edits
    BY <1>1, <1>2, <2>2, EditsSame
  <2> QED BY <2>1, <2>2 DEF Foreign
<1> QED BY <1>3, <1>4, <1>5

\* A form starts with what the table shows of a user, or with the defaults the session
\* has: what it would send is what it was given.
LEMMA OpenDialogKept ==
  ASSUME Inv, NEW who \in Ids \cup {New}, OpenDialog(who)
  PROVE  DialogInv'
<1> USE DEF Inv
<1> DEFINE given == IF who = New
                    THEN [permission |-> known.permission, quota |-> known.quota, disabled |-> FALSE]
                    ELSE table.rows[who]
           base == IF who = New THEN 0 ELSE table.versions[who]
<1>1. dialog' = [for |-> who, open |-> TRUE, form |-> given, touched |-> {},
                 amount |-> SplitQuota(given.quota), base |-> base]
  BY DEF OpenDialog
<1>2. UNCHANGED <<rows, versions, known>>
  BY DEF OpenDialog
<1>3. given \in Row /\ base \in Nat
  <2>1. CASE who = New
    BY <2>1 DEF ServerInv, Setting, Row
  <2>2. CASE who # New
    BY <2>2 DEF OpenDialog, Shown, TableInv, Snap, Rows
  <2> QED BY <2>1, <2>2
<1>4. /\ who # New => /\ base <= versions[who]
                      /\ base = versions[who] => given = rows[who]
      /\ who = New => /\ given.permission = known.permission
                      /\ given.quota = known.quota
  BY DEF TableInv, Snap
<1> HIDE DEF given, base
<1>5. SplitQuota(given.quota) \in Amount
  BY <1>3, QuotaTypes DEF Row
<1>6. dialog' \in DialogSet
  BY <1>1, <1>3, <1>5 DEF DialogSet, Rows
<1>7. Whole(given.quota) => Body' = given
  <2> SUFFICES ASSUME Whole(given.quota) PROVE Body' = given
    OBVIOUS
  <2>1. Body' = [given EXCEPT !.quota = QuotaToBytes(SplitQuota(given.quota))]
    BY <1>1 DEF Body
  <2>2. QuotaToBytes(SplitQuota(given.quota)) = given.quota
    BY <1>3, WholeQuotaKept DEF Row
  <2> QED BY <1>3, <2>1, <2>2 DEF Row
<1>8. Body'.permission = given.permission /\ Body'.disabled = given.disabled
  BY <1>1, <1>3 DEF Body, Row
<1>9. Faithful(dialog.for, dialog.base, dialog.touched, Body)'
  BY <1>1, <1>2, <1>4, <1>7, <1>8 DEF Faithful, Fields
<1> QED BY <1>1, <1>3, <1>6, <1>9 DEF DialogInv

\* What is typed is touched, and the rest is sent as it was.
LEMMA TypeKept ==
  ASSUME Inv, NEW permission \in Permissions, NEW amount \in Amounts \cup {dialog.amount},
         NEW disabled \in BOOLEAN, Type(permission, amount, disabled)
  PROVE  DialogInv'
<1> USE DEF Inv
<1> DEFINE touched == {field \in {"permission", "quota", "disabled"} :
                         CASE field = "permission" -> permission # dialog.form.permission
                           [] field = "quota"      -> amount # dialog.amount
                           [] field = "disabled"   -> disabled # dialog.form.disabled}
<1>1. dialog' = [dialog EXCEPT !.form.permission = permission, !.form.disabled = disabled,
                               !.amount = amount, !.touched = touched]
  BY DEF Type
<1>2. UNCHANGED <<rows, versions, known>>
  BY DEF Type
<1>3. /\ dialog \in DialogSet /\ dialog.form \in Row
      /\ Faithful(dialog.for, dialog.base, {}, Body)
  BY DEF Type, DialogInv
<1>4. amount \in Amount
  BY <1>3, AdminAssumption, UnitsPositive DEF Amounts, Amount, DialogSet
<1>5. /\ "permission" \notin touched => permission = dialog.form.permission
      /\ "quota" \notin touched => amount = dialog.amount
      /\ "disabled" \notin touched => disabled = dialog.form.disabled
      /\ touched \in SUBSET Fields
  BY DEF Fields
<1> HIDE DEF touched
<1>6. dialog' \in DialogSet /\ dialog'.form \in Row
  BY <1>1, <1>3, <1>4, <1>5 DEF DialogSet, Row, Rows
<1>7. /\ dialog'.for = dialog.for /\ dialog'.base = dialog.base /\ dialog'.touched = touched
      /\ dialog'.amount = amount /\ dialog'.form.permission = permission
      /\ dialog'.form.disabled = disabled
  BY <1>1, <1>3 DEF DialogSet, Row
<1>8. \A field \in Fields \ touched : Body'[field] = Body[field]
  BY <1>3, <1>5, <1>6, <1>7 DEF Body, Fields, Row
<1>9. Faithful(dialog.for, dialog.base, dialog.touched, Body)'
  BY <1>2, <1>3, <1>7, <1>8 DEF Faithful, Fields
<1> QED BY <1>6, <1>9 DEF DialogInv

\* Whatever the form and the buttons send is faithful to the row it was based on.
LEMMA SendSteps ==
  ASSUME Inv, Save \/ \E i \in Ids : Toggle(i) \/ Remove(i)
  PROVE  Inv'
<1> USE DEF Inv
<1>1. CASE Save
  <2>1. /\ dialog \in DialogSet /\ dialog.form \in Row
        /\ Faithful(dialog.for, dialog.base, dialog.touched, Body)
    BY <1>1 DEF Save, DialogInv
  <2>2. QuotaToBytes(dialog.amount) \in Nat
    BY <2>1, QuotaTypes DEF DialogSet
  <2>3. Body \in Rows
    BY <2>1, <2>2 DEF Body, Row, Rows
  <2>4. Request("save", dialog.for, Body, dialog.base, dialog.touched)
    BY <1>1 DEF Save, Body
  <2>5. dialog.for \in Ids \cup {New} /\ dialog.base \in Nat /\ dialog.touched \in SUBSET Fields
    BY <2>1 DEF DialogSet
  <2> HIDE DEF Inv
  <2> QED BY <2>1, <2>3, <2>4, <2>5, RequestKept
<1>2. ASSUME NEW i \in Ids, Toggle(i) PROVE Inv'
  <2> DEFINE body == [table.rows[i] EXCEPT !.disabled = ~table.rows[i].disabled]
  <2>1. table.rows[i] \in Row /\ table.versions[i] \in Nat
    BY <1>2 DEF Toggle, Shown, TableInv, Snap, Rows
  <2>2. body \in Rows /\ \A field \in {"permission", "quota"} : body[field] = table.rows[i][field]
    BY <2>1 DEF Row, Rows
  <2>3. Faithful(i, table.versions[i], {"disabled"}, body)
    <3>1. i # New
      BY Constants
    <3>2. /\ table.versions[i] <= versions[i]
          /\ table.versions[i] = versions[i] => table.rows[i] = rows[i]
      BY DEF TableInv, Snap
    <3> HIDE DEF body
    <3> QED BY <2>2, <3>1, <3>2 DEF Faithful, Fields
  <2>4. Request("toggle", i, body, table.versions[i], {"disabled"})
    BY <1>2 DEF Toggle
  <2>5. {"disabled"} \in SUBSET Fields
    BY DEF Fields
  <2> HIDE DEF Inv, body
  <2> QED BY <2>1, <2>2, <2>3, <2>4, <2>5, RequestKept
<1>3. ASSUME NEW i \in Ids, Remove(i) PROVE Inv'
  <2>1. table.versions[i] \in Nat /\ table.versions[i] <= versions[i] /\ i # New
    BY Constants DEF TableInv, Snap
  <2>2. Faithful(i, table.versions[i], Fields, Absent)
    BY <2>1 DEF Faithful
  <2>3. Request("remove", i, Absent, table.versions[i], Fields)
    BY <1>3 DEF Remove, Fields
  <2> HIDE DEF Inv
  <2> QED BY <2>1, <2>2, <2>3, Constants, RequestKept
<1> QED BY <1>1, <1>2, <1>3

\* Settings are saved while nothing is under way and no form is open.
LEMMA VisitKept ==
  ASSUME Inv, NEW permission \in Permissions, NEW amount \in Amounts,
         VisitSettings(permission, amount)
  PROVE  Inv'
<1> USE DEF Inv
<1>1. UNCHANGED <<rows, versions, edits, sound>> /\ RowsStep
  BY DEF VisitSettings, RowsStep
<1> PICK form \in {settings, Blank} : \E values \in Filled(form, permission, amount) : Accepted(values)
  BY DEF VisitSettings
<1>2. PICK values \in Filled(form, permission, amount) : Accepted(values)
  OBVIOUS
<1>3. values \in Setting
  <2>1. form \in Setting
    BY Constants DEF ServerInv
  <2>2. amount \in Amount
    BY AdminAssumption, UnitsPositive DEF Amounts, Amount
  <2>3. QuotaToBytes(SplitQuota(form.quota)) \in Nat /\ QuotaToBytes(amount) \in Nat
    BY <2>1, <2>2, QuotaTypes DEF Setting
  <2> HIDE DEF Inv
  <2> QED BY <1>2, <2>1, <2>3 DEF Filled, Setting
<1>4. ServerInv'
  <2>1. dirty' \in BOOLEAN
    BY DEF VisitSettings
  <2>2. settings' \in Setting /\ known' \in Setting /\ drifted' \in BOOLEAN
        /\ (~drifted' => known' = settings')
    BY <1>2, <1>3 DEF Accepted, ServerInv
  <2> QED BY <1>1, <2>1, <2>2 DEF ServerInv
<1>5. TableInv'
  <2>1. Snap(table.rows, table.versions)'
    <3>1. /\ table'.rows = [i \in Ids |-> Absent]
          /\ table'.versions = [i \in Ids |-> 0]
      BY DEF VisitSettings
    <3> QED BY <1>1, <3>1, Constants DEF Snap, ServerInv
  <2>2. Sent(New) \in LoadSet
    BY DEF Sent, LoadSet, Snap, ServerInv
  <2>3. loads' \in Seq(LoadSet) /\ Len(loads') = 1
    BY <2>2 DEF VisitSettings
  <2> QED BY <1>1, <2>1, <2>3, LoadsKept, AdminAssumption DEF TableInv
<1>6. DialogInv'
  BY Constants DEF VisitSettings, DialogInv
<1>7. EditsInv'
  <2>1. \A e \in Edits : edits'[e].at # "sent"
    BY <1>1, Constants DEF VisitSettings
  <2> QED BY <1>1, <2>1 DEF EditsInv
<1> QED BY <1>4, <1>5, <1>6, <1>7

\* Every step keeps it.
LEMMA InvStep == Inv /\ [Next]_vars => Inv'
<1> SUFFICES ASSUME Inv, [Next]_vars PROVE Inv'
  OBVIOUS
<1>1. ASSUME NEW who \in Ids \cup {New}, OpenDialog(who) PROVE Inv'
  <2>1. UNCHANGED <<rows, versions, settings, known, table, loads, edits, sound, dirty, drifted>>
        /\ RowsStep
    BY <1>1 DEF OpenDialog, RowsStep
  <2> QED BY <1>1, <2>1, OpenDialogKept, TableSame, EditsSame DEF Inv, ServerInv
<1>2. ASSUME NEW permission \in Permissions, NEW amount \in Amounts \cup {dialog.amount},
             NEW disabled \in BOOLEAN, Type(permission, amount, disabled)
      PROVE  Inv'
  <2>1. UNCHANGED <<rows, versions, settings, known, table, loads, edits, sound, dirty, drifted>>
        /\ RowsStep
    BY <1>2 DEF Type, RowsStep
  <2> QED BY <1>2, <2>1, TypeKept, TableSame, EditsSame DEF Inv, ServerInv
<1>3. CASE CloseDialog
  <2>1. UNCHANGED <<rows, versions, settings, known, table, loads, edits, sound, dirty, drifted>>
        /\ RowsStep /\ dialog' = Shut
    BY <1>3 DEF CloseDialog, RowsStep
  <2>2. DialogInv'
    BY <2>1, Constants DEF DialogInv
  <2> QED BY <2>1, <2>2, TableSame, EditsSame DEF Inv, ServerInv
<1>4. CASE UNCHANGED vars
  <2>1. RowsStep
    BY <1>4 DEF vars, RowsStep
  <2> QED BY <1>4, <2>1, TableSame, DialogKept, EditsSame DEF vars, Inv, ServerInv
<1>5. CASE Answered
  BY <1>5, LoadSteps, EditSteps, ServerSteps DEF Answered
<1>6. CASE User
  BY <1>1, <1>2, <1>3, <1>6, SendSteps, VisitKept DEF User
<1>7. CASE Elsewhere
  BY <1>7, ServerSteps DEF Elsewhere
<1> QED BY <1>4, <1>5, <1>6, <1>7 DEF Next

\* Types, and that every copy of a row is of the version it says, in every behaviour.
LEMMA Invariant == Spec => []Inv
BY InitInv, InvStep, PTL DEF Spec

\* Rows, table, form and requests are well formed and no quota is below zero, whatever
\* overlaps with what, fails or is done elsewhere.
THEOREM TypeCorrect == Spec => []TypeOK
<1>1. Inv => TypeOK
  <2> SUFFICES ASSUME Inv PROVE TypeOK
    OBVIOUS
  <2>1. \A i \in DOMAIN loads : loads[i].at \in {"sent", "served", "over"}
    BY DEF Inv, TableInv, LoadSet
  <2>2. dialog.for \in Ids \cup {New}
    BY DEF Inv, DialogInv, DialogSet
  <2>3. \A e \in Edits : edits[e].body \in Rows /\ edits[e].for \in Ids \cup {New}
    BY DEF Inv, EditsInv, EditSet
  <2> QED BY <2>1, <2>2, <2>3 DEF TypeOK, Inv, ServerInv, TableInv, Snap
<1> QED BY <1>1, Invariant, PTL

-----------------------------------------------------------------------------
(* What a save changes.                                                    *)

\* Only an edit that the server serves, or one of somebody else, changes a row, and a
\* request is answered by one step of its own.
LEMMA WhoWrites ==
  ASSUME Inv, [Next]_vars, rows' # rows,
         NEW e \in Edits, edits[e].at = "sent", edits'[e].at # "sent"
  PROVE  Applied(edits[e])
<1>1. ~UNCHANGED vars
  BY DEF vars
<1>2. ~User
  <2>1. User => UNCHANGED rows
    BY DEF User, OpenDialog, Type, CloseDialog, Save, Toggle, Remove, Request, VisitSettings
  <2> QED BY <2>1
<1>3. ~Elsewhere
  BY DEF Elsewhere, Foreign
<1>4. PICK f \in Edits : ServeEdit(f)
  <2>1. Answered
    BY <1>1, <1>2, <1>3 DEF Next
  <2> QED BY <2>1 DEF Answered, ServeLoad, UseLoad, LoadFails, EditOver, RefuseEdit, EditDone,
                      EditFailed
<1>5. f = e
  BY <1>4 DEF ServeEdit, Inv, EditsInv
<1> QED BY <1>4, <1>5 DEF ServeEdit

\* A save or a button that was based on the row as the server has it changes what was
\* touched and nothing else, however many loads, forms and other requests there were
\* between the moment the row was read and the moment it is written.
THEOREM TouchedOnly == Spec => OnlyWhatWasTouched
<1>1. ASSUME Inv, [Next]_vars, NEW e \in Edits,
             edits[e].at = "sent", edits'[e].at # "sent", edits[e].for # New,
             edits[e].base = versions[edits[e].for], Whole(rows[edits[e].for].quota),
             rows' # rows,
             NEW field \in {"permission", "quota", "disabled"} \ edits[e].touched
      PROVE  rows'[edits[e].for][field] = rows[edits[e].for][field]
  <2>1. Applied(edits[e])
    BY <1>1, WhoWrites
  <2>2. edits[e].for \in Ids /\ Wrote(edits[e].for, edits[e].body)
    BY <1>1, <2>1, AppliedWrites
  <2>3. rows'[edits[e].for] = edits[e].body
    <3>1. rows' = [rows EXCEPT ![edits[e].for] = edits[e].body]
      BY <2>2 DEF Wrote
    <3>2. edits[e].for \in DOMAIN rows
      BY <1>1, <2>2 DEF Inv, ServerInv
    <3> QED BY <3>1, <3>2
  <2>4. Faithful(edits[e].for, edits[e].base, edits[e].touched, edits[e].body)
    BY <1>1 DEF Inv, EditsInv
  <2>5. edits[e].body[field] = rows[edits[e].for][field]
    BY <1>1, <2>4 DEF Faithful, Fields
  <2> QED BY <2>3, <2>5
<1>2. Inv /\ [Next]_vars =>
        [\A e \in Edits :
           LET edit == edits[e]
           IN  /\ edit.at = "sent" /\ edits'[e].at # "sent" /\ edit.for # New
               /\ edit.base = versions[edit.for] /\ Whole(rows[edit.for].quota)
               /\ rows' # rows
               => \A field \in {"permission", "quota", "disabled"} \ edit.touched :
                    rows'[edit.for][field] = rows[edit.for][field]]_vars
  BY <1>1
<1> QED BY <1>2, Invariant, PTL DEF Spec, OnlyWhatWasTouched

\* A new user has the defaults of the settings where the form was not touched, as long
\* as the settings have not changed unknown to the session.
THEOREM DefaultsReach == Spec => DefaultsApply
<1>1. ASSUME Inv, [Next]_vars, NEW e \in Edits,
             edits[e].at = "sent", edits'[e].at # "sent", edits[e].for = New,
             ~drifted, Whole(settings.quota),
             NEW i \in Ids, rows'[i] # rows[i],
             NEW field \in {"permission", "quota"} \ edits[e].touched
      PROVE  rows'[i][field] = settings[field]
  <2>1. PICK j \in Ids : Wrote(j, edits[e].body)
    <3>1. rows' # rows
      BY <1>1
    <3>2. Applied(edits[e])
      BY <1>1, <3>1, WhoWrites
    <3>3. \E j \in Ids : Wrote(j, edits[e].body)
      BY <1>1, <3>2, AppliedWrites
    <3> QED BY <3>3
  <2>2. rows'[i] = edits[e].body
    BY <1>1, <2>1 DEF Wrote, Inv, ServerInv
  <2>3. Faithful(New, edits[e].base, edits[e].touched, edits[e].body)
    BY <1>1 DEF Inv, EditsInv
  <2>4. known = settings
    BY <1>1 DEF Inv, ServerInv
  <2>5. edits[e].body[field] = settings[field]
    BY <1>1, <2>3, <2>4 DEF Faithful
  <2> QED BY <2>2, <2>5
<1>2. Inv /\ [Next]_vars =>
        [\A e \in Edits :
           LET edit == edits[e]
           IN  /\ edit.at = "sent" /\ edits'[e].at # "sent" /\ edit.for = New
               /\ ~drifted /\ Whole(settings.quota)
               => \A i \in Ids : rows'[i] # rows[i] =>
                    \A field \in {"permission", "quota"} \ edit.touched :
                      rows'[i][field] = settings[field]]_vars
  BY <1>1
<1> QED BY <1>2, Invariant, PTL DEF Spec, DefaultsApply

-----------------------------------------------------------------------------
(* The table.  A load that is late, or over, is passed: one asked for after *)
(* it, or itself, was used.  The one asked for last decides: while it is    *)
(* under way it will bring the rows of the server, and once it is passed    *)
(* the table shows them, if the load used last was in order.                *)

Passed(l) == l.at = "over" \/ l.late

Ordered(s) == \A j, k \in DOMAIN s : j < k /\ Passed(s[k]) => s[j].late

LastPassed(s) == s = <<>> \/ Passed(s[Len(s)])

\* A load a request waits for is its only one.
Waiting(s, es) ==
  \A j \in DOMAIN s : s[j].for # New =>
    /\ s[j].for \in Edits /\ es[s[j].for].at = "loading"
    /\ \A k \in DOMAIN s : k # j => s[k].for # s[j].for

Newest(s, es, r, shown, inOrder, stale) ==
  ~stale /\ (\A e \in Edits : es[e].at # "done") =>
     /\ LastPassed(s) /\ inOrder => shown = r
     /\ ~LastPassed(s) /\ s[Len(s)].at = "served" => s[Len(s)].rows = r

Tracked ==
  /\ Ordered(loads) /\ Waiting(loads, edits)
  /\ Newest(loads, edits, rows, table.rows, sound, dirty)

\* A load leaves the list, and those asked for before it are late.
LEMMA DropKeeps ==
  ASSUME NEW s \in Seq(LoadSet), NEW i \in DOMAIN s, Ordered(s),
         \A j \in DOMAIN s : j < i => s[j].late
  PROVE  LET t == Lists!RemoveAt(s, i)
         IN  /\ t \in Seq(LoadSet) /\ Ordered(t)
             /\ LastPassed(t) <=> i = Len(s) \/ LastPassed(s)
             /\ ~LastPassed(t) => t # <<>> /\ t[Len(t)] = s[Len(s)]
             /\ \A es : Waiting(s, es) => Waiting(t, es)
             /\ \A es : Waiting(s, es) => \A j \in DOMAIN t : s[i].for # New => t[j].for # s[i].for
<1> DEFINE t == Lists!RemoveAt(s, i)
           old(j) == IF j < i THEN j ELSE j + 1
<1>1. Len(s) \in Nat /\ DOMAIN s = 1 .. Len(s) /\ i \in 1 .. Len(s)
  OBVIOUS
<1>2. /\ t \in Seq(LoadSet) /\ Len(t) = Len(s) - 1
      /\ \A j \in 1 .. Len(t) : t[j] = IF j < i THEN s[j] ELSE s[j + 1]
  BY <1>1, RemoveAtElements
<1> HIDE DEF t
<1>3. DOMAIN t = 1 .. Len(s) - 1
  BY <1>2
<1>4. \A j \in DOMAIN t : old(j) \in DOMAIN s /\ t[j] = s[old(j)] /\ old(j) # i
  BY <1>1, <1>2, <1>3
<1>5. \A j, k \in DOMAIN t : (j < k => old(j) < old(k)) /\ (j # k => old(j) # old(k))
  BY <1>1, <1>3
<1>6. t # <<>> => Len(t) \in DOMAIN t
  <2> SUFFICES ASSUME t # <<>> PROVE Len(t) \in DOMAIN t
    OBVIOUS
  <2>1. Len(t) # 0
    BY <1>2, EmptySeq
  <2> QED BY <1>1, <1>2, <1>3, <2>1
<1>7. t = <<>> <=> Len(s) = 1
  BY <1>1, <1>2, EmptySeq
<1>8. s # <<>>
  BY <1>1
<1>9. i # Len(s) => Len(t) \in DOMAIN t /\ old(Len(t)) = Len(s)
  <2> SUFFICES ASSUME i # Len(s) PROVE Len(t) \in DOMAIN t /\ old(Len(t)) = Len(s)
    OBVIOUS
  <2>1. Len(t) \in 1 .. Len(s) - 1 /\ ~(Len(t) < i) /\ Len(t) + 1 = Len(s)
    BY <1>1, <1>2
  <2> QED BY <1>3, <2>1
<1>10. i = Len(s) /\ t # <<>> => Len(t) \in DOMAIN t /\ old(Len(t)) < i
  BY <1>1, <1>2, <1>3, <1>6
<1> HIDE DEF old
<1>11. Ordered(t)
  <2> SUFFICES ASSUME NEW j \in DOMAIN t, NEW k \in DOMAIN t, j < k, Passed(t[k])
               PROVE  t[j].late
    BY DEF Ordered
  <2>1. old(j) \in DOMAIN s /\ old(k) \in DOMAIN s /\ old(j) < old(k) /\ Passed(s[old(k)])
    BY <1>4, <1>5
  <2>2. s[old(j)].late
    BY <2>1 DEF Ordered
  <2> QED BY <1>4, <2>2
<1>12. i = Len(s) => LastPassed(t)
  <2> SUFFICES ASSUME i = Len(s), t # <<>> PROVE Passed(t[Len(t)])
    BY DEF LastPassed
  <2>1. t[Len(t)] = s[old(Len(t))] /\ old(Len(t)) \in DOMAIN s /\ old(Len(t)) < i
    BY <1>4, <1>10
  <2> QED BY <2>1 DEF Passed
<1>13. i # Len(s) => t # <<>> /\ t[Len(t)] = s[Len(s)] /\ (LastPassed(t) <=> LastPassed(s))
  <2> SUFFICES ASSUME i # Len(s)
               PROVE  t # <<>> /\ t[Len(t)] = s[Len(s)] /\ (LastPassed(t) <=> LastPassed(s))
    OBVIOUS
  <2>1. t[Len(t)] = s[Len(s)]
    BY <1>4, <1>9
  <2>2. t # <<>>
    BY <1>1, <1>7
  <2> QED BY <1>8, <2>1, <2>2 DEF LastPassed
<1>14. ASSUME NEW es, Waiting(s, es)
       PROVE  /\ Waiting(t, es)
              /\ \A j \in DOMAIN t : s[i].for # New => t[j].for # s[i].for
  <2>1. \A j \in DOMAIN s : s[j].for # New =>
          /\ s[j].for \in Edits /\ es[s[j].for].at = "loading"
          /\ \A k \in DOMAIN s : k # j => s[k].for # s[j].for
    BY <1>14 DEF Waiting
  <2>2. Waiting(t, es)
    BY <1>4, <1>5, <2>1 DEF Waiting
  <2> QED BY <1>4, <2>1, <2>2
<1> QED BY <1>2, <1>11, <1>12, <1>13, <1>14 DEF t

\* Using a load, or giving it up, passes it and those asked for before it.
LEMMA UsedKeeps ==
  ASSUME loads \in Seq(LoadSet), NEW i \in DOMAIN loads, Ordered(loads), Waiting(loads, edits)
  PROVE  LET t == Used(i)
         IN  /\ Ordered(t) /\ Waiting(t, edits)
             /\ LastPassed(t) <=> i = Len(loads) \/ LastPassed(loads)
             /\ ~LastPassed(t) => /\ t[Len(t)].at = loads[Len(loads)].at
                                  /\ t[Len(t)].rows = loads[Len(loads)].rows
<1> DEFINE marked == [j \in DOMAIN loads |-> [loads[j] EXCEPT !.late = @ \/ j < i]]
           n == Len(loads)
<1>1. n \in Nat /\ DOMAIN loads = 1 .. n /\ i \in 1 .. n /\ \A j \in 1 .. n : loads[j] \in LoadSet
  OBVIOUS
<1>2. /\ marked \in Seq(LoadSet) /\ Len(marked) = n /\ DOMAIN marked = 1 .. n
      /\ \A j \in 1 .. n : /\ marked[j].at = loads[j].at /\ marked[j].rows = loads[j].rows
                           /\ marked[j].for = loads[j].for
                           /\ marked[j].late <=> loads[j].late \/ j < i
  <2>1. ASSUME NEW j \in 1 .. n
        PROVE  /\ marked[j] \in LoadSet
               /\ marked[j].at = loads[j].at /\ marked[j].rows = loads[j].rows
               /\ marked[j].for = loads[j].for
               /\ marked[j].late <=> loads[j].late \/ j < i
    <3> DEFINE late == loads[j].late \/ j < i
               l == [loads[j] EXCEPT !.late = late]
    <3>1. marked[j] = l
      BY <1>1
    <3>2. late \in BOOLEAN
      BY <1>1 DEF LoadSet
    <3> HIDE DEF marked, late
    <3>3. /\ l.at = loads[j].at /\ l.rows = loads[j].rows /\ l.for = loads[j].for
          /\ l.late = late
      BY <1>1 DEF LoadSet
    <3>4. l \in LoadSet
      BY <1>1, <3>2 DEF LoadSet, Snap
    <3> HIDE DEF l
    <3>5. late <=> loads[j].late \/ j < i
      BY DEF late
    <3> QED BY <3>1, <3>3, <3>4, <3>5
  <2>2. marked \in [1 .. n -> LoadSet]
    BY <1>1, <2>1
  <2>3. marked \in Seq(LoadSet) /\ Len(marked) = n
    BY <1>1, <2>2, IsASeq
  <2> QED BY <1>1, <2>1, <2>3
<1> HIDE DEF marked, n
<1>3. Ordered(marked) /\ Waiting(marked, edits)
  <2>1. Waiting(marked, edits)
    BY <1>1, <1>2 DEF Waiting
  <2>2. ASSUME NEW j \in 1 .. n, NEW k \in 1 .. n, j < k, Passed(marked[k])
        PROVE  marked[j].late
    <3>1. CASE k < i
      BY <1>1, <1>2, <2>2, <3>1
    <3>2. CASE ~(k < i)
      <4>1. Passed(loads[k])
        BY <1>2, <2>2, <3>2 DEF Passed
      <4> QED BY <1>1, <1>2, <2>2, <4>1 DEF Ordered
    <3> QED BY <3>1, <3>2
  <2> QED BY <1>2, <2>1, <2>2 DEF Ordered
<1>4. loads # <<>> /\ marked # <<>> /\ n \in 1 .. n /\ ~(n < i)
  BY <1>1, <1>2 DEF n
<1>5. LastPassed(marked) <=> LastPassed(loads)
  BY <1>2, <1>4 DEF LastPassed, Passed, n
<1>6. CASE loads[i].for = New
  <2>1. Used(i) = Lists!RemoveAt(marked, i)
    BY <1>6 DEF Used, marked
  <2>2. \A j \in DOMAIN marked : j < i => marked[j].late
    BY <1>2
  <2>3. i \in DOMAIN marked
    BY <1>1, <1>2
  <2> DEFINE t == Lists!RemoveAt(marked, i)
  <2>4. /\ Ordered(t)
        /\ LastPassed(t) <=> i = Len(marked) \/ LastPassed(marked)
        /\ ~LastPassed(t) => t # <<>> /\ t[Len(t)] = marked[Len(marked)]
        /\ \A es : Waiting(marked, es) => Waiting(t, es)
    BY <1>2, <1>3, <2>2, <2>3, DropKeeps
  <2> HIDE DEF t
  <2>5. /\ marked[Len(marked)].at = loads[n].at
        /\ marked[Len(marked)].rows = loads[n].rows
    BY <1>2, <1>4
  <2> QED BY <1>2, <1>3, <1>5, <2>1, <2>4, <2>5 DEF n, t
<1>7. CASE loads[i].for # New
  <2> DEFINE t == [marked EXCEPT ![i] = [marked[i] EXCEPT !.at = "over"]]
  <2>1. Used(i) = t
    BY <1>1, <1>2, <1>7 DEF Used, marked
  <2>2. /\ DOMAIN t = 1 .. n
        /\ \A j \in 1 .. n : j # i => t[j] = marked[j]
        /\ t[i].at = "over" /\ t[i].late = marked[i].late /\ t[i].for = marked[i].for
    <3>1. marked[i] \in LoadSet
      BY <1>1, <1>2
    <3> QED BY <1>1, <1>2, <3>1 DEF LoadSet
  <2>3. Len(t) = n /\ t # <<>>
    <3>1. Len(t) = Len(marked)
      BY <1>1, <1>2
    <3> QED BY <1>1, <1>2, <3>1
  <2> HIDE DEF t
  <2>4. Ordered(t)
    <3> SUFFICES ASSUME NEW j \in 1 .. n, NEW k \in 1 .. n, j < k, Passed(t[k])
                 PROVE  t[j].late
      BY <2>2 DEF Ordered
    <3>1. t[j].late = marked[j].late
      BY <2>2
    <3>2. CASE k = i
      BY <1>2, <3>1, <3>2
    <3>3. CASE k # i
      <4>1. Passed(marked[k])
        BY <2>2, <3>3
      <4> QED BY <1>2, <1>3, <3>1, <4>1 DEF Ordered
    <3> QED BY <3>2, <3>3
  <2>5. Waiting(t, edits)
    <3>1. \A j \in 1 .. n : t[j].for = marked[j].for
      BY <2>2
    <3> QED BY <1>2, <1>3, <2>2, <3>1 DEF Waiting
  <2>6. LastPassed(t) <=> i = n \/ LastPassed(loads)
    <3>1. CASE i = n
      BY <2>2, <2>3, <3>1 DEF LastPassed, Passed
    <3>2. CASE i # n
      <4>1. t[n] = marked[n]
        BY <1>4, <2>2, <3>2
      <4> QED BY <1>2, <1>4, <1>5, <2>3, <3>2, <4>1 DEF LastPassed
    <3> QED BY <3>1, <3>2
  <2>7. i # n => t[n].at = loads[n].at /\ t[n].rows = loads[n].rows
    BY <1>2, <1>4, <2>2
  <2> QED BY <2>1, <2>3, <2>4, <2>5, <2>6, <2>7 DEF n
<1> QED BY <1>6, <1>7

\* Before the first answer, the load sent at the start decides.
LEMMA TrackedInit == Init => Tracked
<1> SUFFICES ASSUME Init PROVE Tracked
  OBVIOUS
<1>1. loads = <<Sent(New)>> /\ sound = FALSE
  BY DEF Init
<1> DEFINE l == Sent(New)
<1>2. l.at = "sent" /\ l.late = FALSE /\ l.for = New
  BY DEF Sent
<1> HIDE DEF l
<1>3. Len(loads) = 1 /\ DOMAIN loads = {1} /\ loads[1] = l /\ loads # <<>>
  BY <1>1 DEF l
<1>4. ~Passed(loads[1]) /\ ~LastPassed(loads)
  BY <1>2, <1>3 DEF Passed, LastPassed
<1> QED BY <1>1, <1>2, <1>3, <1>4 DEF Tracked, Ordered, Waiting, Newest

\* Edits change their state, a row may change with them: the table is no concern until
\* the load that follows the edit, or if the page does not know.
LEMMA EditsTrack ==
  ASSUME Inv, Tracked, NEW f \in Edits, UNCHANGED <<loads, table, sound>>,
         edits[f].at # "loading", \A e \in Edits : e # f => edits'[e] = edits[e],
         \/ UNCHANGED <<rows, dirty>> /\ (edits[f].at = "done" => edits'[f].at = "done")
         \/ edits'[f].at = "done"
         \/ dirty'
  PROVE  Tracked'
<1>1. Ordered(loads')
  BY DEF Tracked
<1>2. Waiting(loads', edits')
  BY DEF Tracked, Waiting
<1>3. Newest(loads', edits', rows', table'.rows, sound', dirty')
  BY DEF Tracked, Newest
<1> QED BY <1>1, <1>2, <1>3 DEF Tracked

\* A new load is the newest, and under way.
LEMMA LoadTracks ==
  ASSUME Inv, Tracked, NEW f \in Edits, edits[f].at = "done", Load(f),
         edits' = [edits EXCEPT ![f].at = "loading"]
  PROVE  Tracked'
<1> DEFINE l == Sent(f)  n == Len(loads)
<1>1. loads \in Seq(LoadSet) /\ n \in Nat /\ DOMAIN loads = 1 .. n /\ edits \in [Edits -> EditSet]
  BY DEF Inv, TableInv, EditsInv
<1>2. l.at = "sent" /\ l.late = FALSE /\ l.for = f
  BY DEF Sent
<1>3. loads' = Append(loads, l)
  BY DEF Load
<1> HIDE DEF l
<1>4. /\ Len(loads') = n + 1 /\ DOMAIN loads' = 1 .. n + 1 /\ loads'[n + 1] = l
      /\ \A j \in 1 .. n : loads'[j] = loads[j]
  BY <1>1, <1>3
<1> HIDE DEF n
<1>5. ~Passed(l)
  BY <1>2 DEF Passed
<1>6. Ordered(loads')
  <2> SUFFICES ASSUME NEW j \in DOMAIN loads', NEW k \in DOMAIN loads', j < k,
                      Passed(loads'[k])
               PROVE  loads'[j].late
    BY DEF Ordered
  <2>1. k # n + 1
    BY <1>4, <1>5
  <2>2. j \in 1 .. n /\ k \in 1 .. n
    BY <1>1, <1>4, <2>1
  <2> QED BY <1>1, <1>4, <2>2 DEF Tracked, Ordered
<1>7. /\ edits'[f].at = "loading" /\ \A e \in Edits : e # f => edits'[e] = edits[e]
  BY <1>1 DEF EditSet
<1>8. \A j \in 1 .. n : loads[j].for # f
  BY <1>1, AdminAssumption DEF Tracked, Waiting
<1>9. Waiting(loads', edits')
  <2> SUFFICES ASSUME NEW j \in DOMAIN loads', loads'[j].for # New
               PROVE  /\ loads'[j].for \in Edits /\ edits'[loads'[j].for].at = "loading"
                      /\ \A k \in DOMAIN loads' : k # j => loads'[k].for # loads'[j].for
    BY DEF Waiting
  <2>1. CASE j = n + 1
    <3>1. \A k \in DOMAIN loads' : k # j => k \in 1 .. n
      BY <1>1, <1>4, <2>1
    <3> QED BY <1>2, <1>4, <1>7, <1>8, <2>1, <3>1
  <2>2. CASE j # n + 1
    <3>1. j \in 1 .. n /\ \A k \in DOMAIN loads' : k = n + 1 \/ k \in 1 .. n
      BY <1>1, <1>4, <2>2
    <3>2. /\ loads[j].for \in Edits /\ edits[loads[j].for].at = "loading"
          /\ \A k \in 1 .. n : k # j => loads[k].for # loads[j].for
      BY <1>1, <1>4, <3>1 DEF Tracked, Waiting
    <3>3. loads[j].for # f
      BY <1>8, <3>1
    <3> QED BY <1>2, <1>4, <1>7, <3>1, <3>2, <3>3
  <2> QED BY <2>1, <2>2
<1>10. ~LastPassed(loads') /\ loads'[Len(loads')].at = "sent"
  <2>1. loads' # <<>> /\ loads'[Len(loads')] = l
    BY <1>1, <1>3, <1>4
  <2> QED BY <1>2, <1>5, <2>1 DEF LastPassed
<1>11. Newest(loads', edits', rows', table'.rows, sound', dirty')
  BY <1>10 DEF Newest
<1> QED BY <1>6, <1>9, <1>11 DEF Tracked

\* The load that is served has the rows of this moment.
LEMMA ServeLoadTracks ==
  ASSUME Inv, Tracked, NEW i \in DOMAIN loads, ServeLoad(i)
  PROVE  Tracked'
<1> DEFINE l == [loads[i] EXCEPT !.at = "served", !.rows = rows, !.versions = versions]
           n == Len(loads)
<1>1. /\ loads \in Seq(LoadSet) /\ n \in Nat /\ DOMAIN loads = 1 .. n /\ i \in 1 .. n
      /\ loads[i] \in LoadSet /\ loads[i].at = "sent"
      /\ UNCHANGED <<rows, edits, table, sound, dirty>>
  BY DEF Inv, TableInv, ServeLoad
<1>2. /\ l.at = "served" /\ l.rows = rows /\ l.late = loads[i].late /\ l.for = loads[i].for
  BY <1>1 DEF LoadSet
<1>3. loads' = [loads EXCEPT ![i] = l]
  BY DEF ServeLoad
<1> HIDE DEF l
<1>4. /\ DOMAIN loads' = 1 .. n /\ Len(loads') = n /\ loads'[i] = l
      /\ \A j \in 1 .. n : j # i => loads'[j] = loads[j]
      /\ loads' # <<>> /\ loads # <<>> /\ n \in 1 .. n
  <2>1. Len(loads') = n /\ DOMAIN loads' = 1 .. n
    BY <1>1, <1>3
  <2>2. loads' # <<>> /\ loads # <<>> /\ n \in 1 .. n
    BY <1>1, <2>1
  <2> QED BY <1>1, <1>3, <2>1, <2>2
<1> HIDE DEF n
<1>5. \A j \in 1 .. n : /\ loads'[j].late = loads[j].late /\ loads'[j].for = loads[j].for
                        /\ Passed(loads'[j]) <=> Passed(loads[j])
  BY <1>1, <1>2, <1>4 DEF Passed
<1>6. Ordered(loads')
  BY <1>1, <1>4, <1>5 DEF Tracked, Ordered
<1>7. Waiting(loads', edits')
  BY <1>1, <1>4, <1>5 DEF Tracked, Waiting
<1>8. LastPassed(loads') <=> LastPassed(loads)
  BY <1>4, <1>5 DEF LastPassed, n
<1>9. loads'[n] = loads[n] \/ loads'[n].rows = rows
  BY <1>2, <1>4
<1>10. Newest(loads', edits', rows', table'.rows, sound', dirty')
  BY <1>1, <1>4, <1>8, <1>9 DEF Tracked, Newest, n
<1> QED BY <1>6, <1>7, <1>10 DEF Tracked

\* A load that is used, or fails, passes those asked for before it.
LEMMA UseLoadTracks ==
  ASSUME Inv, Tracked, NEW i \in DOMAIN loads, UseLoad(i) \/ LoadFails(i)
  PROVE  Tracked'
<1>1. /\ loads \in Seq(LoadSet) /\ Len(loads) \in Nat /\ DOMAIN loads = 1 .. Len(loads)
      /\ i \in 1 .. Len(loads) /\ loads # <<>>
      /\ Ordered(loads) /\ Waiting(loads, edits)
      /\ Newest(loads, edits, rows, table.rows, sound, dirty)
  BY DEF Inv, TableInv, Tracked
<1>2. /\ loads' = Used(i) /\ UNCHANGED <<rows, edits, dirty>>
      /\ \/ /\ loads[i].at = "served" /\ table'.rows = loads[i].rows
            /\ sound' = ~loads[i].late
         \/ sound' = FALSE
  BY DEF UseLoad, LoadFails
<1>3. /\ Ordered(loads') /\ Waiting(loads', edits')
      /\ LastPassed(loads') <=> i = Len(loads) \/ LastPassed(loads)
      /\ ~LastPassed(loads') => /\ loads'[Len(loads')].at = loads[Len(loads)].at
                                /\ loads'[Len(loads')].rows = loads[Len(loads)].rows
  BY <1>1, <1>2, UsedKeeps
<1>4. Newest(loads', edits', rows', table'.rows, sound', dirty')
  <2> SUFFICES ASSUME ~dirty, \A e \in Edits : edits[e].at # "done"
               PROVE  /\ LastPassed(loads') /\ sound' => table'.rows = rows
                      /\ ~LastPassed(loads') /\ loads'[Len(loads')].at = "served"
                           => loads'[Len(loads')].rows = rows
    BY <1>2 DEF Newest
  <2>1. ~LastPassed(loads) /\ loads[Len(loads)].at = "served" => loads[Len(loads)].rows = rows
    BY <1>1 DEF Newest
  \* The load that is used is in order only if none after it was used before.
  <2>2. ASSUME LastPassed(loads'), sound' PROVE table'.rows = rows
    <3>1. loads[i].at = "served" /\ table'.rows = loads[i].rows /\ ~loads[i].late
      BY <1>2, <2>2
    <3>2. ~Passed(loads[i])
      BY <3>1 DEF Passed
    <3>3. ~Passed(loads[Len(loads)])
      <4>1. CASE i = Len(loads)
        BY <3>2, <4>1
      <4>2. CASE i # Len(loads)
        <5>1. i < Len(loads) /\ Len(loads) \in DOMAIN loads
          BY <1>1, <4>2
        <5> QED BY <1>1, <3>1, <5>1 DEF Ordered
      <4> QED BY <4>1, <4>2
    <3>4. ~LastPassed(loads)
      BY <1>1, <3>3 DEF LastPassed
    <3>5. i = Len(loads)
      BY <1>3, <2>2, <3>4
    <3> QED BY <2>1, <3>1, <3>4, <3>5
  <2> QED BY <1>3, <2>1, <2>2
<1> QED BY <1>3, <1>4 DEF Tracked

\* A request that is over lets go of its load, which is over.
LEMMA EditOverTracks ==
  ASSUME Inv, Tracked, NEW i \in DOMAIN loads, NEW f \in Edits, EditOver(f, i)
  PROVE  Tracked'
<1>1. /\ loads \in Seq(LoadSet) /\ Len(loads) \in Nat /\ DOMAIN loads = 1 .. Len(loads)
      /\ i \in 1 .. Len(loads) /\ loads # <<>> /\ edits \in [Edits -> EditSet]
      /\ Ordered(loads) /\ Waiting(loads, edits)
      /\ Newest(loads, edits, rows, table.rows, sound, dirty)
  BY DEF Inv, TableInv, EditsInv, Tracked
<1>2. /\ loads[i].at = "over" /\ loads[i].for = f /\ f # New
      /\ loads' = Lists!RemoveAt(loads, i) /\ edits' = [edits EXCEPT ![f] = NoEdit]
      /\ UNCHANGED <<rows, table, sound, dirty>>
  BY AdminAssumption DEF EditOver
<1>3. Passed(loads[i])
  BY <1>2 DEF Passed
<1>4. \A j \in DOMAIN loads : j < i => loads[j].late
  BY <1>1, <1>3 DEF Ordered
<1>5. /\ Ordered(loads') /\ Waiting(loads', edits)
      /\ LastPassed(loads') <=> i = Len(loads) \/ LastPassed(loads)
      /\ ~LastPassed(loads') => loads'[Len(loads')] = loads[Len(loads)]
      /\ \A j \in DOMAIN loads' : loads'[j].for # f
  <2> DEFINE t == Lists!RemoveAt(loads, i)
  <2>1. /\ Ordered(t)
        /\ LastPassed(t) <=> i = Len(loads) \/ LastPassed(loads)
        /\ ~LastPassed(t) => t[Len(t)] = loads[Len(loads)]
        /\ \A es : Waiting(loads, es) => Waiting(t, es)
        /\ \A es : Waiting(loads, es) =>
             \A j \in DOMAIN t : loads[i].for # New => t[j].for # loads[i].for
    <3>1. loads \in Seq(LoadSet) /\ i \in DOMAIN loads /\ Ordered(loads)
      BY <1>1
    <3> QED BY ONLY <3>1, <1>4, DropKeeps
  <2>2. t = loads'
    BY <1>2
  <2> HIDE DEF t
  <2> QED BY <1>1, <1>2, <2>1, <2>2
<1>6. LastPassed(loads') <=> LastPassed(loads)
  BY <1>1, <1>3, <1>5 DEF LastPassed
<1>7. /\ edits[f].at = "loading" /\ \A e \in Edits : e # f => edits'[e] = edits[e]
  BY <1>1, <1>2 DEF Waiting
<1>8. Waiting(loads', edits')
  BY <1>5, <1>7 DEF Waiting
<1>9. Newest(loads', edits', rows', table'.rows, sound', dirty')
  <2>1. (\A e \in Edits : edits'[e].at # "done") => \A e \in Edits : edits[e].at # "done"
    BY <1>7
  <2> QED BY <1>1, <1>2, <1>5, <1>6, <2>1 DEF Newest
<1> QED BY <1>5, <1>8, <1>9 DEF Tracked

\* Every step keeps the newest load deciding.
LEMMA TrackedStep == Inv /\ Tracked /\ [Next]_vars => Tracked'
<1> SUFFICES ASSUME Inv, Tracked, [Next]_vars PROVE Tracked'
  OBVIOUS
<1>1. CASE UNCHANGED <<loads, edits, rows, table, sound, dirty>>
  BY <1>1 DEF Tracked
<1>2. ASSUME NEW i \in DOMAIN loads,
             \/ ServeLoad(i) \/ UseLoad(i) \/ LoadFails(i)
             \/ \E e \in Edits : EditOver(e, i)
      PROVE  Tracked'
  BY <1>2, ServeLoadTracks, UseLoadTracks, EditOverTracks
<1>3. ASSUME NEW f \in Edits,
             ServeEdit(f) \/ RefuseEdit(f) \/ EditDone(f) \/ EditFailed(f)
      PROVE  Tracked'
  <2>1. edits \in [Edits -> EditSet]
    BY DEF Inv, EditsInv
  <2>2. CASE ServeEdit(f)
    <3>1. /\ edits[f].at = "sent" /\ UNCHANGED <<loads, table, sound>>
          /\ \A e \in Edits : e # f => edits'[e] = edits[e]
          /\ edits'[f].at = "done" \/ dirty'
      BY <2>1, <2>2 DEF ServeEdit, EditSet
    <3> QED BY <3>1, EditsTrack
  <2>3. CASE RefuseEdit(f)
    <3>1. /\ edits[f].at = "sent" /\ UNCHANGED <<loads, table, sound, rows, dirty>>
          /\ \A e \in Edits : e # f => edits'[e] = edits[e]
      BY <2>1, <2>3 DEF RefuseEdit
    <3> QED BY <3>1, EditsTrack
  <2>4. CASE EditDone(f)
    BY <2>4, LoadTracks DEF EditDone
  <2>5. CASE EditFailed(f)
    <3>1. /\ edits[f].at = "failed" /\ UNCHANGED <<loads, table, sound, rows, dirty>>
          /\ \A e \in Edits : e # f => edits'[e] = edits[e]
      BY <2>1, <2>5 DEF EditFailed
    <3> QED BY <3>1, EditsTrack
  <2> QED BY <1>3, <2>2, <2>3, <2>4, <2>5
<1>4. ASSUME NEW kind, NEW who, NEW body, NEW base, NEW touched,
             Request(kind, who, body, base, touched)
      PROVE  Tracked'
  <2> DEFINE f == CHOOSE free \in Edits : edits[free] = NoEdit
  <2>1. /\ f \in Edits /\ edits[f] = NoEdit
        /\ UNCHANGED <<loads, table, sound, rows, dirty>>
        /\ \A e \in Edits : e # f => edits'[e] = edits[e]
    BY <1>4 DEF Request, Inv, EditsInv
  <2> HIDE DEF f
  <2>2. edits[f].at = "off"
    BY <2>1, Constants
  <2> QED BY <2>1, <2>2, EditsTrack
<1>5. ASSUME NEW permission, NEW amount, VisitSettings(permission, amount)
      PROVE  Tracked'
  <2> DEFINE l == Sent(New)
  <2>1. loads' = <<l>> /\ l.at = "sent" /\ l.late = FALSE /\ l.for = New
    BY <1>5 DEF VisitSettings, Sent
  <2> HIDE DEF l
  <2>2. Len(loads') = 1 /\ DOMAIN loads' = {1} /\ loads'[1] = l /\ loads' # <<>>
    BY <2>1
  <2>3. ~Passed(l) /\ ~LastPassed(loads')
    BY <2>1, <2>2 DEF Passed, LastPassed
  <2>4. Ordered(loads') /\ Waiting(loads', edits')
    BY <2>1, <2>2 DEF Ordered, Waiting
  <2>5. Newest(loads', edits', rows', table'.rows, sound', dirty')
    BY <2>1, <2>2, <2>3 DEF Newest
  <2> QED BY <2>4, <2>5 DEF Tracked
<1>6. ASSUME NEW i \in Ids, NEW row, Foreign(i, row) PROVE Tracked'
  <2>1. dirty' /\ UNCHANGED <<loads, edits>>
    BY <1>6 DEF Foreign
  <2> QED BY <2>1 DEF Tracked, Newest
<1>7. CASE Answered
  BY <1>2, <1>3, <1>7 DEF Answered
<1>8. CASE User
  <2>1. ASSUME NEW who, OpenDialog(who) PROVE UNCHANGED <<loads, edits, rows, table, sound, dirty>>
    BY <2>1 DEF OpenDialog
  <2>2. ASSUME NEW permission, NEW amount, NEW disabled, Type(permission, amount, disabled)
        PROVE  UNCHANGED <<loads, edits, rows, table, sound, dirty>>
    BY <2>2 DEF Type
  <2>3. CASE CloseDialog
    BY <1>1, <2>3 DEF CloseDialog
  <2>4. CASE Save
    BY <1>4, <2>4 DEF Save
  <2>5. ASSUME NEW i, Toggle(i) \/ Remove(i) PROVE Tracked'
    BY <1>4, <2>5 DEF Toggle, Remove
  <2> QED BY <1>1, <1>5, <1>8, <2>1, <2>2, <2>3, <2>4, <2>5 DEF User
<1>9. CASE Elsewhere
  BY <1>6, <1>9 DEF Elsewhere
<1>10. CASE UNCHANGED vars
  BY <1>1, <1>10 DEF vars
<1> QED BY <1>7, <1>8, <1>9, <1>10 DEF Next

\* At rest, the table shows the rows of the server, if the answers came in the order of
\* the requests and nobody else changed a row (load, save, toggleUser and removeUser of
\* UsersView.vue).
THEOREM TableAlwaysCurrent == Spec => []TableCurrent
<1>1. Tracked => TableCurrent
  <2> SUFFICES ASSUME Tracked, AtRest, sound, ~dirty PROVE table.rows = rows
    BY DEF TableCurrent
  <2>1. LastPassed(loads) /\ \A e \in Edits : edits[e].at # "done"
    BY Constants DEF AtRest, LastPassed
  <2> QED BY <2>1 DEF Tracked, Newest
<1>2. Spec => []Tracked
  BY Invariant, TrackedInit, TrackedStep, PTL DEF Spec
<1> QED BY <1>1, <1>2, PTL

=============================================================================
