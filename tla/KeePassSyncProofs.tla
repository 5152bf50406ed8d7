-------------------------- MODULE KeePassSyncProofs ---------------------------
(* The file never holds two entries of one item, no publication replaces a   *)
(* text of another device unseen, and no recovery takes back a newer edit,   *)
(* for every set of items and group operations and every bound.              *)
EXTENDS KeePassSync, FiniteSetTheorems, WellFoundedInduction, TLAPS

Known   == {it \in Item : it = NoItem \/ it.text # 0}
Clashes == {NoClash} \cup [known : {TRUE}, copy : Known]
Content == {c \in [text : Texts, bin : BOOLEAN] : c = Absent \/ c.text # 0}
Sound   == [entry : [Entries -> Content], groups : SUBSET Ops]
Verbs   == {"create", "update", "delete"}
Row     == [id : Nat, verb : Verbs, restore : BOOLEAN, committed : BOOLEAN,
            text : Texts, entry : 0..MaxEntries]
Intent  == [id : Nat, verb : Verbs, restore : BOOLEAN]
Maps(R) == UNION {[S -> R] : S \in SUBSET Items}
Receipt == [rows : Maps(Row), snap : [Items -> Known], clash : [Items -> Clashes]]
Round(phases, R) ==
  [at : phases, snap : [Items -> Known], rows : Maps(R), result : [Items -> Known],
   clash : [Items -> Clashes], deferred : SUBSET Items]
\* Before the batch is written, and in a recovery; and from the writing on.
Reading == {"recover", "settle", "settled", "recovered", "read", "probe", "checked"}
Writing == {"written", "stored", "published", "applied"}

Typed ==
  /\ item \in [Items -> Known] /\ queue \in [Items -> Nat] /\ restoring \subseteq Items
  /\ conflict \in [Items -> Clashes]
  /\ remote \in Sound
  /\ record \in [base : Sound, working : Sound, dirty : BOOLEAN, current : BOOLEAN]
  /\ receipt \in {NoReceipt} \cup Receipt
  /\ receipts \subseteq Ops /\ pending \subseteq Ops /\ busy \in Ops \cup {NoOp}
  /\ session \in {Closed} \cup [open : {TRUE}, file : Sound]
  /\ sync \in {NoSync} \cup Round(Reading, Intent) \cup Round(Writing, Row)
  /\ origin \in [Entries -> Items \cup {NoOp}]
  /\ unseen \subseteq Texts
  /\ edits \in 0..MaxEdits /\ remotes \in 0..MaxRemote /\ faults \in 0..MaxFaults

(* Whatever is remembered of an item refers to an entry that was made for it. *)
Its(owner, i, it)      == it.entry # 0 => owner[it.entry] = i
ItsClash(owner, i, c)  == c # NoClash => Its(owner, i, c.copy)
Owned ==
  /\ \A i \in Items : Its(origin, i, item[i]) /\ ItsClash(origin, i, conflict[i])
  /\ receipt # NoReceipt => \A i \in Items : /\ Its(origin, i, receipt.snap[i])
                                             /\ ItsClash(origin, i, receipt.clash[i])
  /\ \A i \in DOMAIN receipt.rows : Its(origin, i, receipt.rows[i])
  /\ sync # NoSync => \A i \in Items : /\ Its(origin, i, sync.snap[i])
                                       /\ Its(origin, i, sync.result[i])
                                       /\ ItsClash(origin, i, sync.clash[i])
  /\ sync.at \in Writing => \A i \in DOMAIN sync.rows : Its(origin, i, sync.rows[i])

(* A synchronization has the database open and the source for itself; it has *)
(* a receipt while it recovers, none before it stores one, and that one      *)
(* until it is applied.                                                      *)
Staged ==
  /\ sync # NoSync => session # Closed /\ busy = NoOp
  /\ busy # NoOp => session # Closed
  /\ sync.at \in {"read", "probe", "checked", "written"} => receipt = NoReceipt
  /\ sync.at \in {"recover", "settle", "settled"} => receipt # NoReceipt
  /\ sync.at \in {"stored", "published"} /\ receipt # NoReceipt
       => receipt.rows = sync.rows /\ receipt.snap = sync.snap

Present(file, e) == file.entry[e] # Absent

(* The open database is the working copy, but for the batch that was just     *)
(* written; the server and the base have no entry that the working copy lacks. *)
Copied ==
  /\ session # Closed /\ sync.at # "written" => session.file.entry = record.working.entry
  /\ sync.at = "written" => \A e \in Entries : Present(record.working, e) => Present(session.file, e)
  /\ sync.at = "written" /\ Committed(sync.rows) = {} => session.file.entry = record.working.entry
  /\ \A e \in Entries : Present(remote, e) \/ Present(record.base, e) => Present(record.working, e)

(* The database and the working copy hold at most one entry of an item. *)
Single(owner, file) == \A e, f \in Entries :
  owner[e] \in Items /\ owner[e] = owner[f] /\ Present(file, e) /\ Present(file, f) => e = f
Singles ==
  /\ Single(origin, record.working)
  /\ sync.at = "written" => Single(origin, session.file)

(* What refers to an item of the working copy refers to its entry, unless a   *)
(* receipt says that the entry was made for an item that has no link yet.     *)
Held(i, e)    == origin[e] = i /\ Present(record.working, e)
Names(it, e)  == it = NoItem \/ it.entry = e
Shows(c, e)   == c = NoClash \/ c.copy.entry = e
Carried(i, e) == i \in Committed(receipt.rows) /\ receipt.rows[i].entry = e
                   /\ receipt.snap[i].entry = 0
Linkage(i, e) ==
  /\ Names(item[i], e) \/ Carried(i, e)
  /\ Shows(conflict[i], e) \/ Carried(i, e)
  /\ receipt # NoReceipt => Shows(receipt.clash[i], e)
  /\ queue[i] # 0 => item[i] # NoItem
  /\ i \in Committed(receipt.rows) => receipt.rows[i].entry = e /\ receipt.snap[i] # NoItem
  /\ sync.at \in {"probe", "checked", "settle", "settled"}
       => Names(sync.snap[i], e) \/ Carried(i, e)
  /\ sync.at \in {"settle", "settled"} /\ i \in DOMAIN sync.rows => sync.snap[i] # NoItem
  /\ sync.at \in {"applied", "recovered"} => Names(item[i], e) /\ Shows(conflict[i], e)
  /\ sync.at \in {"stored", "published"} => sync.result[i].entry = e /\ Shows(sync.clash[i], e)
Named == \A i \in Items, e \in Entries : Held(i, e) => Linkage(i, e)

(* The same of the batch that was just written. *)
Wrote == sync.at = "written" => \A i \in Items, e \in Entries :
  origin[e] = i /\ Present(session.file, e) =>
    /\ sync.result[i].entry = e /\ Shows(sync.clash[i], e)
    /\ queue[i] # 0 => item[i] # NoItem
    /\ i \in Committed(sync.rows) => sync.rows[i].entry = e /\ sync.snap[i] # NoItem
    /\ Present(record.working, e)
         \/ (i \in Committed(sync.rows) /\ sync.rows[i].entry = e /\ sync.snap[i].entry = 0)

Ind == Typed /\ Owned /\ Staged /\ Copied /\ Singles /\ Named /\ Wrote
-----------------------------------------------------------------------------
LEMMA MapsIn ==
  ASSUME NEW R, NEW S \in SUBSET Items, NEW f \in [S -> R]
  PROVE  f \in Maps(R)
BY DEF Maps

LEMMA MapsOut ==
  ASSUME NEW R, NEW f \in Maps(R)
  PROVE  DOMAIN f \subseteq Items /\ \A i \in DOMAIN f : f[i] \in R
BY DEF Maps

(* A finite set of numbers has a greatest one. *)
LEMMA GreatestIsIn ==
  ASSUME NEW T \in SUBSET Nat, IsFiniteSet(T), T # {}
  PROVE  Max(T) \in T /\ \A y \in T : y <= Max(T)
<1> DEFINE Above(x) == {y \in T : x < y}
           All == {Above(x) : x \in T}
<1>1. All \subseteq FiniteSubsetsOf(T) /\ All # {}
  <2>1. \A x \in T : Above(x) \in SUBSET T /\ IsFiniteSet(Above(x))
    BY FS_Subset
  <2>2. \A x \in T : Above(x) \in FiniteSubsetsOf(T)
    <3> HIDE DEF Above
    <3> QED BY <2>1 DEF FiniteSubsetsOf
  <2> QED BY <2>2
<1>2. PICK X \in All : \A Y \in All : ~ (<<Y, X>> \in StrictSubsetOrdering(T))
  <2> HIDE DEF All
  <2> QED BY <1>1, FS_StrictSubsetOrderingWellFounded, WFMin
<1>3. PICK x \in T : X = Above(x)
  BY <1>2
<1>4. ASSUME NEW y \in T, x < y
      PROVE  FALSE
  <2>1. y \in Above(x) /\ y \notin Above(y)
    BY <1>4
  <2>3. \A z \in T : y < z => x < z
    BY <1>4
  <2>4. Above(y) \subseteq Above(x) /\ Above(y) # Above(x)
    BY <2>1, <2>3
  <2>2. <<Above(y), X>> \in StrictSubsetOrdering(T)
    BY <2>4, <1>3, <1>1 DEF StrictSubsetOrdering
  <2> QED BY <2>2, <1>2
<1>5. \A y \in T : y <= x
  BY <1>4
<1> QED BY <1>5 DEF Max

LEMMA InjectionExists ==
  ASSUME NEW S, NEW T, IsFiniteSet(S), IsFiniteSet(T), Cardinality(S) <= Cardinality(T)
  PROVE  \E f \in [S -> T] : \A s, t \in S : f[s] = f[t] => s = t
<1>1. PICK g \in Bijection(1..Cardinality(S), S) : TRUE
  BY FS_CardinalityType DEF ExistsBijection
<1>2. PICK h \in Bijection(1..Cardinality(T), T) : TRUE
  BY FS_CardinalityType DEF ExistsBijection
<1>3. Cardinality(S) \in Nat /\ Cardinality(T) \in Nat
  BY FS_CardinalityType
<1> DEFINE at(s) == CHOOSE i \in 1..Cardinality(S) : g[i] = s
           f == [s \in S |-> h[at(s)]]
<1>4. \A s \in S : at(s) \in 1..Cardinality(S) /\ g[at(s)] = s
  BY DEF Bijection, Surjection
<1>5. \A i, j \in 1..Cardinality(T) : h[i] \in T /\ (h[i] = h[j] => i = j)
  BY DEF Bijection, Injection, IsInjective
<1>6. \A s \in S : at(s) \in 1..Cardinality(T)
  BY <1>3, <1>4
<1>7. f \in [S -> T]
  BY <1>5, <1>6
<1>8. \A s, t \in S : f[s] = f[t] => s = t
  BY <1>4, <1>5, <1>6
<1> QED BY <1>7, <1>8

(* The numbers of a finite map are finitely many. *)
LEMMA ImageFinite ==
  ASSUME NEW S, IsFiniteSet(S), NEW T, NEW f \in [S -> T]
  PROVE  IsFiniteSet({f[s] : s \in S})
<1> DEFINE U == {f[s] : s \in S}
<1>1. f \in Surjection(S, U)
  BY DEF Surjection
<1> QED BY <1>1, FS_Surjection

LEMMA SizeType == Cardinality(Items) \in Nat /\ 0 \in Texts
BY ItemsAssumption, BoundsAssumption, FS_CardinalityType DEF Texts

LEMMA ReceiptRows ==
  ASSUME Typed
  PROVE  /\ DOMAIN receipt.rows \subseteq Items
         /\ \A i \in DOMAIN receipt.rows : receipt.rows[i] \in Row
         /\ receipt # NoReceipt => receipt \in Receipt
<1>1. CASE receipt = NoReceipt
  BY <1>1 DEF NoReceipt, NoRows
<1>2. CASE receipt # NoReceipt
  <2>1. receipt \in Receipt
    BY <1>2 DEF Typed
  <2>2. receipt.rows \in Maps(Row)
    BY <2>1 DEF Receipt
  <2> QED BY <2>1, <2>2, MapsOut
<1> QED BY <1>1, <1>2

LEMMA SyncRows ==
  ASSUME Typed, sync # NoSync
  PROVE  /\ DOMAIN sync.rows \subseteq Items
         /\ \A i \in DOMAIN sync.rows : sync.rows[i].id \in Nat
         /\ sync \in Round(Reading, Intent) => \A i \in DOMAIN sync.rows : sync.rows[i] \in Intent
         /\ sync \in Round(Writing, Row) => \A i \in DOMAIN sync.rows : sync.rows[i] \in Row
<1>1. ASSUME sync \in Round(Reading, Intent)
      PROVE  DOMAIN sync.rows \subseteq Items /\ \A i \in DOMAIN sync.rows : sync.rows[i] \in Intent
  <2>1. sync.rows \in Maps(Intent)
    BY <1>1 DEF Round
  <2> QED BY <2>1, MapsOut
<1>2. ASSUME sync \in Round(Writing, Row)
      PROVE  DOMAIN sync.rows \subseteq Items /\ \A i \in DOMAIN sync.rows : sync.rows[i] \in Row
  <2>1. sync.rows \in Maps(Row)
    BY <1>2 DEF Round
  <2> QED BY <2>1, MapsOut
<1>3. sync \in Round(Reading, Intent) \/ sync \in Round(Writing, Row)
  BY DEF Typed
<1>4. \A r \in Row \cup Intent : r.id \in Nat
  BY DEF Row, Intent
<1> QED BY <1>1, <1>2, <1>3, <1>4

LEMMA FreshIdType == ASSUME Typed, Items # {} PROVE FreshId \in Nat \ {0}
<1>1. DOMAIN receipt.rows \subseteq Items /\ \A i \in DOMAIN receipt.rows : receipt.rows[i].id \in Nat
  BY ReceiptRows DEF Row
<1>2. sync # NoSync => /\ DOMAIN sync.rows \subseteq Items
                       /\ \A i \in DOMAIN sync.rows : sync.rows[i].id \in Nat
  BY SyncRows
<1> DEFINE A == {queue[i] : i \in Items}
           B == {receipt.rows[i].id : i \in DOMAIN receipt.rows}
           C == IF sync = NoSync THEN {} ELSE {sync.rows[i].id : i \in DOMAIN sync.rows}
<1>3. IsFiniteSet(A) /\ A \subseteq Nat /\ A # {}
  <2>1. queue \in [Items -> Nat]
    BY DEF Typed
  <2>2. IsFiniteSet({queue[i] : i \in Items})
    BY <2>1, ItemsAssumption, ImageFinite
  <2> QED BY <2>1, <2>2
<1>4. IsFiniteSet(B) /\ B \subseteq Nat
  <2> DEFINE f == [i \in DOMAIN receipt.rows |-> receipt.rows[i].id]
  <2>1. f \in [DOMAIN receipt.rows -> Nat] /\ IsFiniteSet(DOMAIN receipt.rows)
    BY <1>1, ItemsAssumption, FS_Subset
  <2>2. B = {f[i] : i \in DOMAIN receipt.rows}
    OBVIOUS
  <2> HIDE DEF f
  <2>3. IsFiniteSet({f[i] : i \in DOMAIN receipt.rows})
    BY <2>1, ImageFinite
  <2> QED BY <1>1, <2>2, <2>3
<1>5. IsFiniteSet(C) /\ C \subseteq Nat
  <2> DEFINE f == [i \in DOMAIN sync.rows |-> sync.rows[i].id]
  <2>1. CASE sync = NoSync
    BY <2>1, FS_EmptySet
  <2>2. CASE sync # NoSync
    <3>1. f \in [DOMAIN sync.rows -> Nat] /\ IsFiniteSet(DOMAIN sync.rows)
      BY <1>2, <2>2, ItemsAssumption, FS_Subset
    <3>2. C = {f[i] : i \in DOMAIN sync.rows}
      BY <2>2
    <3> HIDE DEF f
    <3>3. IsFiniteSet({f[i] : i \in DOMAIN sync.rows})
      BY <3>1, ImageFinite
    <3> QED BY <1>2, <2>2, <3>2, <3>3
  <2> QED BY <2>1, <2>2
<1>6. IdsInUse = A \cup B \cup C
  BY DEF IdsInUse
<1> HIDE DEF A, B, C
<1>7. IsFiniteSet(IdsInUse) /\ IdsInUse \subseteq Nat /\ IdsInUse # {}
  BY <1>3, <1>4, <1>5, <1>6, FS_Union
<1>8. Max(IdsInUse) \in Nat
  BY <1>7, GreatestIsIn
<1> QED BY <1>8 DEF FreshId

LEMMA VerdictOfLinkedKinds ==
  ASSUME NEW local, NEW there, NEW given \in BOOLEAN, NEW restore \in BOOLEAN, restore => given,
         local.bin \in BOOLEAN, there.bin \in BOOLEAN
  PROVE  /\ VerdictOfLinked(local, there, given, restore)
              \in {"keep", "take", "clash", "restore", "delete", "update"}
         /\ VerdictOfLinked(local, there, given, restore) \in {"restore", "delete", "update"}
              => there # Absent /\ given
BY DEF VerdictOfLinked, LocallyChanged, RemotelyChanged

-----------------------------------------------------------------------------
(* What the vault holds of an item, and what the file gives for it. *)
LEMMA KnownFacts ==
  /\ NoItem \in Known /\ NoItem.entry = 0
  /\ \A it \in Known : /\ it.entry \in 0..MaxEntries /\ it.text \in Texts
                       /\ it.bin \in BOOLEAN
                       /\ it.text # 0 => it # NoItem
                       /\ it # NoItem => it.text # 0
                       /\ it.entry # 0 => it # NoItem
BY SizeType, BoundsAssumption DEF Known, Item, NoItem

LEMMA ContentFacts ==
  /\ Absent \in Content
  /\ \A c \in Content : /\ c.text \in Texts /\ c.bin \in BOOLEAN
                        /\ (c.text = 0) <=> (c = Absent)
BY SizeType DEF Content, Absent

LEMMA CopyFacts ==
  ASSUME NEW e \in Entries, NEW there \in Content
  PROVE  /\ Copy(e, there) \in Known /\ Finalized(e, there) \in Known
         /\ there # Absent => Copy(e, there).entry = e /\ Finalized(e, there).entry = e
         /\ there = Absent => Copy(e, there) = NoItem /\ Finalized(e, there) = NoItem
<1>0. there.text \in Texts /\ there.bin \in BOOLEAN /\ e \in 0..MaxEntries /\ 0 \in 0..MaxEdits
  BY SizeType, BoundsAssumption DEF Content, Entries
<1>1. CASE there = Absent
  <2>1. Copy(e, there) = NoItem
    BY <1>1 DEF Copy
  <2>2. Finalized(e, there) = NoItem
    <3>1. Finalized(e, there) = [NoItem EXCEPT !.etag = 0, !.from = FALSE]
      BY <1>1, <2>1 DEF Finalized, Absent
    <3> QED BY <3>1 DEF NoItem
  <2> QED BY <1>1, <2>1, <2>2, KnownFacts
<1>2. CASE there # Absent
  <2>1. there.text # 0
    BY <1>2 DEF Content
  <2>2. Copy(e, there) = [text |-> there.text, bin |-> there.bin, place |-> there.bin,
          stamp |-> 0, entry |-> e, etag |-> 0, from |-> FALSE, foreign |-> FALSE]
    BY <1>2 DEF Copy, NoItem
  <2>3. Copy(e, there) \in Known
    BY <1>0, <2>1, <2>2, SizeType DEF Known, Item
  <2>4. ASSUME NEW c \in Item, NEW t \in Texts, NEW b \in BOOLEAN
        PROVE  /\ [c EXCEPT !.etag = t, !.from = b] \in Item
               /\ [c EXCEPT !.etag = t, !.from = b].entry = c.entry
               /\ [c EXCEPT !.etag = t, !.from = b].text = c.text
    BY DEF Item
  <2>5. Finalized(e, there) \in Item /\ Finalized(e, there).entry = e
          /\ Finalized(e, there).text = there.text
    <3>1. Copy(e, there).entry = e /\ Copy(e, there).text = there.text
      BY <2>2
    <3>2. Copy(e, there) \in Item
      BY <2>3 DEF Known
    <3> QED BY <1>0, <2>4, <3>1, <3>2 DEF Finalized
  <2> QED BY <1>2, <2>1, <2>2, <2>3, <2>5 DEF Known
<1> QED BY <1>1, <1>2

(* An item read from a file is of the vault's type and names an entry made   *)
(* for it; it names the one that the file has, if it is not linked elsewhere. *)
LEMMA ProjectedFacts ==
  ASSUME NEW identities \in [Items -> Known], NEW owner \in [Entries -> Items \cup {NoOp}],
         NEW file \in Sound, NEW i \in Items, Its(owner, i, identities[i])
  PROVE  /\ Projected(i, identities, owner, file) \in Known
         /\ Its(owner, i, Projected(i, identities, owner, file))
         /\ \A e \in Entries :
              owner[e] = i /\ Present(file, e) /\ Single(owner, file) /\ Names(identities[i], e)
                => Projected(i, identities, owner, file).entry = e
<1> DEFINE mine == {e \in Entries : owner[e] = i /\ file.entry[e] # Absent}
           x    == EntryFor(i, identities, owner, file)
<1>1. identities[i] \in Known
  OBVIOUS
<1>2. IsFiniteSet(mine) /\ mine \in SUBSET Nat
  <2>1. mine \in SUBSET Nat /\ \A s \in mine : s <= MaxEntries
    BY BoundsAssumption DEF Entries
  <2> HIDE DEF mine
  <2> QED BY <2>1, FS_BoundedSetOfNaturals, BoundsAssumption
<1>3. mine # {} => Max(mine) \in mine
  BY <1>2, GreatestIsIn
<1>4. /\ x = 0 \/ (x \in Entries /\ owner[x] = i)
      /\ identities[i].entry # 0 => x = identities[i].entry
      /\ identities[i] = NoItem /\ mine # {} => x \in mine
  <2>1. CASE identities[i].entry # 0
    BY <1>1, <2>1, KnownFacts DEF EntryFor, Its, Entries
  <2>2. CASE identities[i].entry = 0 /\ identities[i] # NoItem
    BY <2>2 DEF EntryFor
  <2>3. CASE identities[i].entry = 0 /\ identities[i] = NoItem
    <3>1. x = IF mine = {} THEN 0 ELSE Max(mine)
      BY <2>3 DEF EntryFor
    <3> HIDE DEF x
    <3> QED BY <1>3, <2>3, <3>1
  <2> QED BY <2>1, <2>2, <2>3
<1>5. Projected(i, identities, owner, file) = IF x = 0 THEN NoItem ELSE Finalized(x, file.entry[x])
  BY DEF Projected
<1>6. \A f \in Entries : file.entry[f] \in Content
  BY DEF Sound
<1>7. Projected(i, identities, owner, file) \in Known /\ Its(owner, i, Projected(i, identities, owner, file))
  <2> HIDE DEF x
  <2>1. CASE x = 0
    BY <1>5, <2>1, KnownFacts DEF Its
  <2>2. CASE x # 0
    <3>1. x \in Entries /\ owner[x] = i
      BY <1>4, <2>2
    <3>2. Finalized(x, file.entry[x]) \in Known /\ Finalized(x, file.entry[x]).entry \in {0, x}
      BY <1>6, <3>1, CopyFacts, KnownFacts
    <3> QED BY <1>5, <2>2, <3>1, <3>2 DEF Its
  <2> QED BY <2>1, <2>2
<1>8. ASSUME NEW e \in Entries, owner[e] = i, Present(file, e), Single(owner, file), Names(identities[i], e)
      PROVE  Projected(i, identities, owner, file).entry = e
  <2>1. e \in mine /\ e # 0
    BY <1>8 DEF Present, Entries
  <2>2. x = e
    <3>1. CASE identities[i] = NoItem
      <4>1. x \in mine
        BY <1>4, <2>1, <3>1
      <4> HIDE DEF x
      <4> QED BY <1>8, <2>1, <4>1 DEF Single, Present
    <3>2. CASE identities[i] # NoItem
      BY <1>4, <1>8, <2>1, <3>2 DEF Names
    <3> QED BY <3>1, <3>2
  <2> HIDE DEF x
  <2>3. Finalized(e, file.entry[e]).entry = e
    BY <1>6, <1>8, CopyFacts DEF Present
  <2> QED BY <1>5, <2>1, <2>2, <2>3
<1> QED BY <1>7, <1>8
-----------------------------------------------------------------------------
(* What the adapter decides of an item, and what the batch does to the file. *)
LEMMA VerdictFacts ==
  ASSUME NEW snap \in [Items -> Known], NEW given \in SUBSET Items, NEW file \in Sound,
         NEW i \in Items
  PROVE  LET v == Verdict(i, snap, given, file)
         IN /\ v \in {"keep", "take", "clash", "restore", "delete", "update", "create", "defer"}
            /\ v = "create" => /\ i \in given /\ snap[i] # NoItem
                               /\ snap[i].entry = 0 /\ ~snap[i].bin
            /\ v \in {"restore", "delete", "update"} =>
                 i \in given /\ snap[i].entry # 0 /\ Present(file, snap[i].entry)
            /\ v \in {"keep", "clash"} => snap[i].entry # 0
            /\ v = "defer" => snap[i] # NoItem /\ snap[i].entry = 0
<1> DEFINE v == Verdict(i, snap, given, file)
<1>1. snap[i] \in Known
  OBVIOUS
<1>2. CASE snap[i] = NoItem
  <2>1. v = "take"
    BY <1>2 DEF Verdict
  <2> QED BY <2>1
<1>3. CASE snap[i] # NoItem /\ snap[i].entry # 0
  <2> DEFINE there == file.entry[snap[i].entry]
  <2>1. v = VerdictOfLinked(snap[i], there, i \in given, i \in given \cap restoring)
    BY <1>3 DEF Verdict
  <2>2. there \in Content /\ there.bin \in BOOLEAN /\ snap[i].bin \in BOOLEAN
    <3>1. snap[i].entry \in Entries
      BY <1>1, <1>3, KnownFacts DEF Entries
    <3>2. there \in Content
      BY <3>1 DEF Sound
    <3> QED BY <1>1, <3>2, KnownFacts, ContentFacts
  <2>3. /\ v \in {"keep", "take", "clash", "restore", "delete", "update"}
        /\ v \in {"restore", "delete", "update"} => there # Absent /\ i \in given
    <3> HIDE DEF v, there
    <3>1. (i \in given) \in BOOLEAN /\ (i \in given \cap restoring) \in BOOLEAN
            /\ ((i \in given \cap restoring) => (i \in given))
      OBVIOUS
    <3> QED BY <2>1, <2>2, <3>1, VerdictOfLinkedKinds
  <2>4. v # "create" /\ v # "defer"
    BY <2>3
  <2> QED BY <1>3, <2>3, <2>4 DEF Present
<1>4. CASE snap[i] # NoItem /\ snap[i].entry = 0
  <2>1. v = IF snap[i].bin THEN "take" ELSE IF i \in given THEN "create" ELSE "defer"
    BY <1>4 DEF Verdict
  <2>2. \/ v = "take" \/ v = "defer"
        \/ v = "create" /\ i \in given /\ ~snap[i].bin
    BY <2>1
  <2> QED BY <1>4, <2>2
<1> QED BY <1>2, <1>3, <1>4

LEMMA OutcomeFile ==
  ASSUME NEW snap \in [Items -> Known], NEW given \in SUBSET Items, NEW file \in Sound,
         NEW made, NEW owner
  PROVE  LET after == Outcome(snap, given, made, owner, file).file
         IN /\ after \in Sound /\ after.groups = file.groups
            /\ \A e \in Entries : Present(file, e) => Present(after, e)
            /\ \A e \in Entries : Present(after, e) /\ ~Present(file, e) =>
                 \E i \in Items : Verdict(i, snap, given, file) = "create" /\ made[i] = e
            /\ (\A i \in Items : Verdict(i, snap, given, file) \in {"keep", "take", "clash", "defer"})
                 => after.entry = file.entry
<1> DEFINE verdict == [i \in Items |-> Verdict(i, snap, given, file)]
           entry(i) == IF verdict[i] = "create" THEN made[i] ELSE snap[i].entry
           by(e) == {i \in Items : entry(i) = e /\ verdict[i] \in {"create", "update", "restore"}}
           gone(e) == {i \in Items : entry(i) = e /\ verdict[i] = "delete"}
           written(e, was) ==
             IF by(e) # {} THEN [text |-> snap[CHOOSE i \in by(e) : TRUE].text, bin |-> FALSE]
             ELSE IF gone(e) # {} THEN [was EXCEPT !.bin = TRUE] ELSE was
           after == [file EXCEPT !.entry = [e \in Entries |-> written(e, file.entry[e])]]
<1>1. Outcome(snap, given, made, owner, file).file = after
  BY DEF Outcome
<1>2. ASSUME NEW e \in Entries
      PROVE  /\ written(e, file.entry[e]) \in Content
             /\ file.entry[e] # Absent => written(e, file.entry[e]) # Absent
             /\ file.entry[e] = Absent /\ written(e, file.entry[e]) # Absent
                  => \E i \in Items : verdict[i] = "create" /\ made[i] = e
  <2> DEFINE was == file.entry[e]
             w == written(e, was)
  <2>1. was \in Content
    BY DEF Sound
  <2>2. CASE by(e) # {}
    <3> DEFINE j == CHOOSE i \in by(e) : TRUE
    <3>1. j \in by(e)
      BY <2>2
    <3>2. w = [text |-> snap[j].text, bin |-> FALSE]
      BY <2>2
    <3>3. j \in Items /\ entry(j) = e /\ verdict[j] \in {"create", "update", "restore"}
      BY <3>1
    <3> HIDE DEF j, w, was
    <3>4. snap[j] # NoItem
      BY <3>3, VerdictFacts, KnownFacts
    <3>5. snap[j].text \in Texts /\ snap[j].text # 0
      BY <3>3, <3>4, KnownFacts
    <3>6. w \in Content /\ w # Absent
      BY <3>2, <3>5 DEF Content, Absent
    <3>7. ASSUME was = Absent PROVE verdict[j] = "create"
      <4> SUFFICES ASSUME verdict[j] # "create" PROVE FALSE
        OBVIOUS
      <4>1. snap[j].entry = e /\ verdict[j] \in {"restore", "delete", "update"}
        BY <3>3
      <4>2. Present(file, e)
        BY <3>3, <4>1, VerdictFacts
      <4> QED BY <3>7, <4>2 DEF Present, was
    <3>8. w \in Content /\ w # Absent /\ (was = Absent => \E i \in Items : verdict[i] = "create" /\ made[i] = e)
      BY <3>3, <3>6, <3>7
    <3> QED BY <3>8 DEF w, was
  <2>3. CASE by(e) = {} /\ gone(e) # {}
    <3>1. PICK j \in Items : entry(j) = e /\ verdict[j] = "delete"
      BY <2>3
    <3>2. w = [was EXCEPT !.bin = TRUE]
      BY <2>3
    <3>3. snap[j].entry = e
      BY <3>1
    <3>4. was # Absent
      BY <3>1, <3>3, VerdictFacts DEF Present
    <3> HIDE DEF w, was
    <3>5. w \in Content /\ w # Absent
      BY <2>1, <3>2, <3>4 DEF Content, Absent
    <3>6. w \in Content /\ w # Absent /\ was # Absent
      BY <3>4, <3>5
    <3> QED BY <3>6 DEF w, was
  <2>4. CASE by(e) = {} /\ gone(e) = {}
    <3>1. w = was
      BY <2>4
    <3> QED BY <2>1, <3>1
  <2> QED BY <2>2, <2>3, <2>4
<1>3. verdict = [i \in Items |-> Verdict(i, snap, given, file)]
  OBVIOUS
<1> HIDE DEF written, verdict
<1>4. after \in Sound /\ after.groups = file.groups
        /\ \A e \in Entries : after.entry[e] = written(e, file.entry[e])
  <2> DEFINE g == [e \in Entries |-> written(e, file.entry[e])]
  <2>1. g \in [Entries -> Content]
    BY <1>2
  <2>2. \A e \in Entries : g[e] = written(e, file.entry[e])
    OBVIOUS
  <2> HIDE DEF g
  <2>3. [file EXCEPT !.entry = g] \in Sound /\ [file EXCEPT !.entry = g].groups = file.groups
          /\ [file EXCEPT !.entry = g].entry = g
    BY <2>1 DEF Sound
  <2> QED BY <2>2, <2>3 DEF g
<1>6. ASSUME \A i \in Items : verdict[i] \in {"keep", "take", "clash", "defer"}
      PROVE  after.entry = file.entry
  <2>1. \A e \in Entries : written(e, file.entry[e]) = file.entry[e]
    BY <1>6 DEF written
  <2>2. after.entry \in [Entries -> Content] /\ file.entry \in [Entries -> Content]
    BY <1>4 DEF Sound
  <2> HIDE DEF after
  <2> QED BY <1>4, <2>1, <2>2
<1> HIDE DEF after
<1>5. /\ \A e \in Entries : Present(file, e) => Present(after, e)
      /\ \A e \in Entries : Present(after, e) /\ ~Present(file, e) =>
           \E i \in Items : Verdict(i, snap, given, file) = "create" /\ made[i] = e
  BY <1>2, <1>3, <1>4 DEF Present
<1>7. (\A i \in Items : Verdict(i, snap, given, file) \in {"keep", "take", "clash", "defer"})
        => after.entry = file.entry
  BY <1>3, <1>6
<1> QED BY <1>1, <1>4, <1>5, <1>7

LEMMA RelinkedFacts ==
  ASSUME NEW it \in Known, NEW n \in 0..MaxEntries
  PROVE  /\ [it EXCEPT !.entry = n].entry = n /\ [it EXCEPT !.entry = n].text = it.text
         /\ it # NoItem => [it EXCEPT !.entry = n] \in Known /\ [it EXCEPT !.entry = n] # NoItem
         /\ it = NoItem /\ n = 0 => [it EXCEPT !.entry = n] = NoItem
<1>1. /\ [it EXCEPT !.entry = n] \in Item
      /\ [it EXCEPT !.entry = n].entry = n /\ [it EXCEPT !.entry = n].text = it.text
  BY DEF Known, Item
<1>2. it # NoItem => [it EXCEPT !.entry = n] \in Known /\ [it EXCEPT !.entry = n] # NoItem
  <2> SUFFICES ASSUME it # NoItem
               PROVE  [it EXCEPT !.entry = n] \in Known /\ [it EXCEPT !.entry = n] # NoItem
    OBVIOUS
  <2>1. it.text # 0
    BY KnownFacts
  <2>2. NoItem.text = 0
    BY DEF NoItem
  <2> QED BY <1>1, <2>1, <2>2 DEF Known
<1>3. it = NoItem /\ n = 0 => [it EXCEPT !.entry = n] = NoItem
  <2>1. [NoItem EXCEPT !.entry = 0] = NoItem
    BY DEF NoItem
  <2> QED BY <2>1
<1> QED BY <1>1, <1>2, <1>3

LEMMA OutcomeResult ==
  ASSUME NEW snap \in [Items -> Known], NEW given \in SUBSET Items, NEW file \in Sound,
         NEW made \in [Items -> 0..MaxEntries], NEW owner \in [Entries -> Items \cup {NoOp}],
         \A i \in Items : Its(owner, i, snap[i]),
         \A i \in Items : Verdict(i, snap, given, file) = "create"
                            => made[i] \in Entries /\ owner[made[i]] = i
  PROVE  LET out == Outcome(snap, given, made, owner, file)
         IN /\ out.result \in [Items -> Known] /\ out.clash \in [Items -> Clashes]
            /\ \A i \in Items : /\ Its(owner, i, out.result[i])
                                /\ ItsClash(owner, i, out.clash[i])
            /\ \A i \in Items : Verdict(i, snap, given, file) # "clash" => out.clash[i] = NoClash
            /\ \A i \in Items, e \in Entries :
                 /\ Single(owner, out.file) /\ owner[e] = i /\ Present(out.file, e)
                 /\ \/ Names(snap[i], e)
                    \/ Verdict(i, snap, given, file) = "create" /\ made[i] = e
                 => out.result[i].entry = e /\ Shows(out.clash[i], e)
<1> DEFINE out == Outcome(snap, given, made, owner, file)
           v(i) == Verdict(i, snap, given, file)
           entry(i) == IF v(i) = "create" THEN made[i] ELSE snap[i].entry
           ids(i) == [snap EXCEPT ![i].entry = entry(i)]
           result(i) == IF v(i) \in {"keep", "clash", "defer"} THEN snap[i]
                        ELSE IF snap[i] # NoItem /\ entry(i) = 0 THEN NoItem
                        ELSE Projected(i, ids(i), owner, out.file)
           clash(i) == IF v(i) # "clash" THEN NoClash
                       ELSE ClashOf(Copy(snap[i].entry, file.entry[snap[i].entry]))
<1>1. out.result = [i \in Items |-> result(i)]
  BY DEF Outcome
<1>2. out.clash = [i \in Items |-> clash(i)]
  BY DEF Outcome
<1>3. /\ out.file \in Sound
      /\ \A e \in Entries : Present(out.file, e) /\ ~Present(file, e) =>
           \E i \in Items : v(i) = "create" /\ made[i] = e
  BY OutcomeFile
<1> HIDE DEF out
<1> SUFFICES ASSUME NEW i \in Items
             PROVE  /\ result(i) \in Known /\ clash(i) \in Clashes
                    /\ Its(owner, i, result(i)) /\ ItsClash(owner, i, clash(i))
                    /\ v(i) # "clash" => clash(i) = NoClash
                    /\ \A e \in Entries :
                         /\ Single(owner, out.file) /\ owner[e] = i /\ Present(out.file, e)
                         /\ Names(snap[i], e) \/ (v(i) = "create" /\ made[i] = e)
                         => result(i).entry = e /\ Shows(clash(i), e)
  <2> HIDE DEF v, result, clash
  <2>1. \A i \in Items : out.result[i] = result(i) /\ out.clash[i] = clash(i)
    BY <1>1, <1>2
  <2> QED BY <1>1, <1>2, <2>1 DEF out, v
<1>4. /\ v(i) \in {"keep", "take", "clash", "restore", "delete", "update", "create", "defer"}
      /\ v(i) = "create" => i \in given /\ snap[i] # NoItem /\ snap[i].entry = 0 /\ ~snap[i].bin
      /\ v(i) \in {"restore", "delete", "update"} => snap[i].entry # 0
      /\ v(i) \in {"keep", "clash"} => snap[i].entry # 0
      /\ v(i) = "defer" => snap[i] # NoItem /\ snap[i].entry = 0
  BY VerdictFacts
<1>5. /\ snap[i] \in Known /\ Its(owner, i, snap[i]) /\ made[i] \in 0..MaxEntries
      /\ v(i) = "create" => made[i] \in Entries /\ owner[made[i]] = i
  OBVIOUS
<1>6. entry(i) \in 0..MaxEntries /\ (entry(i) # 0 => owner[entry(i)] = i) /\ (snap[i] = NoItem => entry(i) = 0)
  <2> HIDE DEF v
  <2> QED BY <1>4, <1>5, KnownFacts DEF Its, Entries
<1> HIDE DEF v
<1>7. ids(i) \in [Items -> Known] /\ Its(owner, i, ids(i)[i]) /\ ids(i)[i].entry = entry(i)
        /\ (snap[i] = NoItem => ids(i)[i] = NoItem)
  <2> HIDE DEF entry
  <2>1. ids(i)[i] = [snap[i] EXCEPT !.entry = entry(i)]
    OBVIOUS
  <2>2. [snap[i] EXCEPT !.entry = entry(i)] \in Known /\ [snap[i] EXCEPT !.entry = entry(i)].entry = entry(i)
        /\ (snap[i] = NoItem => [snap[i] EXCEPT !.entry = entry(i)] = NoItem)
    BY <1>5, <1>6, RelinkedFacts, KnownFacts
  <2>3. ids(i) \in [Items -> Known]
    BY <2>1, <2>2
  <2> QED BY <1>6, <2>1, <2>2, <2>3 DEF Its
<1> HIDE DEF ids
<1>8. Projected(i, ids(i), owner, out.file) \in Known /\ Its(owner, i, Projected(i, ids(i), owner, out.file))
  BY <1>3, <1>7, ProjectedFacts
<1>9. result(i) \in Known /\ Its(owner, i, result(i))
  <2> HIDE DEF entry
  <2> QED BY <1>5, <1>8, KnownFacts DEF Its
<1>10. clash(i) \in Clashes /\ ItsClash(owner, i, clash(i)) /\ (v(i) # "clash" => clash(i) = NoClash)
  <2>1. CASE v(i) # "clash"
    BY <2>1 DEF Clashes, ItsClash
  <2>2. CASE v(i) = "clash"
    <3> DEFINE x == snap[i].entry
               c == Copy(x, file.entry[x])
    <3>1. x \in Entries /\ owner[x] = i
      BY <1>4, <1>5, <2>2, KnownFacts DEF Its, Entries
    <3>2. file.entry[x] \in Content
      BY <3>1 DEF Sound
    <3>3. c \in Known /\ c.entry \in {0, x}
      BY <3>1, <3>2, CopyFacts, KnownFacts
    <3>4. clash(i) = ClashOf(c)
      BY <2>2
    <3> HIDE DEF c, clash
    <3>5. ClashOf(c) \in Clashes /\ ClashOf(c).copy = c
      BY <3>3 DEF ClashOf, Clashes
    <3> QED BY <2>2, <3>1, <3>3, <3>4, <3>5 DEF ItsClash, Its, clash
  <2> QED BY <2>1, <2>2
<1>11. ASSUME NEW e \in Entries, Single(owner, out.file), owner[e] = i, Present(out.file, e),
              Names(snap[i], e) \/ (v(i) = "create" /\ made[i] = e)
       PROVE  result(i).entry = e /\ Shows(clash(i), e)
  <2>0. e # 0
    BY DEF Entries
  <2>1. entry(i) = e \/ snap[i] = NoItem
    BY <1>4, <1>11, <2>0 DEF Names
  <2>2. Names(ids(i)[i], e)
    <3> HIDE DEF entry
    <3> QED BY <1>7, <2>1 DEF Names
  <2>3. Projected(i, ids(i), owner, out.file).entry = e
    BY <1>3, <1>7, <1>11, <2>2, ProjectedFacts
  <2>4. result(i).entry = e
    <3>1. CASE v(i) \in {"keep", "clash", "defer"}
      <4>1. snap[i] # NoItem /\ v(i) # "create"
        BY <1>4, <3>1, KnownFacts
      <4> QED BY <1>11, <3>1, <4>1 DEF Names
    <3>2. CASE v(i) \notin {"keep", "clash", "defer"}
      BY <2>0, <2>1, <2>3, <3>2
    <3> QED BY <3>1, <3>2
  <2>5. Shows(clash(i), e)
    <3>1. CASE v(i) # "clash"
      BY <3>1 DEF Shows
    <3>2. CASE v(i) = "clash"
      <4>1. snap[i].entry = e
        BY <1>4, <1>11, <3>2, KnownFacts DEF Names
      <4>2. Present(file, e)
        <5> SUFFICES ASSUME ~Present(file, e) PROVE FALSE
          OBVIOUS
        <5>1. PICK j \in Items : v(j) = "create" /\ made[j] = e
          BY <1>3, <1>11
        <5>2. owner[e] = j
          BY <5>1 DEF v
        <5> QED BY <1>11, <3>2, <5>1, <5>2
      <4>3. file.entry[e] \in Content
        BY DEF Sound
      <4>4. Copy(e, file.entry[e]).entry = e
        BY <4>2, <4>3, CopyFacts DEF Present
      <4>5. clash(i) = ClashOf(Copy(e, file.entry[e]))
        BY <3>2, <4>1
      <4> HIDE DEF clash
      <4> QED BY <4>4, <4>5 DEF Shows, ClashOf
    <3> QED BY <3>1, <3>2
  <2> QED BY <2>4, <2>5
<1> QED BY <1>9, <1>10, <1>11

(* The entries made for new items are free ones, and one for each. *)
LEMMA MadeFacts ==
  ASSUME NEW wanted \in SUBSET Items, Cardinality(wanted) <= Cardinality(FreeEntries),
         origin \in [Entries -> Items \cup {NoOp}]
  PROVE  LET made  == EntriesMade(wanted)
             owner == OwnersAfter(wanted, made)
         IN /\ made \in [Items -> 0..MaxEntries]
            /\ \A i \in wanted : made[i] \in FreeEntries /\ owner[made[i]] = i
            /\ owner \in [Entries -> Items \cup {NoOp}]
            /\ \A e \in Entries : owner[e] = origin[e] \/ \E i \in wanted : made[i] = e
            /\ wanted = {} => owner = origin
<1> DEFINE f     == CHOOSE f \in [wanted -> FreeEntries] :
                      \A i, j \in wanted : f[i] = f[j] => i = j
           made  == EntriesMade(wanted)
           owner == OwnersAfter(wanted, made)
<1>1. IsFiniteSet(wanted) /\ IsFiniteSet(FreeEntries) /\ FreeEntries \subseteq Entries
  <2>1. FreeEntries \subseteq Entries
    BY DEF FreeEntries
  <2>2. IsFiniteSet(Entries)
    BY BoundsAssumption, FS_Interval DEF Entries
  <2> QED BY <2>1, <2>2, FS_Subset, ItemsAssumption
<1>2. f \in [wanted -> FreeEntries] /\ \A i, j \in wanted : f[i] = f[j] => i = j
  <2>1. \E g \in [wanted -> FreeEntries] : \A i, j \in wanted : g[i] = g[j] => i = j
    BY <1>1, InjectionExists
  <2> QED BY <2>1
<1>3. made = [i \in Items |-> IF i \in wanted THEN f[i] ELSE 0]
  BY DEF EntriesMade
<1> HIDE DEF f, made
<1>4. made \in [Items -> 0..MaxEntries] /\ \A i \in wanted : made[i] = f[i] /\ made[i] \in FreeEntries
  <2>1. \A i \in wanted : f[i] \in FreeEntries
    BY <1>2
  <2>2. FreeEntries \subseteq 0..MaxEntries /\ 0 \in 0..MaxEntries
    BY <1>1, BoundsAssumption DEF Entries
  <2> QED BY <1>3, <2>1, <2>2
<1>5. owner = [e \in Entries |-> IF \E i \in wanted : made[i] = e
                                 THEN CHOOSE i \in wanted : made[i] = e ELSE origin[e]]
  BY DEF OwnersAfter
<1> HIDE DEF owner
<1>6. ASSUME NEW i \in wanted PROVE owner[made[i]] = i
  <2>1. made[i] \in Entries /\ \A j \in wanted : made[j] = made[i] => j = i
    BY <1>1, <1>2, <1>4
  <2>2. owner[made[i]] = CHOOSE j \in wanted : made[j] = made[i]
    BY <1>5, <2>1
  <2> QED BY <2>1, <2>2
<1>7. \A e \in Entries : owner[e] = origin[e] \/ \E i \in wanted : made[i] = e
  BY <1>5
<1>8. owner \in [Entries -> Items \cup {NoOp}]
  <2>1. \A e \in Entries : owner[e] \in Items \cup {NoOp}
    BY <1>6, <1>7
  <2> QED BY <1>5, <2>1
<1>9. wanted = {} => owner = origin
  <2>1. wanted = {} => \A e \in Entries : owner[e] = origin[e]
    BY <1>7
  <2> QED BY <1>8, <2>1
<1> QED BY <1>4, <1>6, <1>7, <1>8, <1>9 DEF made, owner

(* Writing a batch: what it leaves, in terms of the file before it. *)
WrittenAs(snap, given, next) ==
  /\ session' \in [open : {TRUE}, file : Sound]
  /\ origin' \in [Entries -> Items \cup {NoOp}]
  /\ \A e \in Entries : origin'[e] = origin[e] \/ e \in FreeEntries
  /\ given = {} => origin' = origin
  /\ sync' \in Round(Writing, Row) /\ sync'.at = next /\ sync'.snap = snap
  /\ DOMAIN sync'.rows = given
  /\ \A i \in given :
       /\ sync'.rows[i].entry
            = (IF snap[i].bin THEN snap[i].entry ELSE sync'.result[i].entry)
       /\ sync'.rows[i].committed <=> sync'.clash[i] = NoClash
       /\ Its(origin', i, sync'.rows[i])
  /\ \A i \in Items : /\ Its(origin', i, snap[i])
                      /\ Its(origin', i, sync'.result[i])
                      /\ ItsClash(origin', i, sync'.clash[i])
  /\ \A e \in Entries : Present(session.file, e) => Present(session'.file, e)
  /\ \A e \in Entries : Present(session'.file, e) /\ ~Present(session.file, e) =>
       \E i \in given : /\ origin'[e] = i /\ snap[i] # NoItem /\ snap[i].entry = 0
                        /\ ~snap[i].bin /\ sync'.clash[i] = NoClash
  /\ \A e, f \in Entries :
       /\ Present(session'.file, e) /\ ~Present(session.file, e)
       /\ Present(session'.file, f) /\ ~Present(session.file, f)
       /\ origin'[e] = origin'[f]
       => e = f
  /\ \A i \in Items, e \in Entries :
       /\ Single(origin', session'.file) /\ origin'[e] = i /\ Present(session'.file, e)
       /\ Names(snap[i], e) \/ ~Present(session.file, e)
       => sync'.result[i].entry = e /\ Shows(sync'.clash[i], e)
  /\ given = {} \/ Committed(sync'.rows) = {} => session'.file.entry = session.file.entry

LEMMA WriteFacts ==
  ASSUME Typed, session # Closed,
         NEW snap \in [Items -> Known], NEW given \in SUBSET Items, NEW deferred \in SUBSET Items,
         NEW next \in Writing, Write(snap, given, deferred, next),
         \A i \in Items : Its(origin, i, snap[i]),
         given = {} \/ \A i \in Items : snap[i].entry \notin FreeEntries
  PROVE  WrittenAs(snap, given, next)
<1> DEFINE file   == session.file
           wanted == ToCreate(snap, given)
           made   == EntriesMade(wanted)
           owner  == OwnersAfter(wanted, made)
           out    == Outcome(snap, given, made, owner, file)
           rows   == RowsOf(given, snap, out)
           v(i)   == Verdict(i, snap, given, file)
<1>1. /\ Cardinality(wanted) <= Cardinality(FreeEntries)
      /\ session' = Opened(out.file)
      /\ origin' = owner
      /\ sync' = [at |-> next, snap |-> snap, rows |-> rows, result |-> out.result,
                  clash |-> out.clash, deferred |-> deferred]
  BY DEF Write
<1>2. file \in Sound
  BY DEF Typed
<1>3. wanted \in SUBSET Items /\ wanted \subseteq given /\ \A i \in Items : i \in wanted <=> v(i) = "create"
  <2>1. \A i \in Items : v(i) = "create" => i \in given
    BY <1>2, VerdictFacts
  <2> QED BY <2>1 DEF ToCreate
<1>4. /\ made \in [Items -> 0..MaxEntries]
      /\ \A i \in wanted : made[i] \in FreeEntries /\ owner[made[i]] = i
      /\ owner \in [Entries -> Items \cup {NoOp}]
      /\ \A e \in Entries : owner[e] = origin[e] \/ \E i \in wanted : made[i] = e
      /\ wanted = {} => owner = origin
  <2> HIDE DEF wanted
  <2> QED BY <1>1, <1>3, MadeFacts DEF Typed
<1>5. FreeEntries \subseteq Entries
  BY DEF FreeEntries
<1> HIDE DEF file, wanted, made, owner
<1>6. given = {} => wanted = {}
  BY <1>3
<1>7. \A i \in Items : snap[i] \in Known
  OBVIOUS
<1>8. \A i \in Items : Its(owner, i, snap[i])
  <2> SUFFICES ASSUME NEW i \in Items, snap[i].entry # 0 PROVE owner[snap[i].entry] = i
    BY DEF Its
  <2>1. snap[i].entry \in Entries /\ origin[snap[i].entry] = i
    BY <1>7, KnownFacts DEF Its, Entries
  <2> QED BY <1>4, <1>6, <2>1
<1>9. \A i \in Items : v(i) = "create" => made[i] \in Entries /\ owner[made[i]] = i
  BY <1>3, <1>4, <1>5
<1>10. /\ out.file \in Sound
       /\ \A e \in Entries : Present(file, e) => Present(out.file, e)
       /\ \A e \in Entries : Present(out.file, e) /\ ~Present(file, e) =>
            \E i \in Items : v(i) = "create" /\ made[i] = e
       /\ (\A i \in Items : v(i) \in {"keep", "take", "clash", "defer"})
            => out.file.entry = file.entry
  BY <1>2, OutcomeFile
<1>11. /\ out.result \in [Items -> Known] /\ out.clash \in [Items -> Clashes]
       /\ \A i \in Items : Its(owner, i, out.result[i]) /\ ItsClash(owner, i, out.clash[i])
       /\ \A i \in Items : v(i) # "clash" => out.clash[i] = NoClash
       /\ \A i \in Items, e \in Entries :
            /\ Single(owner, out.file) /\ owner[e] = i /\ Present(out.file, e)
            /\ Names(snap[i], e) \/ (v(i) = "create" /\ made[i] = e)
            => out.result[i].entry = e /\ Shows(out.clash[i], e)
  <2>1. /\ snap \in [Items -> Known] /\ given \in SUBSET Items /\ file \in Sound
        /\ made \in [Items -> 0..MaxEntries] /\ owner \in [Entries -> Items \cup {NoOp}]
        /\ \A i \in Items : Its(owner, i, snap[i])
        /\ \A i \in Items : Verdict(i, snap, given, file) = "create"
                              => made[i] \in Entries /\ owner[made[i]] = i
    BY <1>2, <1>4, <1>8, <1>9
  <2> HIDE DEF v, rows
  <2>2. /\ out.result \in [Items -> Known] /\ out.clash \in [Items -> Clashes]
        /\ \A i \in Items : /\ Its(owner, i, out.result[i])
                            /\ ItsClash(owner, i, out.clash[i])
        /\ \A i \in Items : Verdict(i, snap, given, file) # "clash" => out.clash[i] = NoClash
        /\ \A i \in Items, e \in Entries :
             /\ Single(owner, out.file) /\ owner[e] = i /\ Present(out.file, e)
             /\ \/ Names(snap[i], e)
                \/ Verdict(i, snap, given, file) = "create" /\ made[i] = e
             => out.result[i].entry = e /\ Shows(out.clash[i], e)
    BY <2>1, OutcomeResult
  <2> HIDE DEF out
  <2> QED BY <2>2 DEF v
<1>12. \A i \in Items :
         /\ v(i) \in {"keep", "take", "clash", "restore", "delete", "update", "create", "defer"}
         /\ v(i) = "create" => i \in given /\ snap[i] # NoItem /\ snap[i].entry = 0 /\ ~snap[i].bin
         /\ v(i) \in {"restore", "delete", "update"} => i \in given
  BY <1>2, VerdictFacts
<1> HIDE DEF out, v
<1>13. /\ DOMAIN rows = given
       /\ \A i \in given :
            /\ rows[i] \in Row
            /\ rows[i].entry = (IF snap[i].bin THEN snap[i].entry ELSE out.result[i].entry)
            /\ rows[i].committed <=> out.clash[i] = NoClash
  <2>1. DOMAIN rows = given
    BY DEF RowsOf
  <2>2. ASSUME NEW i \in given
        PROVE  /\ rows[i] \in Row
               /\ rows[i].entry = (IF snap[i].bin THEN snap[i].entry ELSE out.result[i].entry)
               /\ rows[i].committed <=> out.clash[i] = NoClash
    <3>1. rows[i] = [id |-> queue[i], verb |-> VerbOf(snap[i]), restore |-> i \in restoring,
            committed |-> out.clash[i] = NoClash, text |-> snap[i].text,
            entry |-> IF snap[i].bin THEN snap[i].entry ELSE out.result[i].entry]
      BY DEF RowsOf
    <3>2. /\ snap[i].entry \in 0..MaxEntries /\ snap[i].text \in Texts
          /\ out.result[i].entry \in 0..MaxEntries
      BY <1>7, <1>11, KnownFacts
    <3>3. queue[i] \in Nat /\ VerbOf(snap[i]) \in Verbs
      BY DEF Typed, VerbOf, Verbs
    <3> DEFINE b == out.clash[i] = NoClash
               r == i \in restoring
               n == IF snap[i].bin THEN snap[i].entry ELSE out.result[i].entry
    <3>4. b \in BOOLEAN /\ r \in BOOLEAN /\ n \in 0..MaxEntries
      BY <3>2
    <3>5. rows[i] = [id |-> queue[i], verb |-> VerbOf(snap[i]), restore |-> r,
                     committed |-> b, text |-> snap[i].text, entry |-> n]
      BY <3>1
    <3> HIDE DEF rows, b, r, n
    <3>6. rows[i] \in Row /\ rows[i].entry = n /\ rows[i].committed = b
      BY <3>2, <3>3, <3>4, <3>5 DEF Row
    <3> QED BY <3>6 DEF b, n
  <2> QED BY <2>1, <2>2
<1>14. rows \in Maps(Row)
  <2>1. rows = [i \in given |-> rows[i]]
    BY DEF RowsOf
  <2> HIDE DEF rows
  <2>2. rows \in [given -> Row]
    BY <1>13, <2>1
  <2> QED BY <2>2, MapsIn
<1> HIDE DEF rows
<1>15. /\ sync'.at = next /\ sync'.snap = snap /\ sync'.rows = rows /\ sync'.result = out.result
       /\ sync'.clash = out.clash
       /\ sync' \in Round(Writing, Row)
  BY <1>1, <1>11, <1>14 DEF Round
<1>16. session' \in [open : {TRUE}, file : Sound] /\ session'.file = out.file
  BY <1>1, <1>10 DEF Opened
<1>17. \A i \in given : Its(owner, i, rows[i])
  BY <1>8, <1>11, <1>13 DEF Its
<1>18. ASSUME NEW e \in Entries, Present(out.file, e), ~Present(file, e)
       PROVE  \E i \in given : /\ owner[e] = i /\ made[i] = e /\ v(i) = "create"
                               /\ snap[i] # NoItem /\ snap[i].entry = 0
                               /\ ~snap[i].bin /\ out.clash[i] = NoClash
  <2>1. PICK i \in Items : v(i) = "create" /\ made[i] = e
    BY <1>10, <1>18
  <2> QED BY <1>9, <1>11, <1>12, <2>1
<1>19. \A e, f \in Entries :
         /\ Present(out.file, e) /\ ~Present(file, e)
         /\ Present(out.file, f) /\ ~Present(file, f)
         /\ owner[e] = owner[f]
         => e = f
  BY <1>18
<1>20. \A i \in Items, e \in Entries :
         /\ Single(owner, out.file) /\ owner[e] = i /\ Present(out.file, e)
         /\ Names(snap[i], e) \/ ~Present(file, e)
         => out.result[i].entry = e /\ Shows(out.clash[i], e)
  BY <1>11, <1>18
<1>21. given = {} \/ Committed(rows) = {} => out.file.entry = file.entry
  <2> SUFFICES ASSUME given = {} \/ Committed(rows) = {}, NEW i \in Items,
                      v(i) \notin {"keep", "take", "clash", "defer"}
               PROVE  FALSE
    BY <1>10
  <2>1. i \in given
    BY <1>12
  <2>2. rows[i].committed
    BY <1>11, <1>13, <2>1
  <2> QED BY <1>13, <2>1, <2>2 DEF Committed
<1>22. \A e \in Entries : owner[e] = origin[e] \/ e \in FreeEntries
  BY <1>4
<1>23. given = {} => owner = origin
  BY <1>4, <1>6
<1>24. session.file = file
  BY DEF file
<1> HIDE DEF file
<1>25. \A i \in given :
         /\ sync'.rows[i].entry = (IF snap[i].bin THEN snap[i].entry ELSE sync'.result[i].entry)
         /\ sync'.rows[i].committed <=> sync'.clash[i] = NoClash
         /\ Its(origin', i, sync'.rows[i])
  BY <1>1, <1>13, <1>15, <1>17
<1>26. \A i \in Items : /\ Its(origin', i, snap[i])
                        /\ Its(origin', i, sync'.result[i])
                        /\ ItsClash(origin', i, sync'.clash[i])
  BY <1>1, <1>8, <1>11, <1>15
<1>27. \A e \in Entries : Present(session.file, e) => Present(session'.file, e)
  BY <1>10, <1>16, <1>24
<1>28. \A e \in Entries : Present(session'.file, e) /\ ~Present(session.file, e) =>
         \E i \in given : /\ origin'[e] = i /\ snap[i] # NoItem /\ snap[i].entry = 0
                          /\ ~snap[i].bin /\ sync'.clash[i] = NoClash
  BY <1>1, <1>15, <1>16, <1>18, <1>24
<1>29. \A e, f \in Entries :
         /\ Present(session'.file, e) /\ ~Present(session.file, e)
         /\ Present(session'.file, f) /\ ~Present(session.file, f)
         /\ origin'[e] = origin'[f]
         => e = f
  BY <1>1, <1>16, <1>19, <1>24
<1>30. \A i \in Items, e \in Entries :
         /\ Single(origin', session'.file) /\ origin'[e] = i /\ Present(session'.file, e)
         /\ Names(snap[i], e) \/ ~Present(session.file, e)
         => sync'.result[i].entry = e /\ Shows(sync'.clash[i], e)
  BY <1>1, <1>15, <1>16, <1>20, <1>24
<1>31. given = {} \/ Committed(sync'.rows) = {} => session'.file.entry = session.file.entry
  BY <1>15, <1>16, <1>21, <1>24
<1> QED
  BY <1>1, <1>4, <1>13, <1>15, <1>16, <1>22, <1>23, <1>25, <1>26, <1>27, <1>28, <1>29, <1>30, <1>31 DEF WrittenAs

-----------------------------------------------------------------------------
(* The phases of a synchronization and what it remembers in each. *)
LEMMA SyncKinds ==
  ASSUME Typed
  PROVE  /\ sync = NoSync => sync.at = "idle"
         /\ sync # NoSync => /\ sync.at \in Reading \cup Writing
                             /\ sync.snap \in [Items -> Known] /\ sync.result \in [Items -> Known]
                             /\ sync.clash \in [Items -> Clashes] /\ sync.deferred \in SUBSET Items
         /\ sync # NoSync /\ sync.at \in Reading => sync \in Round(Reading, Intent)
         /\ sync # NoSync /\ sync.at \in Writing => sync \in Round(Writing, Row)
<1>1. sync = NoSync => sync.at = "idle"
  BY DEF NoSync
<1>2. ASSUME sync \in Round(Reading, Intent)
      PROVE  /\ sync.at \in Reading /\ sync.at \notin Writing
             /\ sync.snap \in [Items -> Known] /\ sync.result \in [Items -> Known]
             /\ sync.clash \in [Items -> Clashes] /\ sync.deferred \in SUBSET Items
  BY <1>2 DEF Round, Reading, Writing
<1>3. ASSUME sync \in Round(Writing, Row)
      PROVE  /\ sync.at \in Writing /\ sync.at \notin Reading
             /\ sync.snap \in [Items -> Known] /\ sync.result \in [Items -> Known]
             /\ sync.clash \in [Items -> Clashes] /\ sync.deferred \in SUBSET Items
  BY <1>3 DEF Round, Reading, Writing
<1>4. sync = NoSync \/ sync \in Round(Reading, Intent) \/ sync \in Round(Writing, Row)
  BY DEF Typed
<1> QED BY <1>1, <1>2, <1>3, <1>4

(* A synchronization that begins, or reads, in a phase before the batch. *)
LEMMA ReadingType ==
  ASSUME NEW at \in Reading, NEW snap \in [Items -> Known], NEW rows \in Maps(Intent),
         NEW result \in [Items -> Known], NEW clash \in [Items -> Clashes],
         NEW deferred \in SUBSET Items
  PROVE  LET r == [at |-> at, snap |-> snap, rows |-> rows, result |-> result,
                   clash |-> clash, deferred |-> deferred]
         IN r \in Round(Reading, Intent) /\ r # NoSync
<1> DEFINE r == [at |-> at, snap |-> snap, rows |-> rows, result |-> result,
                 clash |-> clash, deferred |-> deferred]
<1>1. r \in Round(Reading, Intent)
  BY DEF Round
<1>2. r.at = at /\ NoSync.at = "idle" /\ at # "idle"
  BY DEF NoSync, Reading
<1> QED BY <1>1, <1>2

LEMMA BeginFacts ==
  ASSUME Typed, NEW at \in Reading
  PROVE  /\ Begin(at) \in Round(Reading, Intent) /\ Begin(at) # NoSync /\ Begin(at).at = at
         /\ Begin(at).snap = item /\ Begin(at).result = item
         /\ \A i \in Items : Begin(at).clash[i] = NoClash
<1>1. NoRows \in Maps(Intent)
  <2>1. NoRows \in [{} -> Intent]
    BY DEF NoRows
  <2> QED BY <2>1, MapsIn
<1>2. [i \in Items |-> NoClash] \in [Items -> Clashes]
  BY DEF Clashes
<1>3. Begin(at) = [at |-> at, snap |-> item, rows |-> NoRows, result |-> item,
                   clash |-> [i \in Items |-> NoClash], deferred |-> {}]
  BY DEF Begin
<1>4. item \in [Items -> Known] /\ {} \in SUBSET Items
  BY DEF Typed
<1>5. Begin(at) \in Round(Reading, Intent) /\ Begin(at) # NoSync
  BY <1>1, <1>2, <1>3, <1>4, ReadingType
<1> QED BY <1>3, <1>5

(* Whatever stops a synchronization, what it leaves is in order: the vault,   *)
(* the receipt and the working copy are as they were.                        *)
LEMMA ForgetKeeps ==
  ASSUME Ind, UNCHANGED <<vaultVars, receipt, receipts, origin, userVars, remotes>>,
         session' = Closed, pending' = {}, sync' = NoSync, busy' = NoOp,
         faults' \in 0..MaxFaults, remote' \in Sound,
         record' \in [base : Sound, working : Sound, dirty : BOOLEAN, current : BOOLEAN],
         record'.base = record.base, record'.working = record.working,
         \A e \in Entries : Present(remote', e) => Present(record.working, e)
  PROVE  Ind'
<1>1. sync'.at = "idle"
  BY DEF NoSync
<1>2. Typed'
  BY DEF Ind, Typed, vaultVars, userVars
<1>3. Owned'
  BY <1>1 DEF Ind, Owned, vaultVars, Writing
<1>4. Staged'
  BY <1>1 DEF Staged
<1>5. Copied'
  BY <1>1 DEF Ind, Copied
<1>6. Singles'
  BY <1>1 DEF Ind, Singles, Single
<1>7. Named'
  BY <1>1 DEF Ind, Named, Linkage, Held, Carried, vaultVars
<1>8. Wrote'
  BY <1>1 DEF Wrote
<1> QED BY <1>2, <1>3, <1>4, <1>5, <1>6, <1>7, <1>8 DEF Ind

(* What is written to the server has no entry that the working copy lacks. *)
LEMMA MergedFacts ==
  ASSUME Typed, Copied, NEW e \in Entries
  PROVE  /\ MergedEntry(e) \in Content
         /\ MergedEntry(e) # Absent => Present(record.working, e)
<1> DEFINE base == record.base.entry[e]
           work == record.working.entry[e]
           there == remote.entry[e]
<1>1. base \in Content /\ work \in Content /\ there \in Content
  BY DEF Typed, Sound
<1>2. base # Absent \/ there # Absent => work # Absent
  BY DEF Copied, Present
<1>3. CASE Absent \in {base, work, there}
  <2>1. MergedEntry(e) = Pick(base, work, there)
    BY <1>3 DEF MergedEntry
  <2>2. Pick(base, work, there) \in {work, there} /\ (work = Absent => Pick(base, work, there) = Absent)
    BY <1>2 DEF Pick
  <2> QED BY <1>1, <2>1, <2>2 DEF Present
<1>4. CASE Absent \notin {base, work, there}
  <2> DEFINE t == Pick(base.text, work.text, there.text)
             b == Pick(base.bin, work.bin, there.bin)
  <2>1. MergedEntry(e) = [text |-> t, bin |-> b]
    BY <1>4 DEF MergedEntry
  <2>2. /\ work.text \in Texts /\ there.text \in Texts /\ work.text # 0 /\ there.text # 0
        /\ work.bin \in BOOLEAN /\ there.bin \in BOOLEAN
    BY <1>1, <1>4, ContentFacts
  <2>3. t \in {work.text, there.text} /\ b \in {work.bin, there.bin}
    BY DEF Pick
  <2> HIDE DEF t, b, base, work, there
  <2>4. t \in Texts /\ t # 0 /\ b \in BOOLEAN
    BY <2>2, <2>3
  <2>5. MergedEntry(e) \in Content
    BY <2>1, <2>4 DEF Content
  <2> QED BY <1>4, <2>5 DEF Present, work
<1> QED BY <1>3, <1>4

LEMMA ToWriteFacts ==
  ASSUME Typed, Copied
  PROVE  ToWrite \in Sound /\ \A e \in Entries : Present(ToWrite, e) => Present(record.working, e)
<1>1. CASE record.current
  <2>1. ToWrite = record.working
    BY <1>1 DEF ToWrite
  <2> QED BY <2>1 DEF Typed
<1>2. CASE ~record.current
  <2>1. ToWrite = [entry |-> [e \in Entries |-> MergedEntry(e)],
                   groups |-> remote.groups \cup (record.working.groups \ record.base.groups)]
    BY <1>2 DEF ToWrite, Rebased
  <2>2. [e \in Entries |-> MergedEntry(e)] \in [Entries -> Content]
    BY MergedFacts
  <2>3. remote.groups \cup (record.working.groups \ record.base.groups) \in SUBSET Ops
    BY DEF Typed, Sound
  <2>4. ToWrite \in Sound
    BY <2>1, <2>2, <2>3 DEF Sound
  <2>5. \A e \in Entries : ToWrite.entry[e] = MergedEntry(e)
    BY <2>1
  <2> QED BY <2>4, <2>5, MergedFacts DEF Present
<1> QED BY <1>1, <1>2 DEF Typed
-----------------------------------------------------------------------------
(* Faults. *)
LEMMA SaveFailsStep == ASSUME Ind, SaveFails PROVE Ind'
<1>1. /\ busy' = NoOp /\ busy # NoOp /\ faults' \in 0..MaxFaults
      /\ UNCHANGED <<item, queue, restoring, conflict, remote, record, receipt, receipts, session,
                     pending, sync, origin, unseen, edits, remotes>>
  BY BoundsAssumption DEF SaveFails, Fault, Ind, Typed, vaultVars, diskVars, userVars
<1>2. Typed'
  BY <1>1 DEF Ind, Typed
<1>3. Owned'
  BY <1>1 DEF Ind, Owned
<1>4. Staged'
  BY <1>1 DEF Ind, Staged
<1>5. Copied'
  BY <1>1 DEF Ind, Copied
<1>6. Singles'
  BY <1>1 DEF Ind, Singles, Single
<1>7. Named'
  BY <1>1 DEF Ind, Named, Linkage, Held, Carried
<1>8. Wrote'
  BY <1>1 DEF Ind, Wrote
<1> QED BY <1>2, <1>3, <1>4, <1>5, <1>6, <1>7, <1>8 DEF Ind

LEMMA SyncFailsStep == ASSUME Ind, SyncFails PROVE Ind'
<1>1. /\ busy' = NoOp /\ faults' \in 0..MaxFaults
      /\ session' = Closed /\ pending' = {} /\ sync' = NoSync
      /\ UNCHANGED <<vaultVars, remote, record, receipt, receipts, origin, userVars, remotes>>
  BY BoundsAssumption DEF SyncFails, Fault, Forget, Ind, Typed, Staged, diskVars
<1>2. \A e \in Entries : Present(remote', e) => Present(record.working, e)
  BY <1>1 DEF Ind, Copied
<1> QED BY <1>1, <1>2, ForgetKeeps DEF Ind, Typed

LEMMA WorkerStopsStep == ASSUME Ind, WorkerStops PROVE Ind'
<1>1. /\ busy' = NoOp /\ faults' \in 0..MaxFaults
      /\ session' = Closed /\ pending' = {} /\ sync' = NoSync
      /\ UNCHANGED <<vaultVars, remote, record, receipt, receipts, origin, userVars, remotes>>
  BY BoundsAssumption DEF WorkerStops, Fault, Forget, Ind, Typed, Staged, diskVars
<1>2. \A e \in Entries : Present(remote', e) => Present(record.working, e)
  BY <1>1 DEF Ind, Copied
<1> QED BY <1>1, <1>2, ForgetKeeps DEF Ind, Typed

LEMMA RejectedStep == ASSUME Ind, Rejected PROVE Ind'
<1>0. sync # NoSync
  BY DEF Rejected, Publishing, At
<1>1. /\ busy' = NoOp /\ faults' \in 0..MaxFaults
      /\ session' = Closed /\ pending' = {} /\ sync' = NoSync
      /\ UNCHANGED <<vaultVars, remote, record, receipt, receipts, origin, userVars, remotes>>
  BY <1>0 DEF Rejected, Forget, Ind, Typed, Staged, diskVars
<1>2. \A e \in Entries : Present(remote', e) => Present(record.working, e)
  BY <1>1 DEF Ind, Copied
<1> QED BY <1>1, <1>2, ForgetKeeps DEF Ind, Typed

LEMMA AnswerLostStep == ASSUME Ind, AnswerLost PROVE Ind'
<1>0. sync # NoSync
  BY DEF AnswerLost, Publishing, At
<1>1. /\ busy' = NoOp /\ faults' \in 0..MaxFaults
      /\ session' = Closed /\ pending' = {} /\ sync' = NoSync
      /\ remote' = ToWrite /\ record' = [record EXCEPT !.current = FALSE]
      /\ UNCHANGED <<vaultVars, receipt, receipts, origin, userVars, remotes>>
  BY <1>0, BoundsAssumption DEF AnswerLost, Fault, Forget, Ind, Typed, Staged
<1>2. /\ record' \in [base : Sound, working : Sound, dirty : BOOLEAN, current : BOOLEAN]
      /\ record'.base = record.base /\ record'.working = record.working
  BY <1>1 DEF Ind, Typed
<1>3. remote' \in Sound /\ \A e \in Entries : Present(remote', e) => Present(record.working, e)
  BY <1>1, ToWriteFacts DEF Ind
<1> QED BY <1>1, <1>2, <1>3, ForgetKeeps
-----------------------------------------------------------------------------
(* The user and the other devices. *)
LEMMA FreshTextType == ASSUME Typed, edits < MaxEdits \/ remotes < MaxRemote
                       PROVE  FreshText \in Texts /\ FreshText # 0
<1>1. edits \in Nat /\ remotes \in Nat /\ edits <= MaxEdits /\ remotes <= MaxRemote
  BY BoundsAssumption DEF Typed
<1> QED BY <1>1, SizeType, BoundsAssumption DEF FreshText, Texts

LEMMA OthersEditStep == ASSUME Ind, OthersEdit PROVE Ind'
<1>0. PICK e \in Entries :
        /\ remote.entry[e] # Absent
        /\ \E now \in {Absent, [remote.entry[e] EXCEPT !.bin = ~@],
                       [remote.entry[e] EXCEPT !.text = FreshText]} :
             /\ remote' = [remote EXCEPT !.entry[e] = now]
             /\ unseen' = unseen \cup ({now.text} \ {0, remote.entry[e].text})
  BY DEF OthersEdit
<1>1. PICK now \in {Absent, [remote.entry[e] EXCEPT !.bin = ~@],
                    [remote.entry[e] EXCEPT !.text = FreshText]} :
        /\ remote' = [remote EXCEPT !.entry[e] = now]
        /\ unseen' = unseen \cup ({now.text} \ {0, remote.entry[e].text})
  BY <1>0
<1>2. /\ remotes' \in 0..MaxRemote /\ remotes < MaxRemote
      /\ record' = [record EXCEPT !.current = FALSE]
      /\ UNCHANGED <<item, queue, restoring, conflict, receipt, receipts, session,
                     pending, busy, sync, origin, edits, faults>>
  BY BoundsAssumption DEF OthersEdit, Ind, Typed, vaultVars
<1>3. /\ record' \in [base : Sound, working : Sound, dirty : BOOLEAN, current : BOOLEAN]
      /\ record'.base = record.base /\ record'.working = record.working
  BY <1>2 DEF Ind, Typed
<1>4. now \in Content
  <2>1. remote.entry[e] \in Content /\ remote.entry[e].text # 0
    BY <1>0, ContentFacts DEF Ind, Typed, Sound
  <2>2. FreshText \in Texts /\ FreshText # 0
    BY <1>2, FreshTextType DEF Ind
  <2>3. CASE now = Absent
    BY <2>3, ContentFacts
  <2>4. CASE now = [remote.entry[e] EXCEPT !.bin = ~@]
    BY <2>1, <2>4 DEF Content
  <2>5. CASE now = [remote.entry[e] EXCEPT !.text = FreshText]
    BY <2>1, <2>2, <2>5 DEF Content
  <2> QED BY <2>3, <2>4, <2>5
<1>5. remote' \in Sound /\ \A f \in Entries : Present(remote', f) => Present(remote, f)
  <2>1. remote \in Sound
    BY DEF Ind, Typed
  <2> QED BY <1>0, <1>1, <1>4, <2>1 DEF Sound, Present
<1>6. unseen' \subseteq Texts
  <2>1. now.text \in Texts /\ unseen \subseteq Texts
    BY <1>4, ContentFacts DEF Ind, Typed
  <2> QED BY <1>1, <2>1
<1>7. Typed'
  BY <1>2, <1>3, <1>5, <1>6 DEF Ind, Typed
<1>8. Owned'
  BY <1>2 DEF Ind, Owned
<1>9. Staged'
  BY <1>2 DEF Ind, Staged
<1>10. Copied'
  BY <1>2, <1>3, <1>5 DEF Ind, Copied, Present
<1>11. Singles'
  BY <1>2, <1>3 DEF Ind, Singles, Single, Present
<1>12. Named'
  BY <1>2, <1>3 DEF Ind, Named, Linkage, Held, Carried, Present
<1>13. Wrote'
  BY <1>2, <1>3 DEF Ind, Wrote, Present
<1> QED BY <1>7, <1>8, <1>9, <1>10, <1>11, <1>12, <1>13 DEF Ind

(* A change of one item of the vault, with its entry of the queue and conflict. *)
LEMMA VaultChangeKeeps ==
  ASSUME Ind, NEW i \in Items, NEW it \in Known, item' = [item EXCEPT ![i] = it],
         queue' \in [Items -> Nat], \A j \in Items \ {i} : queue'[j] = queue[j],
         queue'[i] # 0 => it # NoItem,
         restoring' \subseteq Items,
         conflict' \in [Items -> Clashes],
         \A j \in Items : conflict'[j] = conflict[j] \/ conflict'[j] = NoClash,
         Its(origin, i, it),
         \A e \in Entries : Held(i, e) =>
           /\ Names(it, e) \/ Carried(i, e)
           /\ sync.at \in {"applied", "recovered"} => Names(it, e),
         edits' \in 0..MaxEdits,
         UNCHANGED <<remote, diskVars, session, pending, busy, sync, origin, unseen, remotes, faults>>
  PROVE  Ind'
<1>1. item' \in [Items -> Known] /\ item'[i] = it /\ \A j \in Items \ {i} : item'[j] = item[j]
  BY DEF Ind, Typed
<1>2. Typed'
  BY <1>1 DEF Ind, Typed, diskVars
<1>3. Owned'
  <2>1. \A j \in Items : Its(origin, j, item'[j]) /\ ItsClash(origin, j, conflict'[j])
    BY <1>1 DEF Ind, Owned, ItsClash
  <2> QED BY <2>1 DEF Ind, Owned, diskVars
<1>4. Staged'
  BY DEF Ind, Staged, diskVars
<1>5. Copied'
  BY DEF Ind, Copied, diskVars
<1>6. Singles'
  BY DEF Ind, Singles, Single, diskVars
<1>7. Named'
  <2> SUFFICES ASSUME NEW j \in Items, NEW e \in Entries, Held(j, e)'
               PROVE  Linkage(j, e)'
    BY DEF Named
  <2>1. Held(j, e) /\ Linkage(j, e) /\ (Carried(j, e) = Carried(j, e)')
    BY DEF Ind, Named, Held, Carried, diskVars
  <2>2. Shows(conflict'[j], e) \/ Carried(j, e)
    BY <2>1 DEF Linkage, Shows
  <2>3. sync.at \in {"applied", "recovered"} => Shows(conflict'[j], e)
    BY <2>1 DEF Linkage, Shows
  <2>4. /\ Names(item'[j], e) \/ Carried(j, e)
        /\ sync.at \in {"applied", "recovered"} => Names(item'[j], e)
        /\ queue'[j] # 0 => item'[j] # NoItem
    BY <1>1, <2>1 DEF Linkage
  <2> QED BY <2>1, <2>2, <2>3, <2>4 DEF Linkage, Carried, diskVars
<1>8. Wrote'
  BY <1>1 DEF Ind, Wrote, diskVars
<1> QED BY <1>2, <1>3, <1>4, <1>5, <1>6, <1>7, <1>8 DEF Ind

LEMMA QueuedType ==
  ASSUME Typed, NEW i \in Items
  PROVE  Queued(i) \in [Items -> Nat] /\ \A j \in Items \ {i} : Queued(i)[j] = queue[j]
<1>1. FreshId \in Nat
  BY FreshIdType
<1> QED BY <1>1 DEF Queued, Typed

LEMMA EditedFacts ==
  ASSUME NEW it \in Known, it # NoItem, NEW n \in 0..MaxEdits
  PROVE  /\ \A t \in Texts \ {0} :
              /\ [it EXCEPT !.text = t, !.stamp = n] \in Known \ {NoItem}
              /\ [it EXCEPT !.text = t, !.stamp = n].entry = it.entry
         /\ \A b \in BOOLEAN :
              /\ [it EXCEPT !.bin = b, !.stamp = n] \in Known \ {NoItem}
              /\ [it EXCEPT !.bin = b, !.stamp = n].entry = it.entry
<1>1. it \in Item /\ it.text # 0
  BY KnownFacts DEF Known
<1>2. ASSUME NEW t \in Texts \ {0}
      PROVE  /\ [it EXCEPT !.text = t, !.stamp = n] \in Item
             /\ [it EXCEPT !.text = t, !.stamp = n].entry = it.entry
             /\ [it EXCEPT !.text = t, !.stamp = n].text = t
  BY <1>1 DEF Item
<1>3. ASSUME NEW b \in BOOLEAN
      PROVE  /\ [it EXCEPT !.bin = b, !.stamp = n] \in Item
             /\ [it EXCEPT !.bin = b, !.stamp = n].entry = it.entry
             /\ [it EXCEPT !.bin = b, !.stamp = n].text = it.text
  BY <1>1 DEF Item
<1>4. NoItem.text = 0
  BY DEF NoItem
<1>5. \A t \in Texts \ {0} : [it EXCEPT !.text = t, !.stamp = n] \in Known \ {NoItem}
  BY <1>2, <1>4 DEF Known
<1>6. ASSUME NEW b \in BOOLEAN PROVE [it EXCEPT !.bin = b, !.stamp = n] \in Known \ {NoItem}
  <2> DEFINE x == [it EXCEPT !.bin = b, !.stamp = n]
  <2>1. x \in Item /\ x.text # 0
    BY <1>1, <1>3
  <2> HIDE DEF x
  <2>2. x \in Known \ {NoItem}
    BY <1>4, <2>1 DEF Known
  <2> QED BY <2>2 DEF x
<1> QED BY <1>2, <1>3, <1>5, <1>6

LEMMA CreatedFacts ==
  ASSUME NEW t \in Texts \ {0}, NEW n \in 0..MaxEdits
  PROVE  /\ [NoItem EXCEPT !.text = t, !.stamp = n] \in Known \ {NoItem}
         /\ [NoItem EXCEPT !.text = t, !.stamp = n].entry = 0
<1>1. NoItem \in Item /\ NoItem.text = 0 /\ NoItem.entry = 0
  BY KnownFacts DEF Known, NoItem
<1>2. /\ [NoItem EXCEPT !.text = t, !.stamp = n] \in Item
      /\ [NoItem EXCEPT !.text = t, !.stamp = n].entry = NoItem.entry
      /\ [NoItem EXCEPT !.text = t, !.stamp = n].text = t
  BY <1>1 DEF Item
<1> QED BY <1>1, <1>2 DEF Known

LEMMA UserEditsStep == ASSUME Ind, UserEdits PROVE Ind'
<1>1. PICK i \in Items : Created(i) \/ Edited(i) \/ Deleted(i) \/ Restored(i)
  BY DEF UserEdits
<1>2. /\ edits < MaxEdits /\ edits' \in 0..MaxEdits /\ Typed
      /\ UNCHANGED <<conflict, remote, diskVars, session, pending, busy, sync, origin,
                     unseen, remotes, faults>>
  <2>1. Typed /\ edits < MaxEdits /\ edits' = edits + 1
    BY DEF UserEdits, Ind
  <2>2. edits' \in 0..MaxEdits
    BY <2>1, BoundsAssumption DEF Typed
  <2> QED BY <2>1, <2>2 DEF UserEdits
<1>3. FreshText \in Texts /\ FreshText # 0
  BY <1>2, FreshTextType
<1>4. item \in [Items -> Known] /\ queue \in [Items -> Nat] /\ restoring \subseteq Items
  BY <1>2 DEF Typed
<1>5. Queued(i) \in [Items -> Nat] /\ \A j \in Items \ {i} : Queued(i)[j] = queue[j]
  BY <1>2, QueuedType
<1>6. conflict' \in [Items -> Clashes] /\ \A j \in Items : conflict'[j] = conflict[j]
  BY <1>2 DEF Typed
<1>7. ASSUME NEW it \in Known \ {NoItem}, item' = [item EXCEPT ![i] = it],
             \/ Exists(i) /\ it.entry = item[i].entry
             \/ it.entry = 0 /\ \A e \in Entries : origin[e] # i,
             queue' \in [Items -> Nat], \A j \in Items \ {i} : queue'[j] = queue[j],
             restoring' \subseteq Items
      PROVE  Ind'
  <2>1. Its(origin, i, it)
    BY <1>7 DEF Its, Ind, Owned
  <2>2. ASSUME NEW e \in Entries, Held(i, e)
        PROVE  /\ Names(it, e) \/ Carried(i, e)
               /\ sync.at \in {"applied", "recovered"} => Names(it, e)
    <3>1. Exists(i) /\ it.entry = item[i].entry
      BY <1>7, <2>2 DEF Held
    <3>2. Linkage(i, e)
      BY <2>2 DEF Ind, Named
    <3> QED BY <3>1, <3>2 DEF Linkage, Names, Exists
  <2> QED BY <1>2, <1>6, <1>7, <2>1, <2>2, VaultChangeKeeps
<1>8. CASE Created(i)
  <2> DEFINE it == [NoItem EXCEPT !.text = FreshText, !.stamp = edits']
  <2>1. /\ item' = [item EXCEPT ![i] = it] /\ queue' = Queued(i) /\ restoring' = restoring
        /\ \A e \in Entries : origin[e] # i
    BY <1>8 DEF Created
  <2>2. it \in Known /\ it # NoItem /\ it.entry = 0
    BY <1>2, <1>3, CreatedFacts
  <2> HIDE DEF it
  <2> QED BY <1>4, <1>5, <1>7, <2>1, <2>2
<1>9. CASE Edited(i)
  <2> DEFINE it == [item[i] EXCEPT !.text = FreshText, !.stamp = edits']
  <2>1. /\ item' = [item EXCEPT ![i] = it] /\ queue' = Queued(i) /\ restoring' \subseteq Items
        /\ Exists(i)
    BY <1>4, <1>9 DEF Edited
  <2>2. it \in Known \ {NoItem} /\ it.entry = item[i].entry
    BY <1>2, <1>3, <1>4, <2>1, EditedFacts DEF Exists
  <2> HIDE DEF it
  <2> QED BY <1>5, <1>7, <2>1, <2>2
<1>10. CASE Deleted(i)
  <2> DEFINE it == [item[i] EXCEPT !.bin = TRUE, !.stamp = edits']
  <2>1. /\ item' = [item EXCEPT ![i] = it] /\ restoring' \subseteq Items /\ Exists(i)
        /\ queue' \in {Queued(i), [queue EXCEPT ![i] = 0]}
    BY <1>4, <1>10 DEF Deleted
  <2>2. it \in Known \ {NoItem} /\ it.entry = item[i].entry
    BY <1>2, <1>3, <1>4, <2>1, EditedFacts DEF Exists
  <2>3. queue' \in [Items -> Nat] /\ \A j \in Items \ {i} : queue'[j] = queue[j]
    BY <1>4, <1>5, <2>1
  <2> HIDE DEF it
  <2> QED BY <1>7, <2>1, <2>2, <2>3
<1>11. CASE Restored(i)
  <2> DEFINE it == [item[i] EXCEPT !.bin = FALSE, !.stamp = edits']
  <2>1. /\ item' = [item EXCEPT ![i] = it] /\ queue' = Queued(i) /\ restoring' \subseteq Items
        /\ Exists(i)
    BY <1>4, <1>11 DEF Restored
  <2>2. it \in Known \ {NoItem} /\ it.entry = item[i].entry
    BY <1>2, <1>3, <1>4, <2>1, EditedFacts DEF Exists
  <2> HIDE DEF it
  <2> QED BY <1>5, <1>7, <2>1, <2>2
<1> QED BY <1>1, <1>8, <1>9, <1>10, <1>11

LEMMA UserDecidesStep == ASSUME Ind, UserDecides PROVE Ind'
<1>1. PICK i \in Items : /\ conflict[i] # NoClash
                         /\ KeepLocal(i) \/ UseRemote(i)
                         /\ conflict' = [conflict EXCEPT ![i] = NoClash]
  BY DEF UserDecides
<1>2. /\ edits' \in 0..MaxEdits /\ Typed
      /\ UNCHANGED <<remote, diskVars, session, pending, busy, sync, origin,
                     unseen, remotes, faults>>
  <2>1. Typed /\ edits < MaxEdits /\ edits' = edits + 1
    BY DEF UserDecides, Ind
  <2>2. edits' \in 0..MaxEdits
    BY <2>1, BoundsAssumption DEF Typed
  <2> QED BY <2>1, <2>2 DEF UserDecides
<1>4. /\ item \in [Items -> Known] /\ queue \in [Items -> Nat] /\ restoring \subseteq Items
      /\ conflict \in [Items -> Clashes]
  BY <1>2 DEF Typed
<1>5. Queued(i) \in [Items -> Nat] /\ \A j \in Items \ {i} : Queued(i)[j] = queue[j]
  BY <1>2, QueuedType
<1>6. /\ conflict' \in [Items -> Clashes]
      /\ \A j \in Items : conflict'[j] = conflict[j] \/ conflict'[j] = NoClash
  <2>1. NoClash \in Clashes
    BY DEF Clashes
  <2> QED BY <1>1, <1>4, <2>1
<1> DEFINE c == conflict[i].copy
<1>7. c \in Known /\ Its(origin, i, c)
  <2>1. conflict[i] \in Clashes
    BY <1>4
  <2> QED BY <1>1, <2>1 DEF Clashes, Ind, Owned, ItsClash
<1>8. ASSUME NEW it \in Known, item' = [item EXCEPT ![i] = it], it.entry = c.entry,
             queue' \in [Items -> Nat], \A j \in Items \ {i} : queue'[j] = queue[j],
             queue'[i] # 0 => it # NoItem, restoring' \subseteq Items
      PROVE  Ind'
  <2>1. Its(origin, i, it)
    BY <1>7, <1>8 DEF Its
  <2>2. ASSUME NEW e \in Entries, Held(i, e)
        PROVE  /\ Names(it, e) \/ Carried(i, e)
               /\ sync.at \in {"applied", "recovered"} => Names(it, e)
    <3>1. Linkage(i, e)
      BY <2>2 DEF Ind, Named
    <3> QED BY <1>1, <1>8, <3>1 DEF Linkage, Names, Shows
  <2> QED BY <1>2, <1>6, <1>8, <2>1, <2>2, VaultChangeKeeps
<1>9. CASE KeepLocal(i)
  <2> DEFINE b == c # NoItem
             it == [item[i] EXCEPT !.entry = c.entry, !.etag = c.etag, !.from = c.from, !.foreign = b]
  <2>1. /\ item' = [item EXCEPT ![i] = it] /\ queue' = Queued(i) /\ restoring' \subseteq Items
        /\ item[i] # NoItem
    BY <1>4, <1>9 DEF KeepLocal, Exists
  <2>2. it \in Known \ {NoItem} /\ it.entry = c.entry
    <3>1. item[i] \in Item /\ item[i].text # 0 /\ c \in Item /\ b \in BOOLEAN /\ NoItem.text = 0
      BY <1>4, <1>7, <2>1, KnownFacts DEF Known, NoItem
    <3> HIDE DEF c, b
    <3>2. it \in Item /\ it.text = item[i].text /\ it.entry = c.entry
      BY <3>1 DEF Item
    <3> QED BY <3>1, <3>2 DEF Known
  <2> HIDE DEF it, b
  <2> QED BY <1>5, <1>8, <2>1, <2>2
<1>10. CASE UseRemote(i)
  <2>1. /\ item' = [item EXCEPT ![i] = c] /\ queue' = [queue EXCEPT ![i] = 0]
        /\ restoring' \subseteq Items
    BY <1>4, <1>10 DEF UseRemote
  <2>2. queue' \in [Items -> Nat] /\ (\A j \in Items \ {i} : queue'[j] = queue[j]) /\ queue'[i] = 0
    BY <1>4, <2>1
  <2> QED BY <1>7, <1>8, <2>1, <2>2
<1> QED BY <1>1, <1>9, <1>10
-----------------------------------------------------------------------------
(* The synchronization up to the batch. *)
LEMMA PhaseMoves ==
  ASSUME NEW P, NEW R, NEW r \in Round(P, R), NEW p \in P, p # "idle"
  PROVE  LET q == [r EXCEPT !.at = p]
         IN /\ q \in Round(P, R) /\ q.at = p /\ q # NoSync
            /\ q.snap = r.snap /\ q.rows = r.rows /\ q.result = r.result
            /\ q.clash = r.clash /\ q.deferred = r.deferred
<1> DEFINE q == [r EXCEPT !.at = p]
<1>1. /\ q \in Round(P, R) /\ q.at = p
      /\ q.snap = r.snap /\ q.rows = r.rows /\ q.result = r.result
      /\ q.clash = r.clash /\ q.deferred = r.deferred
  BY DEF Round
<1>2. NoSync.at = "idle"
  BY DEF NoSync
<1> QED BY <1>1, <1>2

LEMMA EnsuredFacts ==
  ASSUME Ind, sync.at # "written"
  PROVE  /\ Ensured \in [open : {TRUE}, file : Sound] /\ Ensured # Closed
         /\ Ensured.file.entry = record.working.entry
<1>1. session = Closed => session.open = FALSE
  BY DEF Closed
<1>2. session # Closed => session.open = TRUE /\ session \in [open : {TRUE}, file : Sound]
  BY DEF Ind, Typed
<1>3. CASE session = Closed
  <2>1. Ensured = [open |-> TRUE, file |-> record.working]
    BY <1>1, <1>3 DEF Ensured, Opened
  <2>2. record.working \in Sound
    BY DEF Ind, Typed
  <2> QED BY <2>1, <2>2 DEF Closed
<1>4. CASE session # Closed
  <2>1. Ensured = session
    BY <1>2, <1>4 DEF Ensured
  <2> QED BY <1>2, <1>4, <2>1 DEF Ind, Copied
<1> QED BY <1>3, <1>4

LEMMA StartStep == ASSUME Ind, Start PROVE Ind'
<1> DEFINE at == IF HasReceipt THEN "recover" ELSE "read"
<1>1. /\ sync = NoSync /\ busy = NoOp /\ session' = Ensured /\ sync' = Begin(at)
      /\ UNCHANGED <<item, queue, restoring, conflict, remote, record, receipt, receipts, pending,
                     busy, origin, unseen, edits, remotes, faults>>
  BY DEF Start, vaultVars, diskVars, userVars
<1>2. Typed /\ sync.at = "idle"
  BY <1>1 DEF Ind, NoSync
<1>3. at \in Reading /\ at \in {"recover", "read"} /\ (at = "recover" <=> receipt # NoReceipt)
  BY DEF Reading, HasReceipt
<1> HIDE DEF at
<1>4. /\ sync' \in Round(Reading, Intent) /\ sync' # NoSync /\ sync'.at = at
      /\ sync'.snap = item /\ sync'.result = item
      /\ \A i \in Items : sync'.clash[i] = NoClash
  BY <1>1, <1>2, <1>3, BeginFacts
<1>5. /\ session' \in [open : {TRUE}, file : Sound] /\ session' # Closed
      /\ session'.file.entry = record.working.entry
  BY <1>1, <1>2, EnsuredFacts
<1>6. Typed'
  BY <1>1, <1>2, <1>4, <1>5 DEF Typed
<1>7. Owned'
  BY <1>1, <1>3, <1>4 DEF Ind, Owned, ItsClash, Writing
<1>8. Staged'
  BY <1>1, <1>3, <1>4, <1>5 DEF Staged
<1>9. Copied'
  BY <1>1, <1>3, <1>4, <1>5 DEF Ind, Copied
<1>10. Singles'
  BY <1>1, <1>3, <1>4 DEF Ind, Singles, Single
<1>11. Named'
  BY <1>1, <1>3, <1>4 DEF Ind, Named, Linkage, Held, Carried
<1>12. Wrote'
  BY <1>3, <1>4 DEF Wrote
<1> QED BY <1>6, <1>7, <1>8, <1>9, <1>10, <1>11, <1>12 DEF Ind

LEMMA RecoverReadStep == ASSUME Ind, RecoverRead PROVE Ind'
<1> DEFINE rows == [i \in {j \in Items : queue[j] # 0} |->
                      [id |-> queue[i], verb |-> VerbOf(item[i]), restore |-> i \in restoring]]
<1>1. /\ sync # NoSync /\ sync.at = "recover"
      /\ sync' = [sync EXCEPT !.at = "settle", !.snap = item, !.rows = rows]
      /\ UNCHANGED <<item, queue, restoring, conflict, remote, record, receipt, receipts, session,
                     pending, busy, origin, unseen, edits, remotes, faults>>
  BY DEF RecoverRead, At, vaultVars, diskVars, userVars
<1>2. Typed /\ item \in [Items -> Known] /\ queue \in [Items -> Nat]
  BY DEF Ind, Typed
<1>3. sync \in Round(Reading, Intent)
  BY <1>1, <1>2, SyncKinds DEF Reading
<1>4. rows \in Maps(Intent) /\ DOMAIN rows = {j \in Items : queue[j] # 0}
  <2>1. \A i \in Items : VerbOf(item[i]) \in Verbs
    BY DEF VerbOf, Verbs
  <2>2. \A i \in Items : [id |-> queue[i], verb |-> VerbOf(item[i]), restore |-> i \in restoring] \in Intent
    BY <1>2, <2>1 DEF Intent
  <2>3. rows \in [{j \in Items : queue[j] # 0} -> Intent]
    BY <2>2
  <2> HIDE DEF rows
  <2> QED BY <2>3, MapsIn
<1> HIDE DEF rows
<1>5. /\ sync' \in Round(Reading, Intent) /\ sync'.at = "settle" /\ sync'.snap = item
      /\ sync'.rows = rows /\ sync'.result = sync.result /\ sync'.clash = sync.clash
  BY <1>1, <1>2, <1>3, <1>4 DEF Round, Reading
<1>6. sync' # NoSync
  BY <1>5 DEF NoSync
<1>7. Typed'
  BY <1>1, <1>2, <1>5 DEF Typed
<1>8. Owned'
  BY <1>1, <1>5 DEF Ind, Owned, Writing
<1>9. Staged'
  BY <1>1, <1>5 DEF Ind, Staged
<1>10. Copied'
  BY <1>1, <1>5 DEF Ind, Copied
<1>11. Singles'
  BY <1>1, <1>5 DEF Ind, Singles, Single
<1>12. Named'
  BY <1>1, <1>4, <1>5 DEF Ind, Named, Linkage, Held, Carried
<1>13. Wrote'
  BY <1>5 DEF Wrote
<1> QED BY <1>7, <1>8, <1>9, <1>10, <1>11, <1>12, <1>13 DEF Ind

LEMMA CheckFirstStep == ASSUME Ind, CheckFirst PROVE Ind'
<1>1. /\ sync # NoSync /\ sync.at = "read" /\ sync' = [Begin("probe") EXCEPT !.snap = item]
      /\ UNCHANGED <<item, queue, restoring, conflict, remote, record, receipt, receipts, session,
                     pending, busy, origin, unseen, edits, remotes, faults>>
  BY DEF CheckFirst, At, vaultVars, diskVars, userVars
<1>2. Typed /\ item \in [Items -> Known] /\ "probe" \in Reading
  BY DEF Ind, Typed, Reading
<1>3. /\ Begin("probe") \in Round(Reading, Intent) /\ Begin("probe").at = "probe"
      /\ Begin("probe").result = item /\ \A i \in Items : Begin("probe").clash[i] = NoClash
  BY <1>2, BeginFacts
<1>4. /\ sync' \in Round(Reading, Intent) /\ sync'.at = "probe" /\ sync'.snap = item
      /\ sync'.result = item /\ \A i \in Items : sync'.clash[i] = NoClash
  BY <1>1, <1>2, <1>3 DEF Round
<1>5. sync' # NoSync
  BY <1>4 DEF NoSync
<1>7. Typed'
  BY <1>1, <1>2, <1>4 DEF Typed
<1>8. Owned'
  BY <1>1, <1>4 DEF Ind, Owned, ItsClash, Writing
<1>9. Staged'
  BY <1>1, <1>4 DEF Ind, Staged
<1>10. Copied'
  BY <1>1, <1>4 DEF Ind, Copied
<1>11. Singles'
  BY <1>1, <1>4 DEF Ind, Singles, Single
<1>12. Named'
  BY <1>1, <1>4 DEF Ind, Named, Linkage, Held, Carried
<1>13. Wrote'
  BY <1>4 DEF Wrote
<1> QED BY <1>7, <1>8, <1>9, <1>10, <1>11, <1>12, <1>13 DEF Ind

LEMMA DeleteReceiptStep == ASSUME Ind, DeleteReceipt PROVE Ind'
<1>1. /\ sync # NoSync /\ sync.at \in {"applied", "recovered"} /\ receipt' = NoReceipt
      /\ sync' \in {Begin("read"), NoSync}
      /\ UNCHANGED <<item, queue, restoring, conflict, remote, record, receipts, session,
                     pending, busy, origin, unseen, edits, remotes, faults>>
  BY DEF DeleteReceipt, At, vaultVars, diskVars, userVars
<1>2. Typed /\ item \in [Items -> Known] /\ "read" \in Reading
  BY DEF Ind, Typed, Reading
<1>3. /\ Begin("read") \in Round(Reading, Intent) /\ Begin("read").at = "read"
      /\ Begin("read").snap = item
      /\ Begin("read").result = item /\ \A i \in Items : Begin("read").clash[i] = NoClash
  BY <1>2, BeginFacts
<1>4. /\ sync' \in {NoSync} \cup Round(Reading, Intent) /\ sync'.at \in {"idle", "read"}
      /\ sync' # NoSync => /\ sync'.snap = item /\ sync'.result = item
                           /\ \A i \in Items : sync'.clash[i] = NoClash
  BY <1>1, <1>3 DEF NoSync
<1>6. DOMAIN NoReceipt.rows = {} /\ DOMAIN receipt'.rows = {}
  BY <1>1 DEF NoReceipt, NoRows
<1>7. Typed'
  BY <1>1, <1>2, <1>4 DEF Typed
<1>8. Owned'
  BY <1>1, <1>4, <1>6 DEF Ind, Owned, ItsClash, Writing
<1>9. Staged'
  BY <1>1, <1>4 DEF Ind, Staged
<1>10. Copied'
  BY <1>1, <1>4 DEF Ind, Copied
<1>11. Singles'
  BY <1>1, <1>4 DEF Ind, Singles, Single
<1>12. Named'
  <2> SUFFICES ASSUME NEW i \in Items, NEW e \in Entries, Held(i, e)'
               PROVE  Linkage(i, e)'
    BY DEF Named
  <2>1. Held(i, e) /\ Linkage(i, e)
    BY <1>1 DEF Ind, Named, Held
  <2>2. Names(item[i], e) /\ Shows(conflict[i], e) /\ (queue[i] # 0 => item[i] # NoItem)
    BY <1>1, <2>1 DEF Linkage
  <2>3. Committed(receipt'.rows) = {}
    BY <1>6 DEF Committed
  <2> QED BY <1>1, <1>4, <2>2, <2>3 DEF Linkage
<1>13. Wrote'
  BY <1>4 DEF Wrote
<1> QED BY <1>7, <1>8, <1>9, <1>10, <1>11, <1>12, <1>13 DEF Ind
-----------------------------------------------------------------------------
(* Group operations. *)
LEMMA BeginMutationStep == ASSUME Ind, NEW o \in Ops, BeginMutation(o) PROVE Ind'
<1>1. /\ busy = NoOp /\ sync = NoSync /\ busy' = o /\ pending' = pending \cup {o}
      /\ session' \in {Ensured, Opened([Ensured.file EXCEPT !.groups = @ \cup {o}])}
      /\ UNCHANGED <<item, queue, restoring, conflict, remote, record, receipt, receipts, sync,
                     origin, unseen, edits, remotes, faults>>
  BY DEF BeginMutation, vaultVars, diskVars, userVars
<1>2. Typed /\ sync.at = "idle"
  BY <1>1 DEF Ind, NoSync
<1>3. /\ Ensured \in [open : {TRUE}, file : Sound] /\ Ensured # Closed
      /\ Ensured.file.entry = record.working.entry
  BY <1>2, EnsuredFacts
<1>4. /\ session' \in [open : {TRUE}, file : Sound] /\ session' # Closed
      /\ session'.file.entry = record.working.entry
  <2> DEFINE file == [Ensured.file EXCEPT !.groups = @ \cup {o}]
  <2>1. Ensured.file \in Sound
    BY <1>3
  <2>2. file \in Sound /\ file.entry = Ensured.file.entry
    BY <2>1 DEF Sound
  <2> HIDE DEF file
  <2>3. Opened(file) \in [open : {TRUE}, file : Sound] /\ Opened(file) # Closed /\ Opened(file).file = file
    BY <2>2 DEF Opened, Closed
  <2>4. session' \in {Ensured, Opened(file)}
    BY <1>1 DEF file
  <2> QED BY <1>3, <2>2, <2>3, <2>4
<1>5. Typed'
  BY <1>1, <1>2, <1>4 DEF Typed
<1>6. Owned'
  BY <1>1, <1>2 DEF Ind, Owned
<1>7. Staged'
  BY <1>1, <1>2, <1>4 DEF Ind, Staged
<1>8. Copied'
  BY <1>1, <1>2, <1>4 DEF Ind, Copied
<1>9. Singles'
  BY <1>1, <1>2 DEF Ind, Singles, Single
<1>10. Named'
  BY <1>1, <1>2 DEF Ind, Named, Linkage, Held, Carried
<1>11. Wrote'
  BY <1>1, <1>2 DEF Wrote
<1> QED BY <1>5, <1>6, <1>7, <1>8, <1>9, <1>10, <1>11 DEF Ind

LEMMA SaveMutationStep == ASSUME Ind, NEW o \in Ops, SaveMutation(o) PROVE Ind'
<1>1. /\ busy = o /\ busy' = NoOp /\ receipts' = receipts \cup {o} /\ pending' = pending \ {o}
      /\ record' = [record EXCEPT !.working = session.file, !.dirty = TRUE]
      /\ UNCHANGED <<item, queue, restoring, conflict, remote, receipt, session, sync,
                     origin, unseen, edits, remotes, faults>>
  BY DEF SaveMutation, Saved, vaultVars, userVars
<1>2. busy # NoOp
  BY <1>1, NamesAssumption
<1>3. Typed /\ sync = NoSync /\ sync.at = "idle" /\ session # Closed
  BY <1>2 DEF Ind, Staged, NoSync
<1>4. session.file \in Sound /\ session.file.entry = record.working.entry
  BY <1>3 DEF Ind, Typed, Copied
<1>5. /\ record' \in [base : Sound, working : Sound, dirty : BOOLEAN, current : BOOLEAN]
      /\ record'.base = record.base /\ record'.working = session.file
  BY <1>1, <1>3, <1>4 DEF Typed
<1>6. Typed'
  BY <1>1, <1>3, <1>5 DEF Typed
<1>7. Owned'
  BY <1>1 DEF Ind, Owned
<1>8. Staged'
  BY <1>1, <1>3 DEF Ind, Staged
<1>9. Copied'
  BY <1>1, <1>3, <1>4, <1>5 DEF Ind, Copied, Present
<1>10. Singles'
  BY <1>1, <1>3, <1>4, <1>5 DEF Ind, Singles, Single, Present
<1>11. Named'
  BY <1>1, <1>3, <1>4, <1>5 DEF Ind, Named, Linkage, Held, Carried, Present
<1>12. Wrote'
  BY <1>1, <1>3 DEF Wrote
<1> QED BY <1>6, <1>7, <1>8, <1>9, <1>10, <1>11, <1>12 DEF Ind
-----------------------------------------------------------------------------
(* The batch. *)
LEMMA BatchFacts == ASSUME Typed PROVE \A i \in BatchOf(queue) : i \in Items /\ queue[i] # 0
BY DEF BatchOf

LEMMA ReadAndWriteStep == ASSUME Ind, ReadAndWrite PROVE Ind'
<1> DEFINE given == BatchOf(queue)
           deferred == {i \in Items \ given : queue[i] # 0}
<1>1. /\ sync # NoSync /\ sync.at = "read" /\ Write(item, given, deferred, "written")
      /\ UNCHANGED <<item, queue, restoring, conflict, remote, record, receipt, receipts,
                     pending, busy, unseen, edits, remotes, faults>>
  BY DEF ReadAndWrite, At, vaultVars, diskVars, userVars
<1>2. /\ Typed /\ item \in [Items -> Known] /\ given \in SUBSET Items /\ deferred \in SUBSET Items
      /\ "written" \in Writing /\ session # Closed /\ busy = NoOp /\ receipt = NoReceipt
      /\ \A i \in given : queue[i] # 0
  BY <1>1, BatchFacts DEF Ind, Typed, Staged, Writing
<1>3. \A i \in Items : Its(origin, i, item[i])
  BY DEF Ind, Owned
<1>4. \A i \in Items : item[i].entry \notin FreeEntries
  BY DEF FreeEntries, Referred
<1> HIDE DEF given, deferred
<1>5. WrittenAs(item, given, "written")
  BY <1>1, <1>2, <1>3, <1>4, WriteFacts
<1> USE DEF WrittenAs
<1>6. /\ session.file.entry = record.working.entry /\ sync' # NoSync /\ session' # Closed
      /\ \A e \in Entries : Present(session.file, e) = Present(record.working, e)
  <2>1. session.file.entry = record.working.entry
    BY <1>1, <1>2 DEF Ind, Copied
  <2>2. sync' # NoSync /\ session' # Closed
    <3>1. Closed.open = FALSE /\ NoSync.at = "idle"
      BY DEF Closed, NoSync
    <3>2. session'.open = TRUE /\ sync'.at = "written"
      BY <1>5
    <3> QED BY <3>1, <3>2
  <2> QED BY <2>1, <2>2 DEF Present
<1>7. \A e \in Entries : Present(record.working, e) => origin'[e] = origin[e]
  <2>1. \A e \in Entries : e \in FreeEntries => record.working.entry[e] = Absent
    BY DEF FreeEntries
  <2> QED BY <1>5, <2>1 DEF Present
\* An item with an entry of its own is linked to it and is not made again.
<1>8. \A i \in Items, e \in Entries :
        origin'[e] = i /\ Present(record.working, e) =>
          /\ Names(item[i], e) /\ Shows(conflict[i], e)
          /\ queue[i] # 0 => item[i] # NoItem
  <2> SUFFICES ASSUME NEW i \in Items, NEW e \in Entries, origin'[e] = i, Present(record.working, e)
               PROVE  /\ Names(item[i], e) /\ Shows(conflict[i], e)
                      /\ queue[i] # 0 => item[i] # NoItem
    OBVIOUS
  <2>1. Linkage(i, e)
    BY <1>7 DEF Held, Ind, Named
  <2>2. ~Carried(i, e)
    BY <1>2 DEF Carried, Committed, NoReceipt, NoRows
  <2> QED BY <2>1, <2>2 DEF Linkage
<1>9. Single(origin', session'.file)
  <2> SUFFICES ASSUME NEW e \in Entries, NEW f \in Entries, origin'[e] \in Items,
                      origin'[e] = origin'[f], Present(session'.file, e), Present(session'.file, f)
               PROVE  e = f
    BY DEF Single
  <2>1. CASE Present(session.file, e) /\ Present(session.file, f)
    <3>1. Single(origin, record.working)
      BY DEF Ind, Singles
    <3> QED BY <1>6, <1>7, <2>1, <3>1 DEF Single
  <2>2. ASSUME NEW x \in Entries, NEW y \in Entries, origin'[x] \in Items, origin'[x] = origin'[y],
               Present(session'.file, y), Present(session.file, x), ~Present(session.file, y)
        PROVE  FALSE
    <3>1. PICK i \in given : origin'[y] = i /\ item[i] # NoItem /\ item[i].entry = 0
      BY <1>5, <2>2
    <3>2. Names(item[i], x)
      BY <1>2, <1>6, <1>8, <2>2, <3>1
    <3> QED BY <3>1, <3>2 DEF Names, Entries
  <2>3. CASE ~Present(session.file, e) /\ ~Present(session.file, f)
    BY <1>5, <2>3
  <2> QED BY <2>1, <2>2, <2>3
<1>10. Typed'
  BY <1>1, <1>2, <1>5 DEF Typed
<1>11. Owned'
  <2>1. \A i \in Items : ItsClash(origin', i, conflict[i])
    <3> SUFFICES ASSUME NEW i \in Items, conflict[i] # NoClash, conflict[i].copy.entry # 0
                 PROVE  origin'[conflict[i].copy.entry] = i
      BY DEF ItsClash, Its
    <3> DEFINE x == conflict[i].copy.entry
    <3>1. x \in Entries
      <4>1. conflict[i] \in Clashes
        BY <1>2 DEF Typed
      <4>2. conflict[i].copy \in Known
        BY <4>1 DEF Clashes
      <4> QED BY <4>2, KnownFacts DEF Entries
    <3>2. x \notin FreeEntries
      BY DEF FreeEntries, Referred
    <3>3. origin[x] = i
      BY DEF Ind, Owned, ItsClash, Its
    <3> QED BY <1>5, <3>1, <3>2, <3>3
  <2>2. DOMAIN receipt'.rows = {}
    BY <1>1, <1>2 DEF NoReceipt, NoRows
  <2> QED BY <1>1, <1>2, <1>5, <2>1, <2>2 DEF Owned
<1>12. Staged'
  BY <1>1, <1>2, <1>5, <1>6 DEF Staged
<1>13. Copied'
  BY <1>1, <1>5, <1>6 DEF Ind, Copied
<1>14. Singles'
  <2>1. Single(origin', record.working)
    BY <1>7 DEF Ind, Singles, Single
  <2> QED BY <1>1, <1>9, <2>1 DEF Singles
<1>15. Named'
  <2> SUFFICES ASSUME NEW i \in Items, NEW e \in Entries, Held(i, e)'
               PROVE  Linkage(i, e)'
    BY DEF Named
  <2>1. Names(item[i], e) /\ Shows(conflict[i], e) /\ (queue[i] # 0 => item[i] # NoItem)
    BY <1>1, <1>8 DEF Held
  <2>2. Committed(receipt'.rows) = {}
    BY <1>1, <1>2 DEF Committed, NoReceipt, NoRows
  <2> QED BY <1>1, <1>2, <1>5, <2>1, <2>2 DEF Linkage
<1>16. Wrote'
  <2> SUFFICES ASSUME NEW i \in Items, NEW e \in Entries, origin'[e] = i, Present(session'.file, e)
               PROVE  /\ sync'.result[i].entry = e /\ Shows(sync'.clash[i], e)
                      /\ queue[i] # 0 => item[i] # NoItem
                      /\ i \in Committed(sync'.rows) => sync'.rows[i].entry = e /\ item[i] # NoItem
                      /\ \/ Present(record.working, e)
                         \/ i \in Committed(sync'.rows) /\ sync'.rows[i].entry = e /\ item[i].entry = 0
    BY <1>1, <1>5 DEF Wrote
  <2>1. ~Present(session.file, e) =>
          i \in given /\ item[i] # NoItem /\ item[i].entry = 0 /\ ~item[i].bin /\ sync'.clash[i] = NoClash
    BY <1>5
  <2>2. sync'.result[i].entry = e /\ Shows(sync'.clash[i], e)
    BY <1>5, <1>6, <1>8, <1>9
  <2>3. ASSUME i \in Committed(sync'.rows)
        PROVE  sync'.rows[i].entry = e /\ item[i] # NoItem
    <3>1. i \in given
      BY <1>5, <2>3 DEF Committed
    <3>2. item[i] # NoItem
      BY <1>2, <1>6, <1>8, <2>1, <3>1
    <3>3. item[i].bin => item[i].entry = e
      BY <1>6, <1>8, <2>1, <3>2 DEF Names
    <3> QED BY <1>5, <2>2, <3>1, <3>2, <3>3
  <2>4. ~Present(record.working, e) =>
          i \in Committed(sync'.rows) /\ sync'.rows[i].entry = e /\ item[i].entry = 0
    BY <1>5, <1>6, <2>1, <2>2 DEF Committed
  <2>5. queue[i] # 0 => item[i] # NoItem
    BY <1>6, <1>8, <2>1
  <2> QED BY <2>2, <2>3, <2>4, <2>5
<1> QED BY <1>10, <1>11, <1>12, <1>13, <1>14, <1>15, <1>16 DEF Ind

LEMMA ProjectCheckedStep == ASSUME Ind, ProjectChecked PROVE Ind'
<1>1. /\ sync # NoSync /\ sync.at = "checked" /\ Write(sync.snap, {}, {}, "published")
      /\ UNCHANGED <<item, queue, restoring, conflict, remote, record, receipt, receipts,
                     pending, busy, unseen, edits, remotes, faults>>
  BY DEF ProjectChecked, At, vaultVars, diskVars, userVars
<1>2. /\ Typed /\ sync.snap \in [Items -> Known] /\ {} \in SUBSET Items
      /\ "published" \in Writing /\ session # Closed /\ busy = NoOp /\ receipt = NoReceipt
  BY <1>1, SyncKinds DEF Ind, Staged, Writing
<1>3. \A i \in Items : Its(origin, i, sync.snap[i])
  BY <1>1 DEF Ind, Owned
<1>4. PICK snap : snap = sync.snap
  OBVIOUS
<1>5. WrittenAs(snap, {}, "published")
  BY <1>1, <1>2, <1>3, <1>4, WriteFacts
<1> USE DEF WrittenAs
<1>6. /\ session'.file.entry = record.working.entry /\ origin' = origin
      /\ sync' # NoSync /\ session' # Closed
  <2>1. session.file.entry = record.working.entry
    BY <1>1, <1>2 DEF Ind, Copied
  <2>2. Closed.open = FALSE /\ NoSync.at = "idle"
    BY DEF Closed, NoSync
  <2>3. session'.open = TRUE /\ sync'.at = "published"
    BY <1>5
  <2> QED BY <1>5, <2>1, <2>2, <2>3
<1>7. Typed'
  BY <1>1, <1>2, <1>5 DEF Typed
<1>8. Owned'
  <2>1. DOMAIN receipt'.rows = {}
    BY <1>1, <1>2 DEF NoReceipt, NoRows
  <2> QED BY <1>1, <1>2, <1>5, <1>6, <2>1 DEF Ind, Owned
<1>9. Staged'
  BY <1>1, <1>2, <1>5, <1>6 DEF Staged
<1>10. Copied'
  BY <1>1, <1>5, <1>6 DEF Ind, Copied
<1>11. Singles'
  BY <1>1, <1>5, <1>6 DEF Ind, Singles
<1>12. Named'
  <2> SUFFICES ASSUME NEW i \in Items, NEW e \in Entries, Held(i, e)'
               PROVE  Linkage(i, e)'
    BY DEF Named
  <2>1. Linkage(i, e) /\ origin'[e] = i /\ Present(session'.file, e)
    BY <1>1, <1>6 DEF Ind, Named, Held, Present
  <2>2. ~Carried(i, e) /\ Committed(receipt'.rows) = {}
    BY <1>1, <1>2 DEF Carried, Committed, NoReceipt, NoRows
  <2>3. Names(item[i], e) /\ Shows(conflict[i], e) /\ (queue[i] # 0 => item[i] # NoItem)
    BY <2>1, <2>2 DEF Linkage
  <2>4. Names(snap[i], e)
    BY <1>1, <1>4, <2>1, <2>2 DEF Linkage
  <2>5. Single(origin', session'.file)
    BY <1>6 DEF Ind, Singles, Single, Present
  <2>6. sync'.result[i].entry = e /\ Shows(sync'.clash[i], e)
    BY <1>5, <2>1, <2>4, <2>5
  <2> QED BY <1>1, <1>2, <1>5, <2>2, <2>3, <2>6 DEF Linkage
<1>13. Wrote'
  BY <1>5 DEF Wrote
<1> QED BY <1>7, <1>8, <1>9, <1>10, <1>11, <1>12, <1>13 DEF Ind

LEMMA SaveBatchStep == ASSUME Ind, SaveBatch PROVE Ind'
<1>1. /\ sync # NoSync /\ sync.at = "written" /\ sync' = [sync EXCEPT !.at = "stored"]
      /\ \/ Committed(sync.rows) = {} /\ record' = record /\ receipt' = receipt
         \/ record' = Saved(session.file) /\ receipt' = ReceiptOf(sync)
      /\ UNCHANGED <<item, queue, restoring, conflict, remote, receipts, session, origin,
                     pending, busy, unseen, edits, remotes, faults>>
  BY DEF SaveBatch, At, vaultVars, userVars
<1>2. /\ Typed /\ sync \in Round(Writing, Row) /\ "stored" \in Writing /\ "stored" # "idle"
      /\ session # Closed /\ busy = NoOp /\ receipt = NoReceipt
  BY <1>1, SyncKinds DEF Ind, Staged, Writing
<1>3. /\ sync' \in Round(Writing, Row) /\ sync'.at = "stored" /\ sync' # NoSync
      /\ sync'.snap = sync.snap /\ sync'.rows = sync.rows /\ sync'.result = sync.result
      /\ sync'.clash = sync.clash
  BY <1>1, <1>2, PhaseMoves
<1>4. session.file \in Sound
  BY <1>2 DEF Typed
<1>5. \A i \in Items, e \in Entries : origin[e] = i /\ Present(session.file, e) =>
        /\ sync.result[i].entry = e /\ Shows(sync.clash[i], e)
        /\ queue[i] # 0 => item[i] # NoItem
        /\ i \in Committed(sync.rows) => sync.rows[i].entry = e /\ sync.snap[i] # NoItem
        /\ Present(record.working, e)
             \/ (i \in Committed(sync.rows) /\ sync.rows[i].entry = e /\ sync.snap[i].entry = 0)
  BY <1>1 DEF Ind, Wrote
<1>6. \A e \in Entries : Present(record.working, e) => Present(session.file, e)
  BY <1>1 DEF Ind, Copied
<1>7. \A i \in Items, e \in Entries : Held(i, e) =>
        Names(item[i], e) /\ Shows(conflict[i], e) /\ (queue[i] # 0 => item[i] # NoItem)
  <2>1. \A i, e : ~Carried(i, e)
    BY <1>2 DEF Carried, Committed, NoReceipt, NoRows
  <2> QED BY <2>1 DEF Ind, Named, Linkage
\* A batch of which nothing was committed.
<1>8. CASE Committed(sync.rows) = {} /\ record' = record /\ receipt' = receipt
  <2>1. Typed'
    BY <1>1, <1>2, <1>3, <1>8 DEF Typed
  <2>2. Owned'
    BY <1>1, <1>3, <1>8 DEF Ind, Owned, Writing
  <2>3. Staged'
    BY <1>1, <1>2, <1>3, <1>8 DEF Ind, Staged
  <2>4. Copied'
    BY <1>1, <1>3, <1>8 DEF Ind, Copied
  <2>5. Singles'
    BY <1>1, <1>3, <1>8 DEF Ind, Singles, Single
  <2>6. Named'
    <3> SUFFICES ASSUME NEW i \in Items, NEW e \in Entries, Held(i, e)'
                 PROVE  Linkage(i, e)'
      BY DEF Named
    <3>1. Held(i, e) /\ Present(session.file, e) /\ origin[e] = i
      BY <1>1, <1>6, <1>8 DEF Held
    <3>2. Committed(receipt'.rows) = {}
      BY <1>2, <1>8 DEF Committed, NoReceipt, NoRows
    <3> QED BY <1>1, <1>2, <1>3, <1>5, <1>7, <1>8, <3>1, <3>2 DEF Linkage
  <2>7. Wrote'
    BY <1>3 DEF Wrote
  <2> QED BY <2>1, <2>2, <2>3, <2>4, <2>5, <2>6, <2>7 DEF Ind
<1>9. CASE record' = Saved(session.file) /\ receipt' = ReceiptOf(sync)
  <2>1. /\ record' \in [base : Sound, working : Sound, dirty : BOOLEAN, current : BOOLEAN]
        /\ record'.base = record.base /\ record'.working = session.file
    BY <1>2, <1>4, <1>9 DEF Saved, Typed
  <2>2. /\ receipt' \in Receipt /\ receipt'.rows = sync.rows /\ receipt'.snap = sync.snap
        /\ receipt'.clash = sync.clash
    BY <1>2, <1>9 DEF ReceiptOf, Receipt, Round
  <2>3. Typed'
    BY <1>1, <1>2, <1>3, <2>1, <2>2 DEF Typed
  <2>4. Owned'
    BY <1>1, <1>3, <2>2 DEF Ind, Owned, Writing
  <2>5. Staged'
    BY <1>1, <1>2, <1>3, <2>2 DEF Staged
  <2>6. Copied'
    BY <1>1, <1>3, <1>6, <2>1 DEF Ind, Copied
  <2>7. Singles'
    BY <1>1, <1>3, <2>1 DEF Ind, Singles, Single
  <2>8. Named'
    <3> SUFFICES ASSUME NEW i \in Items, NEW e \in Entries, Held(i, e)'
                 PROVE  Linkage(i, e)'
      BY DEF Named
    <3>1. Present(session.file, e) /\ origin[e] = i
      BY <1>1, <2>1 DEF Held
    <3>2. Carried(i, e)' \/ Held(i, e)
      BY <1>5, <2>2, <3>1 DEF Carried, Held
    <3> QED BY <1>1, <1>3, <1>5, <1>7, <2>2, <3>1, <3>2 DEF Linkage
  <2>9. Wrote'
    BY <1>3 DEF Wrote
  <2> QED BY <2>3, <2>4, <2>5, <2>6, <2>7, <2>8, <2>9 DEF Ind
<1> QED BY <1>1, <1>8, <1>9
-----------------------------------------------------------------------------
(* The publication. *)
LEMMA AdvanceFacts ==
  ASSUME Typed, Publishing
  PROVE  LET q == [sync EXCEPT !.at = PhaseAfter(@)]
         IN /\ q \in Round(Reading, Intent) \cup Round(Writing, Row)
            /\ q \in Round(Reading, Intent) => sync \in Round(Reading, Intent)
            /\ q # NoSync /\ sync # NoSync
            /\ <<sync.at, q.at>> \in {<<"settle", "settled">>, <<"probe", "checked">>,
                                      <<"stored", "published">>}
            /\ q.snap = sync.snap /\ q.rows = sync.rows /\ q.result = sync.result
            /\ q.clash = sync.clash
<1> DEFINE p == PhaseAfter(sync.at)
           q == [sync EXCEPT !.at = p]
<1>1. sync # NoSync /\ sync.at \in {"settle", "probe", "stored"}
  BY DEF Publishing, At
<1>2. <<sync.at, p>> \in {<<"settle", "settled">>, <<"probe", "checked">>, <<"stored", "published">>}
  BY <1>1 DEF PhaseAfter
<1> HIDE DEF p
<1>3. p # "idle"
  BY <1>2
<1>4. CASE sync.at \in {"settle", "probe"}
  <2>1. sync \in Round(Reading, Intent)
    BY <1>1, <1>4, SyncKinds DEF Reading
  <2>2. p \in Reading
    BY <1>2, <1>4 DEF Reading
  <2>3. /\ q \in Round(Reading, Intent) /\ q.at = p /\ q # NoSync
        /\ q.snap = sync.snap /\ q.rows = sync.rows /\ q.result = sync.result
        /\ q.clash = sync.clash
    BY <1>3, <2>1, <2>2, PhaseMoves
  <2> HIDE DEF q
  <2> QED BY <1>1, <1>2, <2>1, <2>3 DEF q, p
<1>5. CASE sync.at = "stored"
  <2>1. sync \in Round(Writing, Row)
    BY <1>1, <1>5, SyncKinds DEF Writing
  <2>2. p \in Writing
    BY <1>2, <1>5 DEF Writing
  <2>3. /\ q \in Round(Writing, Row) /\ q.at = p /\ q # NoSync
        /\ q.snap = sync.snap /\ q.rows = sync.rows /\ q.result = sync.result
        /\ q.clash = sync.clash
    BY <1>3, <2>1, <2>2, PhaseMoves
  <2>4. q \notin Round(Reading, Intent)
    BY <1>2, <1>5, <2>3 DEF Round, Reading
  <2> HIDE DEF q
  <2> QED BY <1>1, <1>2, <2>1, <2>3, <2>4 DEF q, p
<1> QED BY <1>1, <1>4, <1>5

(* What a synchronization projects anew still names the entries of the file. *)
LEMMA RereadFacts ==
  ASSUME Typed, Owned, sync # NoSync, sync.at = "stored", NEW file \in Sound
  PROVE  LET q == Reread(file)
         IN /\ q \in Round(Writing, Row) /\ q.at = "published" /\ q # NoSync
            /\ q.snap = sync.snap /\ q.rows = sync.rows
            /\ \A i \in Items : Its(origin, i, q.result[i]) /\ q.clash[i] = NoClash
            /\ \A i \in Items, e \in Entries :
                 /\ Single(origin, file) /\ origin[e] = i /\ Present(file, e)
                 /\ sync.result[i].entry = e
                 => q.result[i].entry = e
<1> DEFINE r == Refreshed(sync.result, file)
           c == [i \in Items |-> NoClash]
           q == [sync EXCEPT !.at = "published", !.result = r, !.clash = c]
<1>1. sync \in Round(Writing, Row) /\ sync.result \in [Items -> Known] /\ "published" \in Writing
  BY SyncKinds DEF Writing
<1>2. Reread(file) = q
  BY DEF Reread, At
<1>3. \A i \in Items : Its(origin, i, sync.result[i])
  BY DEF Owned
<1>4. origin \in [Entries -> Items \cup {NoOp}]
  BY DEF Typed
<1>5. \A i \in Items :
        /\ r[i] = Projected(i, sync.result, origin, file)
        /\ r[i] \in Known /\ Its(origin, i, r[i])
        /\ \A e \in Entries :
             /\ origin[e] = i /\ Present(file, e) /\ Single(origin, file)
             /\ Names(sync.result[i], e)
             => r[i].entry = e
  <2>1. \A i \in Items : r[i] = Projected(i, sync.result, origin, file)
    BY DEF Refreshed
  <2> HIDE DEF r
  <2> QED BY <1>1, <1>3, <1>4, <2>1, ProjectedFacts
<1>6. r \in [Items -> Known]
  <2>1. r = [i \in Items |-> r[i]]
    BY DEF Refreshed
  <2> HIDE DEF r
  <2> QED BY <1>5, <2>1
<1>7. c \in [Items -> Clashes] /\ \A i \in Items : c[i] = NoClash
  BY DEF Clashes
<1> HIDE DEF r, c
<1>8. /\ q \in Round(Writing, Row) /\ q.at = "published"
      /\ q.snap = sync.snap /\ q.rows = sync.rows /\ q.result = r /\ q.clash = c
  BY <1>1, <1>6, <1>7 DEF Round
<1> HIDE DEF q
<1>9. q # NoSync
  BY <1>8 DEF NoSync
<1> QED BY <1>2, <1>5, <1>7, <1>8, <1>9 DEF Names

LEMMA PublishKeeps ==
  ASSUME Ind, Publishing,
         UNCHANGED <<vaultVars, receipt, receipts, pending, busy, origin, userVars, remotes, faults>>,
         remote' \in Sound,
         record' \in [base : Sound, working : Sound, dirty : BOOLEAN, current : BOOLEAN],
         session' \in [open : {TRUE}, file : Sound],
         session'.file.entry = record'.working.entry,
         \A e \in Entries : Present(remote', e) \/ Present(record'.base, e) => Present(record'.working, e),
         \A e \in Entries : Present(record'.working, e) => Present(record.working, e),
         \/ sync' = [sync EXCEPT !.at = PhaseAfter(@)]
         \/ sync.at = "stored" /\ sync' = Reread(record'.working)
  PROVE  Ind'
<1>1. /\ Typed /\ Owned /\ sync # NoSync /\ busy = NoOp
      /\ UNCHANGED <<item, queue, restoring, conflict, receipt, receipts, pending, busy, origin,
                     unseen, edits, remotes, faults>>
  BY DEF Ind, Staged, Publishing, At, vaultVars, userVars
<1>2. Single(origin, record'.working)
  BY DEF Ind, Singles, Single
<1>3. session' # Closed
  <2>1. Closed.open = FALSE /\ session'.open = TRUE
    BY DEF Closed
  <2> QED BY <2>1
<1>4. /\ sync' \in Round(Reading, Intent) \cup Round(Writing, Row) /\ sync' # NoSync
      /\ <<sync.at, sync'.at>> \in {<<"settle", "settled">>, <<"probe", "checked">>,
                                    <<"stored", "published">>}
      /\ sync'.snap = sync.snap /\ sync'.rows = sync.rows
      /\ \A i \in Items : /\ Its(origin, i, sync'.result[i])
                          /\ sync'.clash[i] \in {NoClash, sync.clash[i]}
      /\ \A i \in Items, e \in Entries :
           /\ origin[e] = i /\ Present(record'.working, e) /\ sync.result[i].entry = e
           => sync'.result[i].entry = e
  <2>1. CASE sync' = [sync EXCEPT !.at = PhaseAfter(@)]
    BY <1>1, <2>1, AdvanceFacts DEF Owned
  <2>2. CASE sync.at = "stored" /\ sync' = Reread(record'.working)
    <3>1. PICK file \in Sound : file = record'.working
      OBVIOUS
    <3> QED BY <1>1, <1>2, <2>2, <3>1, RereadFacts
  <2> QED BY <2>1, <2>2
<1>5. Typed'
  BY <1>1, <1>4 DEF Typed
<1>6. Owned'
  <2>1. \A i \in Items : ItsClash(origin, i, sync'.clash[i]) /\ Its(origin, i, sync'.snap[i])
    BY <1>1, <1>4 DEF Owned, ItsClash
  <2>2. sync'.at \in Writing => sync.at \in Writing
    BY <1>4 DEF Writing
  <2> QED BY <1>1, <1>4, <2>1, <2>2 DEF Owned
<1>7. Staged'
  BY <1>1, <1>3, <1>4 DEF Ind, Staged
<1>8. Copied'
  BY <1>4 DEF Copied
<1>9. Singles'
  BY <1>1, <1>2, <1>4 DEF Singles
<1>10. Named'
  <2> SUFFICES ASSUME NEW i \in Items, NEW e \in Entries, Held(i, e)'
               PROVE  Linkage(i, e)'
    BY DEF Named
  <2>1. origin[e] = i /\ Present(record'.working, e) /\ Linkage(i, e)
    BY <1>1 DEF Ind, Named, Held
  <2>2. sync'.at = "published" => sync'.result[i].entry = e /\ Shows(sync'.clash[i], e)
    BY <1>4, <2>1 DEF Linkage, Shows
  <2> QED BY <1>1, <1>4, <2>1, <2>2 DEF Linkage, Carried
<1>11. Wrote'
  BY <1>4 DEF Wrote
<1> QED BY <1>5, <1>6, <1>7, <1>8, <1>9, <1>10, <1>11 DEF Ind

LEMMA PublishStep == ASSUME Ind, Publish PROVE Ind'
<1>1. /\ Publishing /\ Typed /\ Copied /\ session # Closed /\ sync.at # "written"
      /\ UNCHANGED <<vaultVars, receipt, receipts, pending, busy, origin, userVars, remotes, faults>>
  BY DEF Publish, PublishUnchanged, PublishRefreshed, PublishWritten, Publishing, At, Ind, Staged
<1>2. CASE PublishUnchanged
  <2>1. UNCHANGED <<remote, record, session>> /\ sync' = [sync EXCEPT !.at = PhaseAfter(@)]
    BY <1>2 DEF PublishUnchanged
  <2> QED BY <1>1, <2>1, PublishKeeps DEF Typed, Copied
<1>3. ASSUME NEW file \in Sound, remote' = file, record' = Synced(file), session' = Opened(file),
             \A e \in Entries : Present(file, e) => Present(record.working, e),
             \/ sync' = [sync EXCEPT !.at = PhaseAfter(@)]
             \/ sync' = Reread(file)
      PROVE  Ind'
  <2>1. /\ record' \in [base : Sound, working : Sound, dirty : BOOLEAN, current : BOOLEAN]
        /\ record'.base = file /\ record'.working = file
    BY <1>3 DEF Synced
  <2>2. session' \in [open : {TRUE}, file : Sound] /\ session'.file = file
    BY <1>3 DEF Opened
  <2>3. \/ sync' = [sync EXCEPT !.at = PhaseAfter(@)]
        \/ sync.at = "stored" /\ sync' = Reread(record'.working)
    BY <1>3, <2>1 DEF Reread, At
  <2> QED BY <1>1, <1>3, <2>1, <2>2, <2>3, PublishKeeps
<1>4. CASE PublishRefreshed
  <2>1. /\ UNCHANGED remote /\ record' = Synced(remote) /\ session' = Opened(remote)
        /\ sync' = Reread(remote)
    BY <1>4 DEF PublishRefreshed
  <2> QED BY <1>1, <1>3, <2>1 DEF Typed, Copied
<1>5. CASE PublishWritten
  <2>1. /\ remote' = ToWrite /\ record' = Synced(ToWrite) /\ session' = Opened(ToWrite)
        /\ \/ sync' = [sync EXCEPT !.at = PhaseAfter(@)]
           \/ sync' = Reread(ToWrite)
    BY <1>5 DEF PublishWritten
  <2> QED BY <1>1, <1>3, <2>1, ToWriteFacts
<1> QED BY <1>2, <1>4, <1>5 DEF Publish
-----------------------------------------------------------------------------
(* The merge of a result. *)
LEMMA ReferenceFacts ==
  ASSUME NEW local \in Known, local # NoItem, NEW incoming \in Known
  PROVE  /\ WithReference(local, incoming) \in Known \ {NoItem}
         /\ WithReference(local, incoming).entry = incoming.entry
<1>1. local \in Item /\ local.text # 0 /\ incoming \in Item /\ NoItem.text = 0
  BY KnownFacts DEF Known, NoItem
<1>2. /\ WithReference(local, incoming) \in Item
      /\ WithReference(local, incoming).entry = incoming.entry
      /\ WithReference(local, incoming).text = local.text
  BY <1>1 DEF WithReference, Item
<1> QED BY <1>1, <1>2 DEF Known

(* The merged item refers to an entry made for it, and to the one that the   *)
(* result names if the vault's own item did or a batch linked it.            *)
LEMMA MergingFacts ==
  ASSUME NEW i \in Items, item[i] \in Known, NEW before \in Known, NEW incoming \in Known,
         NEW acked, NEW rows, i \in acked => rows[i] \in Row /\ Its(origin, i, rows[i]),
         Its(origin, i, incoming), Its(origin, i, item[i])
  PROVE  LET it == Merging(i, before, incoming, acked, rows).item
         IN /\ it \in Known /\ Its(origin, i, it)
            /\ incoming # NoItem /\ item[i] # NoItem => it # NoItem
            /\ \A e \in Entries :
                 /\ incoming.entry = e
                 /\ Names(item[i], e) \/ (before # NoItem /\ before.entry = 0)
                 => Names(it, e)
<1> DEFINE local == item[i]
           it    == Merging(i, before, incoming, acked, rows).item
           ack   == i \in acked /\ local # NoItem /\ (local # before \/ FollowUp(i, rows[i]))
           links == local # NoItem /\ before.entry = 0 /\ incoming.entry # 0
<1>1. it = IF before = NoItem THEN IF local = NoItem THEN incoming ELSE local
           ELSE IF ack THEN Acknowledged(local, incoming, rows[i])
           ELSE IF local.bin /\ incoming = NoItem THEN incoming
           ELSE IF links THEN WithReference(local, incoming)
           ELSE IF local # NoItem /\ incoming = NoItem THEN local
           ELSE IF local = before THEN incoming ELSE local
  BY DEF Merging
<1>2. local \in Known /\ NoItem.entry = 0 /\ \A e \in Entries : e # 0
  BY KnownFacts DEF Entries
<1> HIDE DEF it, local
<1>3. CASE before # NoItem /\ ack
  <2>1. it = Acknowledged(local, incoming, rows[i]) /\ local # NoItem /\ i \in acked
    BY <1>1, <1>3
  <2>2. CASE incoming = NoItem
    <3>1. it = [local EXCEPT !.entry = rows[i].entry]
      BY <2>1, <2>2 DEF Acknowledged
    <3>2. rows[i].entry \in 0..MaxEntries
      BY <2>1 DEF Row
    <3>3. it \in Known \ {NoItem} /\ it.entry = rows[i].entry
      BY <1>2, <2>1, <3>1, <3>2, RelinkedFacts
    <3> QED BY <1>2, <2>1, <2>2, <3>3 DEF Its, it
  <2>3. CASE incoming # NoItem
    <3>1. it = WithReference(local, incoming)
      BY <2>1, <2>3 DEF Acknowledged
    <3>2. it \in Known \ {NoItem} /\ it.entry = incoming.entry
      BY <1>2, <2>1, <3>1, ReferenceFacts
    <3> QED BY <3>2 DEF Its, Names, it
  <2> QED BY <2>2, <2>3
<1>4. CASE it = WithReference(local, incoming) /\ local # NoItem
  <2>1. it \in Known \ {NoItem} /\ it.entry = incoming.entry
    BY <1>2, <1>4, ReferenceFacts
  <2> QED BY <2>1 DEF Its, Names, it
<1>5. CASE it = incoming
  BY <1>5 DEF Its, Names, it
<1>6. CASE /\ it = local
           /\ \/ before = NoItem \/ local = NoItem \/ incoming = NoItem
              \/ before.entry # 0 \/ incoming.entry = 0
  BY <1>2, <1>6 DEF Its, Names, it, local
<1> QED BY <1>1, <1>3, <1>4, <1>5, <1>6

LEMMA NextQueueType ==
  ASSUME Typed, NEW i \in Items, NEW m, NEW clashes, NEW deferred, NEW acked, NEW rows
  PROVE  /\ NextQueue(i, m, clashes, deferred, acked, rows) \in Nat
         /\ NextQueue(i, m, clashes, deferred, acked, rows) # 0 => queue[i] # 0 \/ m.item.bin
<1>1. FreshId \in Nat /\ queue[i] \in Nat
  BY FreshIdType DEF Typed
<1> QED BY <1>1 DEF NextQueue

LEMMA ApplyKeeps ==
  ASSUME Ind, sync # NoSync,
         NEW snap \in [Items -> Known], NEW incoming \in [Items -> Known],
         NEW clash \in [Items -> Clashes], NEW acked \in SUBSET DOMAIN receipt.rows,
         NEW ids, NEW deferred, NEW next,
         Apply(snap, incoming, clash, acked, ids, receipt.rows, deferred, next),
         UNCHANGED <<remote, diskVars, busy, origin, edits, remotes, faults>>,
         \A i \in Items : Its(origin, i, incoming[i]) /\ ItsClash(origin, i, clash[i]),
         \A i \in Items, e \in Entries : Held(i, e) =>
           /\ incoming[i].entry = e /\ Shows(clash[i], e)
           /\ Carried(i, e) => snap[i] # NoItem /\ snap[i].entry = 0,
         \/ sync.at = "published" /\ next = "applied"
         \/ sync.at = "settled" /\ next = "recovered"
  PROVE  Ind'
<1> DEFINE merged == [i \in Items |-> Merging(i, snap[i], incoming[i], acked, receipt.rows)]
           clashes == [i \in Items |->
             IF clash[i] # NoClash THEN clash[i]
             ELSE IF merged[i].clash THEN ClashOf(incoming[i]) ELSE NoClash]
<1>1. /\ Typed /\ Owned /\ busy = NoOp /\ session # Closed
      /\ item \in [Items -> Known] /\ restoring \subseteq Items /\ unseen \subseteq Texts
  BY DEF Ind, Typed, Staged
<1>2. CASE ~Consumed(acked, ids, clashes)
  <2>1. /\ sync' = NoSync /\ session' = Closed /\ pending' = {}
        /\ UNCHANGED <<vaultVars, unseen>>
    BY <1>2 DEF Apply
  <2>2. /\ UNCHANGED <<vaultVars, receipt, receipts, origin, userVars, remotes>>
        /\ busy' = NoOp /\ remote' = remote /\ record' = record /\ faults' = faults
    BY <1>1, <2>1 DEF diskVars, userVars
  <2>3. \A e \in Entries : Present(remote', e) => Present(record.working, e)
    BY <2>2 DEF Ind, Copied
  <2> QED BY <1>1, <2>1, <2>2, <2>3, ForgetKeeps DEF Typed
<1>3. CASE Consumed(acked, ids, clashes)
  <2>1. /\ item' = [i \in Items |-> merged[i].item]
        /\ queue' = [i \in Items |->
             NextQueue(i, merged[i], clashes, deferred, acked, receipt.rows)]
        /\ restoring' \subseteq restoring /\ conflict' = clashes /\ unseen' \subseteq unseen
        /\ sync' = [sync EXCEPT !.at = next]
        /\ UNCHANGED <<session, pending>>
    BY <1>3 DEF Apply
  <2>2. /\ UNCHANGED <<session, pending, remote, record, receipt, receipts, busy, origin, edits,
                       remotes, faults>>
    BY <2>1 DEF diskVars
  <2>3. \A i \in DOMAIN receipt.rows : receipt.rows[i] \in Row /\ Its(origin, i, receipt.rows[i])
    BY <1>1, ReceiptRows DEF Owned
  <2>4. \A i \in Items : Its(origin, i, item[i])
    BY <1>1 DEF Owned
  <2>5. \A i \in Items :
          /\ merged[i].item \in Known /\ Its(origin, i, merged[i].item)
          /\ incoming[i] # NoItem /\ item[i] # NoItem => merged[i].item # NoItem
          /\ \A e \in Entries :
               /\ incoming[i].entry = e
               /\ Names(item[i], e) \/ (snap[i] # NoItem /\ snap[i].entry = 0)
               => Names(merged[i].item, e)
    <3>1. \A i \in Items : merged[i] = Merging(i, snap[i], incoming[i], acked, receipt.rows)
      OBVIOUS
    <3>2. \A i \in Items : i \in acked => receipt.rows[i] \in Row /\ Its(origin, i, receipt.rows[i])
      BY <2>3
    <3> HIDE DEF merged
    <3> QED BY <1>1, <2>4, <3>1, <3>2, MergingFacts
  <2>6. /\ clashes \in [Items -> Clashes]
        /\ \A i \in Items : ItsClash(origin, i, clashes[i])
        /\ \A i \in Items : clashes[i] \in {clash[i], ClashOf(incoming[i]), NoClash}
    <3>1. \A i \in Items : ClashOf(incoming[i]) \in Clashes /\ ClashOf(incoming[i]).copy = incoming[i]
      BY DEF ClashOf, Clashes
    <3>2. NoClash \in Clashes
      BY DEF Clashes
    <3>3. \A i \in Items : clashes[i] \in {clash[i], ClashOf(incoming[i]), NoClash}
      OBVIOUS
    <3>4. clashes = [i \in Items |-> clashes[i]]
      OBVIOUS
    <3> HIDE DEF clashes
    <3>5. clashes \in [Items -> Clashes]
      BY <3>1, <3>2, <3>3, <3>4
    <3> QED BY <3>1, <3>3, <3>5 DEF ItsClash
  <2> HIDE DEF merged, clashes
  <2>7. item' \in [Items -> Known] /\ \A i \in Items : item'[i] = merged[i].item
    BY <2>1, <2>5
  <2>8. /\ queue' \in [Items -> Nat]
        /\ \A i \in Items : queue'[i] # 0 => queue[i] # 0 \/ item'[i].bin
    BY <1>1, <2>1, <2>7, NextQueueType
  <2>9. /\ sync' # NoSync /\ sync'.at = next
        /\ sync'.snap = sync.snap /\ sync'.result = sync.result /\ sync'.rows = sync.rows
        /\ sync'.clash = sync.clash
        /\ sync' \in Round(Reading, Intent) \cup Round(Writing, Row)
        /\ sync'.at \in Writing => sync.at \in Writing
    <3>1. CASE sync.at = "published" /\ next = "applied"
      <4>1. sync \in Round(Writing, Row) /\ next \in Writing /\ next # "idle" /\ sync.at \in Writing
        BY <1>1, <3>1, SyncKinds DEF Writing
      <4> QED BY <2>1, <4>1, PhaseMoves
    <3>2. CASE sync.at = "settled" /\ next = "recovered"
      <4>1. sync \in Round(Reading, Intent) /\ next \in Reading /\ next # "idle" /\ next \notin Writing
        BY <1>1, <3>2, SyncKinds DEF Reading, Writing
      <4> QED BY <2>1, <4>1, PhaseMoves
    <3> QED BY <3>1, <3>2
  <2>10. Typed'
    BY <1>1, <2>1, <2>2, <2>6, <2>7, <2>8, <2>9 DEF Typed
  <2>11. Owned'
    BY <1>1, <2>1, <2>2, <2>5, <2>6, <2>7, <2>9 DEF Owned
  <2>12. Staged'
    BY <2>2, <2>9 DEF Ind, Staged
  <2>13. Copied'
    BY <2>2, <2>9 DEF Ind, Copied
  <2>14. Singles'
    BY <2>2, <2>9 DEF Ind, Singles, Single
  <2>15. Named'
    <3> SUFFICES ASSUME NEW i \in Items, NEW e \in Entries, Held(i, e)'
                 PROVE  Linkage(i, e)'
      BY DEF Named
    <3>1. Held(i, e) /\ Linkage(i, e) /\ e # 0
      BY <2>2 DEF Ind, Named, Held, Entries
    <3>2. Names(item'[i], e)
      BY <2>5, <2>7, <3>1 DEF Linkage
    <3>3. Shows(conflict'[i], e)
      BY <2>1, <2>6, <3>1 DEF Shows, ClashOf
    <3>4. incoming[i] # NoItem
      BY <3>1, KnownFacts
    <3>5. queue'[i] # 0 => item'[i] # NoItem
      <4>1. NoItem.bin = FALSE
        BY DEF NoItem
      <4> QED BY <2>5, <2>7, <2>8, <3>1, <3>4, <4>1 DEF Linkage
    <3> QED BY <2>2, <2>9, <3>1, <3>2, <3>3, <3>5 DEF Linkage
  <2>16. Wrote'
    BY <2>9 DEF Wrote
  <2> QED BY <2>10, <2>11, <2>12, <2>13, <2>14, <2>15, <2>16 DEF Ind
<1> QED BY <1>2, <1>3

LEMMA ApplyResultStep == ASSUME Ind, ApplyResult PROVE Ind'
<1>1. /\ sync # NoSync /\ sync.at = "published"
      /\ Apply(sync.snap, sync.result, sync.clash, Confirms(QueueNow), QueueNow, receipt.rows,
               sync.deferred, "applied")
      /\ UNCHANGED <<remote, diskVars, busy, origin, edits, remotes, faults>>
  BY DEF ApplyResult, At
<1>2. /\ sync.snap \in [Items -> Known] /\ sync.result \in [Items -> Known]
      /\ sync.clash \in [Items -> Clashes]
  BY <1>1, SyncKinds DEF Ind
<1>3. \A i \in Items : Its(origin, i, sync.result[i]) /\ ItsClash(origin, i, sync.clash[i])
  BY <1>1 DEF Ind, Owned
<1>4. ASSUME NEW i \in Items, NEW e \in Entries, Held(i, e)
      PROVE  /\ sync.result[i].entry = e /\ Shows(sync.clash[i], e)
             /\ Carried(i, e) => sync.snap[i] # NoItem /\ sync.snap[i].entry = 0
  <2>1. Linkage(i, e)
    BY <1>4 DEF Ind, Named
  <2>2. Carried(i, e) => receipt.snap[i] # NoItem /\ receipt.snap[i].entry = 0 /\ receipt # NoReceipt
    BY <2>1 DEF Linkage, Carried, Committed, NoReceipt, NoRows
  <2> QED BY <1>1, <2>1, <2>2 DEF Linkage, Ind, Staged
<1>5. Confirms(QueueNow) \in SUBSET DOMAIN receipt.rows
  BY DEF Confirms
<1>6. PICK snap, result, clash, deferred :
        /\ snap = sync.snap /\ result = sync.result /\ clash = sync.clash
        /\ deferred = sync.deferred
  OBVIOUS
<1>7. PICK ids, acked : ids = QueueNow /\ acked = Confirms(QueueNow)
  OBVIOUS
<1>8. Apply(snap, result, clash, acked, ids, receipt.rows, deferred, "applied")
  BY <1>1, <1>6, <1>7
<1> QED BY <1>1, <1>2, <1>3, <1>4, <1>5, <1>6, <1>7, <1>8, ApplyKeeps

(* What a recovery brings: what was read, of items that the receipt does not  *)
(* confirm, and what the file has of the others.                              *)
LEMMA RecoveredFacts ==
  ASSUME Ind, sync # NoSync, sync.at = "settled"
  PROVE  /\ receipt \in Receipt /\ session.file \in Sound /\ sync.snap \in [Items -> Known]
         /\ RecoveredItems \in [Items -> Known]
         /\ \A i \in Items : Its(origin, i, RecoveredItems[i])
         /\ \A i \in Items, e \in Entries : Held(i, e) => RecoveredItems[i].entry = e
         /\ \E ids \in [Items -> Known] : \A i \in Items :
              /\ i \notin Committed(receipt.rows) => ids[i] = sync.snap[i]
              /\ RecoveredItems[i] = IF i \in DOMAIN sync.rows \ Committed(receipt.rows)
                                     THEN sync.snap[i]
                                     ELSE Projected(i, ids, origin, session.file)
<1> DEFINE named    == Committed(receipt.rows)
           deferred == DOMAIN sync.rows \ named
           ids      == [i \in Items |-> IF i \in named /\ sync.snap[i] # NoItem
                                        THEN [sync.snap[i] EXCEPT !.entry = receipt.rows[i].entry]
                                        ELSE sync.snap[i]]
           incoming == RecoveredItems
<1>2. /\ Typed /\ receipt # NoReceipt /\ session # Closed
      /\ session.file.entry = record.working.entry
  BY DEF Ind, Staged, Copied
<1>3. /\ receipt \in Receipt /\ sync.snap \in [Items -> Known]
      /\ session.file \in Sound /\ origin \in [Entries -> Items \cup {NoOp}]
  <2>1. receipt \in Receipt /\ session.file \in Sound /\ origin \in [Entries -> Items \cup {NoOp}]
    BY <1>2 DEF Typed
  <2> QED BY <1>2, <2>1, SyncKinds
<1>4. /\ named \subseteq Items
      /\ \A i \in named : /\ receipt.rows[i].entry \in 0..MaxEntries
                          /\ Its(origin, i, receipt.rows[i])
  BY <1>2, ReceiptRows DEF Ind, Owned, Committed, Row
<1>5. /\ \A i \in Items : Its(origin, i, sync.snap[i])
      /\ Single(origin, session.file)
  BY <1>2 DEF Ind, Owned, Singles, Single, Present
<1>7. incoming = [i \in Items |-> IF i \in deferred THEN sync.snap[i]
                                  ELSE Projected(i, ids, origin, session.file)]
  BY DEF RecoveredItems, KeptBack
<1> HIDE DEF incoming
<1>8. /\ ids \in [Items -> Known]
      /\ \A i \in Items : /\ Its(origin, i, ids[i])
                          /\ sync.snap[i] = NoItem => ids[i] = NoItem
                          /\ i \in named /\ sync.snap[i] # NoItem => ids[i].entry = receipt.rows[i].entry
                          /\ i \notin named => ids[i] = sync.snap[i]
  <2> HIDE DEF named
  <2>1. ASSUME NEW i \in Items
        PROVE  /\ ids[i] \in Known /\ Its(origin, i, ids[i])
               /\ sync.snap[i] = NoItem => ids[i] = NoItem
               /\ i \in named /\ sync.snap[i] # NoItem => ids[i].entry = receipt.rows[i].entry
               /\ i \notin named => ids[i] = sync.snap[i]
    <3>1. CASE i \in named /\ sync.snap[i] # NoItem
      <4>1. ids[i] = [sync.snap[i] EXCEPT !.entry = receipt.rows[i].entry]
        BY <3>1
      <4>2. sync.snap[i] \in Known
        BY <1>3
      <4> HIDE DEF ids
      <4>3. ids[i] \in Known /\ ids[i].entry = receipt.rows[i].entry
        BY <1>4, <3>1, <4>1, <4>2, RelinkedFacts
      <4> QED BY <1>4, <3>1, <4>3 DEF Its
    <3>2. CASE ~(i \in named /\ sync.snap[i] # NoItem)
      <4>1. ids[i] = sync.snap[i]
        BY <3>2
      <4> HIDE DEF ids
      <4> QED BY <1>3, <1>5, <3>2, <4>1
    <3> QED BY <3>1, <3>2
  <2>2. ids = [i \in Items |-> ids[i]]
    OBVIOUS
  <2> HIDE DEF ids
  <2> QED BY <2>1, <2>2
<1> HIDE DEF ids
<1>9. \A i \in Items :
        /\ Projected(i, ids, origin, session.file) \in Known
        /\ Its(origin, i, Projected(i, ids, origin, session.file))
        /\ \A e \in Entries :
             /\ origin[e] = i /\ Present(session.file, e) /\ Names(ids[i], e)
             => Projected(i, ids, origin, session.file).entry = e
  BY <1>3, <1>5, <1>8, ProjectedFacts
<1>10. \A i \in Items : incoming[i] = IF i \in deferred THEN sync.snap[i]
                                      ELSE Projected(i, ids, origin, session.file)
  BY <1>7
<1>11. incoming \in [Items -> Known] /\ \A i \in Items : Its(origin, i, incoming[i])
  <2>1. \A i \in Items : incoming[i] \in Known /\ Its(origin, i, incoming[i])
    BY <1>3, <1>5, <1>9, <1>10
  <2>2. incoming = [i \in Items |-> incoming[i]]
    BY <1>7
  <2> QED BY <2>1, <2>2
<1>12. ASSUME NEW i \in Items, NEW e \in Entries, Held(i, e)
       PROVE  incoming[i].entry = e
  <2>1. Linkage(i, e) /\ e # 0 /\ origin[e] = i /\ Present(session.file, e)
    BY <1>2, <1>12 DEF Ind, Named, Held, Present, Entries
  <2>3. i \notin named => Names(sync.snap[i], e)
    BY <2>1 DEF Linkage, Carried
  <2>4. i \in named => receipt.rows[i].entry = e
    BY <2>1 DEF Linkage
  <2>5. Names(ids[i], e)
    BY <1>8, <2>3, <2>4 DEF Names
  <2>6. CASE i \in deferred
    <3>1. sync.snap[i] # NoItem
      BY <2>1, <2>6 DEF Linkage
    <3> QED BY <1>10, <2>3, <2>6, <3>1 DEF Names
  <2>7. CASE i \notin deferred
    BY <1>9, <1>10, <2>1, <2>5, <2>7
  <2> QED BY <2>6, <2>7
<1> QED BY <1>3, <1>8, <1>10, <1>11, <1>12 DEF incoming

LEMMA ApplyRecoveredStep == ASSUME Ind, ApplyRecovered PROVE Ind'
<1> DEFINE before == [i \in Items |-> IF i \in DOMAIN receipt.rows THEN receipt.snap[i]
                                      ELSE sync.snap[i]]
           deferred == DOMAIN sync.rows \ Committed(receipt.rows)
<1>1. /\ sync # NoSync /\ sync.at = "settled"
      /\ Apply(before, RecoveredItems, receipt.clash, Confirms(sync.rows), sync.rows,
               receipt.rows, deferred, "recovered")
      /\ UNCHANGED <<remote, diskVars, busy, origin, edits, remotes, faults>>
  BY DEF ApplyRecovered, RecoveredFrom, At
<1>2. receipt # NoReceipt /\ receipt \in Receipt /\ sync.snap \in [Items -> Known]
  BY <1>1, RecoveredFacts DEF Ind, Staged
<1>3. receipt.snap \in [Items -> Known] /\ receipt.clash \in [Items -> Clashes]
  BY <1>2 DEF Receipt
<1>4. before \in [Items -> Known]
  BY <1>2, <1>3
<1>5. PICK incoming : incoming = RecoveredItems
  OBVIOUS
<1>6. /\ incoming \in [Items -> Known]
      /\ \A i \in Items : Its(origin, i, incoming[i]) /\ ItsClash(origin, i, receipt.clash[i])
      /\ \A i \in Items, e \in Entries : Held(i, e) => incoming[i].entry = e
  BY <1>1, <1>2, <1>5, RecoveredFacts DEF Ind, Owned
<1>7. ASSUME NEW i \in Items, NEW e \in Entries, Held(i, e)
      PROVE  /\ incoming[i].entry = e /\ Shows(receipt.clash[i], e)
             /\ Carried(i, e) => before[i] # NoItem /\ before[i].entry = 0
  <2>1. Linkage(i, e)
    BY <1>7 DEF Ind, Named
  <2>2. Carried(i, e) => i \in DOMAIN receipt.rows /\ receipt.snap[i] # NoItem /\ receipt.snap[i].entry = 0
    BY <2>1 DEF Linkage, Carried, Committed
  <2> QED BY <1>2, <1>6, <1>7, <2>1, <2>2 DEF Linkage
<1>8. Confirms(sync.rows) \in SUBSET DOMAIN receipt.rows
  BY DEF Confirms
<1> HIDE DEF before, deferred
<1>9. PICK b, clash, d : b = before /\ clash = receipt.clash /\ d = deferred
  OBVIOUS
<1>10. PICK is, acked : is = sync.rows /\ acked = Confirms(sync.rows)
  OBVIOUS
<1>11. Apply(b, incoming, clash, acked, is, receipt.rows, d, "recovered")
  BY <1>1, <1>5, <1>9, <1>10
<1> QED
  BY <1>1, <1>3, <1>4, <1>6, <1>7, <1>8, <1>9, <1>10, <1>11, ApplyKeeps
-----------------------------------------------------------------------------
(* The first state. *)
LEMMA FirstEntries ==
  /\ \A i \in Linked : /\ FirstEntry[i] \in Entries /\ FirstEntry[i] \in Texts
                        /\ FirstEntry[i] <= Cardinality(Items)
  /\ \A i, j \in Linked : FirstEntry[i] = FirstEntry[j] => i = j
<1> DEFINE n == Cardinality(Linked)
<1>1. IsFiniteSet(Linked) /\ n \in Nat /\ n <= Cardinality(Items) /\ n <= MaxEntries
  BY ItemsAssumption, FS_Subset, FS_CardinalityType
<1>2. IsFiniteSet(1..n) /\ Cardinality(1..n) = n
  <2> HIDE DEF n
  <2> QED BY <1>1, FS_Interval
<1>3. \E f \in [Linked -> 1..n] : \A i, j \in Linked : f[i] = f[j] => i = j
  <2>1. Cardinality(Linked) <= Cardinality(1..n)
    BY <1>1, <1>2
  <2> QED BY <1>1, <1>2, <2>1, InjectionExists
<1>4. /\ FirstEntry \in [Linked -> 1..n]
      /\ \A i, j \in Linked : FirstEntry[i] = FirstEntry[j] => i = j
  BY <1>3 DEF FirstEntry
<1> HIDE DEF n
<1>5. 1..n \subseteq Entries /\ 1..n \subseteq Texts /\ \A k \in 1..n : k <= Cardinality(Items)
  BY <1>1, SizeType, BoundsAssumption DEF Entries, Texts
<1> QED BY <1>4, <1>5

LEMMA InitInd == ASSUME Init PROVE Ind
<1> DEFINE has(e) == e \in {FirstEntry[i] : i \in Linked}
           file == [entry  |-> [e \in Entries |-> IF has(e) THEN [text |-> e, bin |-> FALSE]
                                                  ELSE Absent],
                    groups |-> {}]
           linked(i) == [NoItem EXCEPT !.text = FirstEntry[i], !.entry = FirstEntry[i],
                                       !.etag = FirstEntry[i]]
<1>1. /\ item = [i \in Items |-> IF i \in Linked THEN linked(i) ELSE NoItem]
      /\ queue = [i \in Items |-> 0] /\ restoring = {}
      /\ conflict = [i \in Items |-> NoClash]
      /\ remote = file
      /\ record = [base |-> file, working |-> file, dirty |-> FALSE, current |-> TRUE]
      /\ receipt = NoReceipt /\ receipts = {}
      /\ session = Closed /\ pending = {} /\ busy = NoOp /\ sync = NoSync
      /\ origin = [e \in Entries |-> IF has(e) THEN CHOOSE i \in Linked : FirstEntry[i] = e ELSE NoOp]
      /\ unseen = {} /\ edits = 0 /\ remotes = 0 /\ faults = 0
  BY DEF Init
<1>2. file \in Sound /\ \A e \in Entries : Present(file, e) <=> has(e)
  <2>1. \A e \in Entries : has(e) => e \in Texts /\ e # 0
    BY FirstEntries DEF Entries
  <2>2. \A e \in Entries : has(e) => [text |-> e, bin |-> FALSE] \in Content /\ [text |-> e, bin |-> FALSE] # Absent
    BY <2>1 DEF Content, Absent
  <2> HIDE DEF has
  <2>3. [e \in Entries |-> IF has(e) THEN [text |-> e, bin |-> FALSE] ELSE Absent] \in [Entries -> Content]
    BY <2>2, ContentFacts
  <2> QED BY <2>2, <2>3 DEF Sound, Present
<1>3. ASSUME NEW i \in Linked
      PROVE  linked(i) \in Known /\ linked(i).entry = FirstEntry[i] /\ linked(i) # NoItem
  <2> DEFINE x == FirstEntry[i]
  <2>1. x \in Texts /\ x \in 0..MaxEntries /\ x # 0
    BY FirstEntries DEF Entries
  <2>2. NoItem \in Item /\ NoItem.text = 0
    BY KnownFacts DEF Known, NoItem
  <2> HIDE DEF x
  <2>3. /\ [NoItem EXCEPT !.text = x, !.entry = x, !.etag = x] \in Item
        /\ [NoItem EXCEPT !.text = x, !.entry = x, !.etag = x].text = x
        /\ [NoItem EXCEPT !.text = x, !.entry = x, !.etag = x].entry = x
    BY <2>1, <2>2 DEF Item
  <2>4. linked(i) = [NoItem EXCEPT !.text = x, !.entry = x, !.etag = x]
    BY DEF x
  <2> HIDE DEF linked
  <2> QED BY <2>1, <2>2, <2>3, <2>4 DEF Known, x
<1>4. \A e \in Entries : has(e) => origin[e] \in Linked /\ FirstEntry[origin[e]] = e
  BY <1>1
<1>5. \A i \in Linked : origin[FirstEntry[i]] = i
  BY <1>4, FirstEntries
<1>6. origin \in [Entries -> Items \cup {NoOp}] /\ \A e \in Entries : origin[e] \in Items => has(e)
  <2>1. NoOp \notin Items
    BY NamesAssumption
  <2>2. \A e \in Entries : ~has(e) => origin[e] = NoOp
    BY <1>1
  <2>3. \A e \in Entries : origin[e] \in Items \cup {NoOp}
    BY <1>4, <2>2, ItemsAssumption
  <2> DEFINE who(e) == IF has(e) THEN CHOOSE i \in Linked : FirstEntry[i] = e ELSE NoOp
  <2>4. origin = [e \in Entries |-> who(e)]
    BY <1>1
  <2> HIDE DEF has, who
  <2>5. origin = [e \in Entries |-> origin[e]]
    BY <2>4
  <2> QED BY <2>1, <2>2, <2>3, <2>5
<1> HIDE DEF linked, has, file
<1>7. item \in [Items -> Known] /\ \A i \in Items : item[i] = IF i \in Linked THEN linked(i) ELSE NoItem
  BY <1>1, <1>3, KnownFacts
<1>8. conflict \in [Items -> Clashes] /\ \A i \in Items : conflict[i] = NoClash
  BY <1>1 DEF Clashes
<1>9. sync.at = "idle" /\ DOMAIN receipt.rows = {}
  BY <1>1 DEF NoSync, NoReceipt, NoRows
<1>10. record.working = file /\ record.base = file
  BY <1>1
<1>11. Typed
  BY <1>1, <1>2, <1>6, <1>7, <1>8, <1>10, BoundsAssumption DEF Typed
<1>12. Owned
  BY <1>1, <1>3, <1>5, <1>7, <1>8, <1>9, KnownFacts DEF Owned, Its, ItsClash, Writing
<1>13. Staged
  BY <1>1, <1>9 DEF Staged
<1>14. Copied
  BY <1>1, <1>9, <1>10 DEF Copied
<1>15. Singles
  BY <1>4, <1>6, <1>9, <1>10 DEF Singles, Single
<1>16. Named
  <2> SUFFICES ASSUME NEW i \in Items, NEW e \in Entries, Held(i, e)
               PROVE  Linkage(i, e)
    BY DEF Named
  <2>1. i \in Linked /\ FirstEntry[i] = e
    BY <1>4, <1>6 DEF Held
  <2>2. Names(item[i], e) /\ Shows(conflict[i], e) /\ queue[i] = 0
    BY <1>1, <1>3, <1>7, <1>8, <2>1 DEF Names, Shows
  <2> QED BY <1>1, <1>9, <2>2 DEF Linkage, Committed
<1>17. Wrote
  BY <1>9 DEF Wrote
<1> QED BY <1>11, <1>12, <1>13, <1>14, <1>15, <1>16, <1>17 DEF Ind
-----------------------------------------------------------------------------
(* The invariant holds in every reachable state. *)
LEMMA NextInd == ASSUME Ind, [Next]_vars PROVE Ind'
<1>1. CASE UserEdits
  BY <1>1, UserEditsStep
<1>2. CASE UserDecides
  BY <1>2, UserDecidesStep
<1>3. CASE OthersEdit
  BY <1>3, OthersEditStep
<1>4. CASE Start
  BY <1>4, StartStep
<1>5. CASE RecoverRead
  BY <1>5, RecoverReadStep
<1>6. CASE ReadAndWrite
  BY <1>6, ReadAndWriteStep
<1>7. CASE CheckFirst
  BY <1>7, CheckFirstStep
<1>8. CASE ProjectChecked
  BY <1>8, ProjectCheckedStep
<1>9. CASE SaveBatch
  BY <1>9, SaveBatchStep
<1>10. CASE Publish
  BY <1>10, PublishStep
<1>11. CASE ApplyResult
  BY <1>11, ApplyResultStep
<1>12. CASE ApplyRecovered
  BY <1>12, ApplyRecoveredStep
<1>13. CASE DeleteReceipt
  BY <1>13, DeleteReceiptStep
<1>14. CASE \E o \in Ops : BeginMutation(o) \/ SaveMutation(o)
  BY <1>14, BeginMutationStep, SaveMutationStep
<1>15. CASE SaveFails
  BY <1>15, SaveFailsStep
<1>16. CASE SyncFails
  BY <1>16, SyncFailsStep
<1>17. CASE AnswerLost
  BY <1>17, AnswerLostStep
<1>18. CASE WorkerStops
  BY <1>18, WorkerStopsStep
<1>19. CASE Rejected
  BY <1>19, RejectedStep
<1>20. CASE UNCHANGED vars
  <2>1. UNCHANGED <<item, queue, restoring, conflict, remote, record, receipt, receipts, session,
                    pending, busy, sync, origin, unseen, edits, remotes, faults>>
    BY <1>20 DEF vars, vaultVars, diskVars, userVars
  <2>2. Typed'
    BY <2>1 DEF Ind, Typed
  <2>3. Owned'
    BY <2>1 DEF Ind, Owned
  <2>4. Staged'
    BY <2>1 DEF Ind, Staged
  <2>5. Copied'
    BY <2>1 DEF Ind, Copied
  <2>6. Singles'
    BY <2>1 DEF Ind, Singles, Single
  <2>7. Named'
    BY <2>1 DEF Ind, Named, Linkage, Held, Carried
  <2>8. Wrote'
    BY <2>1 DEF Ind, Wrote
  <2> QED BY <2>2, <2>3, <2>4, <2>5, <2>6, <2>7, <2>8 DEF Ind
<1> QED
  BY <1>1, <1>2, <1>3, <1>4, <1>5, <1>6, <1>7, <1>8, <1>9, <1>10, <1>11, <1>12, <1>13, <1>14,
     <1>15, <1>16, <1>17, <1>18, <1>19, <1>20 DEF Next

(* In every reachable state what is remembered of an item, anywhere, refers  *)
(* to an entry made for it, the database and the working copy have one entry *)
(* of an item at most, and whoever names the item names that entry           *)
(* (keepass-provider.ts, keepass-durable-sync.ts).                           *)
THEOREM Inductive == Spec => []Ind
<1>1. Init => Ind
  BY InitInd
<1>2. Ind /\ [Next]_vars => Ind'
  BY NextInd
<1> QED BY <1>1, <1>2, PTL DEF Spec

(* Every variable keeps its type, and no two items of the vault share an     *)
(* entry of the file.                                                        *)
THEOREM TypeCorrect == Spec => []TypeOK
<1>1. Ind => TypeOK
  <2> SUFFICES ASSUME Ind PROVE TypeOK
    OBVIOUS
  <2>1. Typed /\ item \in [Items -> Known] /\ conflict \in [Items -> Clashes]
    BY DEF Ind, Typed
  <2>2. item \in [Items -> Item]
    BY <2>1 DEF Known
  <2>3. \A i, j \in Items : i # j /\ item[i].entry # 0 => item[i].entry # item[j].entry
    BY DEF Ind, Owned, Its
  <2>4. \A i \in Items : conflict[i] # NoClash => conflict[i].copy \in Item
    <3>1. \A i \in Items : conflict[i] \in Clashes
      BY <2>1
    <3> QED BY <3>1 DEF Clashes, Known
  <2>5. Sound \subseteq File
    <3>1. Content \subseteq [text : Texts, bin : BOOLEAN]
      BY DEF Content
    <3> QED BY <3>1 DEF Sound, File
  <2>6. /\ remote \in File
        /\ record \in [base : File, working : File, dirty : BOOLEAN, current : BOOLEAN]
        /\ session = Closed \/ session.file \in File
    BY <2>1, <2>5 DEF Typed
  <2>7. DOMAIN receipt.rows \subseteq Items
    BY <2>1, ReceiptRows
  <2>8. sync = NoSync \/ sync.at \in Phases
    BY <2>1, SyncKinds DEF Reading, Writing, Phases
  <2> QED BY <2>1, <2>2, <2>3, <2>4, <2>6, <2>7, <2>8 DEF TypeOK, Typed
<1> QED BY <1>1, Inductive, PTL

(* An item is created in the file at most once, for any number of items,     *)
(* edits, writes of other devices, stops of the worker and lost answers: of  *)
(* the entries made for it the file never holds two (createItemSyncReceipt,  *)
(* recoverPending and the transaction of persistWorkingCopy).                *)
THEOREM CreatedOnce == Spec => []NoTwins
<1>1. Ind => NoTwins
  <2> SUFFICES ASSUME Ind, NEW i \in Items PROVE Cardinality(Made(remote, i)) <= 1
    BY DEF NoTwins
  <2>1. \A e, f \in Made(remote, i) : e = f
    BY DEF Ind, Singles, Single, Copied, Made, Present
  <2>2. CASE Made(remote, i) = {}
    BY <2>2, FS_EmptySet
  <2>3. CASE Made(remote, i) # {}
    <3>1. PICK e : Made(remote, i) = {e}
      BY <2>1, <2>3
    <3>2. Cardinality({e}) = 1
      BY FS_Singleton
    <3> QED BY <3>1, <3>2
  <2> QED BY <2>2, <2>3
<1> QED BY <1>1, Inductive, PTL
-----------------------------------------------------------------------------
(* The texts of other devices, followed through the vault, the working copy, *)
(* the receipt and the server.                                               *)
\* The texts so far are 1 .. Last; a text of another device is unseen until shown.
Last        == Cardinality(Items) + edits + remotes
Old(it)     == it.text <= Last /\ it.etag <= Last
OldClash(c) == c # NoClash => Old(c.copy)
OldFile(f)  == \A e \in Entries : f.entry[e].text <= Last
Dated ==
  /\ unseen \subseteq 1..Last
  /\ \A i \in Items : Old(item[i]) /\ OldClash(conflict[i])
  /\ sync # NoSync => \A i \in Items : Old(sync.snap[i]) /\ OldClash(sync.clash[i])
  /\ receipt # NoReceipt => \A i \in Items : OldClash(receipt.clash[i])
  /\ OldFile(remote) /\ OldFile(record.base) /\ OldFile(record.working)
  /\ sync.at = "written" => OldFile(session.file)

(* What the vault holds or held has been shown. *)
Shown ==
  /\ \A i \in Items : /\ item[i].text \notin unseen
                      /\ conflict[i] # NoClash => /\ conflict[i].copy.text \notin unseen
                                                  /\ conflict[i].copy.etag \notin unseen
  /\ sync # NoSync => \A i \in Items : sync.snap[i].text \notin unseen

(* A conflict of a batch is with an item that had an entry, and is not committed. *)
Raised(it, c) == c # NoClash => it.entry # 0 /\ c.copy.etag = 0
Told(rows, clash) == \A i \in DOMAIN rows : rows[i].committed <=> (clash[i] = NoClash)
Clashing ==
  /\ sync # NoSync => \A i \in Items : Raised(sync.snap[i], sync.clash[i])
  /\ sync # NoSync /\ sync.at \in Reading => \A i \in Items : sync.clash[i] = NoClash
  /\ receipt # NoReceipt => \A i \in Items : Raised(receipt.snap[i], receipt.clash[i])
  /\ receipt # NoReceipt => Told(receipt.rows, receipt.clash)
  /\ sync.at = "written" => Told(sync.rows, sync.clash)

(* The base is what the server had; the working copy differs from it only by  *)
(* batches that have a receipt and were not published.                        *)
Level ==
  /\ record.current => remote = record.base
  /\ receipt = NoReceipt \/ ~record.dirty
       \/ sync.at \in {"settled", "checked", "published", "applied", "recovered"}
       => record.working.entry = record.base.entry

(* A batch writes texts that were shown; where it replaces one that was not,  *)
(* it is the baseline of an item.                                             *)
Writes(file) == \A e \in Entries :
  LET text == file.entry[e].text  was == record.base.entry[e].text
  IN text # was => /\ text \notin unseen
                   /\ was \in unseen => \E i \in Items : item[i].etag = was
Written ==
  /\ Writes(record.working)
  /\ sync.at = "written" => Writes(session.file)

(* A text that was not shown is at one place, the same on the server as in    *)
(* the base if it is a baseline, and the baseline of the item of that entry.  *)
Apart(f, g) == \A d, e \in Entries :
  f.entry[d].text = g.entry[e].text /\ f.entry[d].text \in unseen => d = e
Placed(it) == it.etag \in unseen => \A e \in Entries :
  /\ record.base.entry[e].text = it.etag => it.entry = e
  /\ remote.entry[e].text = it.etag => record.base.entry[e].text = it.etag
Placing ==
  /\ Apart(remote, remote) /\ Apart(remote, record.base) /\ Apart(record.base, record.base)
  /\ \A i \in Items : Placed(item[i])
  /\ sync # NoSync => \A i \in Items : Placed(sync.snap[i])

(* If an item with such a baseline is in conflict, the conflict shows that    *)
(* text or the text has left the file.                                        *)
Left(it, c) == it.etag \in unseen /\ c # NoClash =>
  it.etag = c.copy.text \/ \A e \in Entries : record.base.entry[e].text # it.etag
Leaving ==
  /\ \A i \in Items : Left(item[i], conflict[i])
  /\ receipt # NoReceipt => \A i \in Items :
       Left(item[i], receipt.clash[i])
         /\ (sync # NoSync => Left(sync.snap[i], receipt.clash[i]))
  /\ sync # NoSync => \A i \in Items :
       Left(item[i], sync.clash[i]) /\ Left(sync.snap[i], sync.clash[i])

(* What a batch returns is the item as it was, or what the file has of it. *)
Reported(it, was, file) ==
  it \in {was, NoItem} \/ (it.entry # 0 /\ it = Finalized(it.entry, file.entry[it.entry]))
Reporting == sync.at \in {"written", "stored", "published"} =>
  \A i \in Items : Reported(sync.result[i], sync.snap[i], session.file)

Text == Dated /\ Shown /\ Clashing /\ Level /\ Written /\ Placing /\ Leaving /\ Reporting
-----------------------------------------------------------------------------
LEMMA TextNumbers ==
  ASSUME Typed
  PROVE  /\ Last \in Nat /\ FreshText = Last + 1
         /\ \A t \in Texts : t \in Nat
         /\ \A it \in Known : it.text \in Nat /\ it.etag \in Nat
         /\ \A f \in Sound, e \in Entries : f.entry[e].text \in Nat
         /\ NoItem.text = 0 /\ NoItem.etag = 0 /\ NoItem.entry = 0 /\ Absent.text = 0
<1>1. edits \in Nat /\ remotes \in Nat /\ Cardinality(Items) \in Nat
  BY SizeType, BoundsAssumption DEF Typed
<1>2. Last \in Nat /\ FreshText = Last + 1
  BY <1>1 DEF Last, FreshText
<1>3. \A t \in Texts : t \in Nat
  BY DEF Texts
<1>4. \A it \in Known : it.text \in Nat /\ it.etag \in Nat
  BY <1>3 DEF Known, Item
<1>5. \A f \in Sound, e \in Entries : f.entry[e].text \in Nat
  BY <1>3 DEF Sound, Content
<1>6. NoItem.text = 0 /\ NoItem.etag = 0 /\ NoItem.entry = 0 /\ Absent.text = 0
  BY DEF NoItem, Absent
<1> QED BY <1>2, <1>3, <1>4, <1>5, <1>6

(* A step that leaves the vault, the server and the texts of the working copy *)
(* alone.                                                                      *)
LEMMA QuietKeeps ==
  ASSUME Ind, Text,
         UNCHANGED <<item, conflict, remote, unseen, edits, remotes>>,
         record'.base = record.base, record'.working.entry = record.working.entry,
         record'.current = record.current,
         receipt' \in {receipt, NoReceipt},
         sync'.at # "written", sync'.at \notin {"stored", "published"} \/ Reporting',
         \/ receipt' = NoReceipt \/ ~record'.dirty
            \/ sync'.at \in {"settled", "checked", "published", "applied", "recovered"}
            => record.working.entry = record.base.entry,
         \/ sync' = NoSync
         \/ \A i \in Items : sync'.snap[i] = item[i] /\ sync'.clash[i] = NoClash
         \/ /\ sync # NoSync /\ sync'.snap = sync.snap /\ sync'.clash = sync.clash
            /\ sync'.at \in Reading => sync.at \in Reading
  PROVE  Text'
<1>1. Last' = Last
  BY DEF Last
<1>2. ASSUME sync' # NoSync, NEW i \in Items
      PROVE  /\ sync'.clash[i] # NoClash => sync # NoSync /\ sync'.clash[i] = sync.clash[i]
                                             /\ sync'.snap[i] = sync.snap[i]
                                             /\ (sync'.at \in Reading => sync.at \in Reading)
             /\ sync'.snap[i] = item[i] \/ (sync # NoSync /\ sync'.snap[i] = sync.snap[i])
  BY <1>2
<1>3. Dated'
  <2>1. sync' # NoSync => \A i \in Items : Old(sync'.snap[i]) /\ OldClash(sync'.clash[i])
    BY <1>2 DEF Text, Dated, OldClash
  <2> QED BY <1>1, <2>1 DEF Text, Dated, Old, OldClash, OldFile
<1>4. Shown'
  BY <1>2 DEF Text, Shown
<1>5. Clashing'
  <2>1. sync' # NoSync => \A i \in Items : Raised(sync'.snap[i], sync'.clash[i])
    BY <1>2 DEF Text, Clashing, Raised
  <2>2. sync' # NoSync /\ sync'.at \in Reading => \A i \in Items : sync'.clash[i] = NoClash
    BY <1>2 DEF Text, Clashing
  <2> QED BY <2>1, <2>2 DEF Text, Clashing
<1>6. Level'
  BY DEF Text, Level
<1>7. Written'
  BY DEF Text, Written, Writes
<1>8. Placing'
  <2>1. \A i \in Items : Placed(item[i])' /\ (sync' # NoSync => Placed(sync.snap[i])')
    BY <1>2 DEF Text, Placing, Placed
  <2> QED BY <2>1 DEF Text, Placing, Apart
<1>9. Leaving'
  <2>1. ASSUME NEW i \in Items
        PROVE  /\ Left(item[i], conflict[i])'
               /\ receipt' # NoReceipt => /\ Left(item[i], receipt.clash[i])'
                                          /\ sync' # NoSync => Left(sync.snap[i], receipt.clash[i])'
               /\ sync' # NoSync => /\ Left(item[i], sync.clash[i])'
                                     /\ Left(sync.snap[i], sync.clash[i])'
    BY <1>2 DEF Text, Leaving, Left
  <2> QED BY <2>1 DEF Leaving
<1>10. Reporting'
  BY DEF Reporting
<1> QED BY <1>3, <1>4, <1>5, <1>6, <1>7, <1>8, <1>9, <1>10 DEF Text

LEMMA QuietStepTexts ==
  ASSUME Ind, Text
  PROVE  /\ \A o \in Ops : BeginMutation(o) \/ SaveMutation(o) => Text'
         /\ Start \/ RecoverRead \/ CheckFirst \/ DeleteReceipt => Text'
         /\ SaveFails \/ SyncFails \/ WorkerStops \/ Rejected => Text'
<1>1. Typed /\ sync.at # "idle" => sync # NoSync
  BY DEF Ind, NoSync
<1>2. /\ record \in [base : Sound, working : Sound, dirty : BOOLEAN, current : BOOLEAN]
      /\ NoSync.at = "idle" /\ NoReceipt.rows = NoRows
  BY DEF Ind, Typed, NoSync, NoReceipt
<1>3. Level /\ Reporting /\ Staged /\ Copied
  BY DEF Text, Ind
<1>4. ASSUME NEW o \in Ops, BeginMutation(o) PROVE Text'
  <2>1. /\ sync = NoSync
        /\ UNCHANGED <<item, conflict, remote, unseen, edits, remotes, record, receipt, sync>>
    BY <1>4 DEF BeginMutation, vaultVars, diskVars, userVars
  <2> QED BY <1>2, <1>3, <2>1, QuietKeeps DEF Level
<1>5. ASSUME NEW o \in Ops, SaveMutation(o) PROVE Text'
  <2>1. /\ busy = o /\ record' = Saved(session.file)
        /\ UNCHANGED <<item, conflict, remote, unseen, edits, remotes, receipt, sync>>
    BY <1>5 DEF SaveMutation, vaultVars, userVars
  <2>2. busy # NoOp
    BY <2>1, NamesAssumption
  <2>3. sync = NoSync /\ session # Closed /\ sync.at = "idle"
    BY <1>2, <1>3, <2>2 DEF Staged
  <2>4. session.file.entry = record.working.entry
    BY <1>3, <2>3 DEF Copied
  <2>5. /\ record'.base = record.base /\ record'.working.entry = record.working.entry
        /\ record'.current = record.current /\ record'.dirty = TRUE
    BY <1>2, <2>1, <2>4 DEF Saved
  <2>6. receipt' = NoReceipt => record.working.entry = record.base.entry
    BY <1>3, <2>1 DEF Level
  <2> QED BY <1>2, <2>1, <2>3, <2>5, <2>6, QuietKeeps
<1>6. CASE Start
  <2> DEFINE at == IF HasReceipt THEN "recover" ELSE "read"
  <2>1. /\ sync = NoSync /\ sync' = Begin(at) /\ at \in Reading /\ at \in {"recover", "read"}
        /\ UNCHANGED <<item, conflict, remote, unseen, edits, remotes, record, receipt>>
    BY <1>6 DEF Start, vaultVars, diskVars, userVars, Reading
  <2> HIDE DEF at
  <2>2. sync'.at = at /\ \A i \in Items : sync'.snap[i] = item[i] /\ sync'.clash[i] = NoClash
    BY <1>1, <2>1, BeginFacts DEF Ind
  <2> QED BY <1>2, <1>3, <2>1, <2>2, QuietKeeps DEF Level
<1>7. CASE RecoverRead
  <2>1. /\ sync # NoSync /\ sync.at = "recover"
        /\ UNCHANGED <<item, conflict, remote, unseen, edits, remotes, record, receipt>>
    BY <1>7 DEF RecoverRead, At, vaultVars, diskVars, userVars
  <2>2. sync \in Round(Reading, Intent)
    BY <2>1, SyncKinds DEF Ind, Reading
  <2>3. sync'.at = "settle" /\ sync'.snap = item /\ sync'.clash = sync.clash
    BY <1>7, <2>2 DEF RecoverRead, Round
  <2>4. \A i \in Items : sync.clash[i] = NoClash
    BY <2>1 DEF Text, Clashing, Reading
  <2> QED BY <1>2, <1>3, <2>1, <2>3, <2>4, QuietKeeps DEF Level
<1>8. CASE CheckFirst
  <2>1. /\ sync # NoSync /\ sync.at = "read" /\ sync' = [Begin("probe") EXCEPT !.snap = item]
        /\ UNCHANGED <<item, conflict, remote, unseen, edits, remotes, record, receipt>>
    BY <1>8 DEF CheckFirst, At, vaultVars, diskVars, userVars
  <2>2. /\ Begin("probe") \in Round(Reading, Intent) /\ Begin("probe").at = "probe"
        /\ \A i \in Items : Begin("probe").clash[i] = NoClash
    BY BeginFacts DEF Ind, Reading
  <2>3. sync'.at = "probe" /\ sync'.snap = item /\ \A i \in Items : sync'.clash[i] = NoClash
    BY <2>1, <2>2 DEF Round
  <2> QED BY <1>2, <1>3, <2>1, <2>3, QuietKeeps DEF Level
<1>9. CASE DeleteReceipt
  <2>1. /\ sync # NoSync /\ sync.at \in {"applied", "recovered"} /\ receipt' = NoReceipt
        /\ sync' \in {Begin("read"), NoSync}
        /\ UNCHANGED <<item, conflict, remote, unseen, edits, remotes, record>>
    BY <1>9 DEF DeleteReceipt, At, vaultVars, userVars
  <2>2. record.working.entry = record.base.entry
    BY <1>3, <2>1 DEF Level
  <2>3. CASE sync' = Begin("read")
    <3>1. sync'.at = "read" /\ \A i \in Items : sync'.snap[i] = item[i] /\ sync'.clash[i] = NoClash
      BY <2>3, BeginFacts DEF Ind, Reading
    <3> QED BY <2>1, <2>2, <3>1, QuietKeeps
  <2>4. CASE sync' = NoSync
    BY <1>2, <2>1, <2>2, <2>4, QuietKeeps
  <2> QED BY <2>1, <2>3, <2>4
<1>10. CASE SaveFails
  <2>1. /\ busy # NoOp
        /\ UNCHANGED <<item, conflict, remote, unseen, edits, remotes, record, receipt, sync>>
    BY <1>10 DEF SaveFails, vaultVars, diskVars, userVars
  <2>2. sync = NoSync
    BY <1>3, <2>1 DEF Staged
  <2> QED BY <1>2, <1>3, <2>1, <2>2, QuietKeeps DEF Level
<1>11. CASE SyncFails \/ WorkerStops \/ Rejected
  <2>1. /\ sync' = NoSync
        /\ UNCHANGED <<item, conflict, remote, unseen, edits, remotes, record, receipt>>
    BY <1>11 DEF SyncFails, WorkerStops, Rejected, Forget, vaultVars, diskVars, userVars
  <2> QED BY <1>2, <1>3, <2>1, QuietKeeps DEF Level
<1> QED BY <1>4, <1>5, <1>6, <1>7, <1>8, <1>9, <1>10, <1>11
-----------------------------------------------------------------------------
(* A batch replaces the text of an entry only for an item that has it as its  *)
(* baseline, and reports what it knows.                                       *)
LEMMA VerdictTexts ==
  ASSUME NEW snap \in [Items -> Known], NEW given \in SUBSET Items, NEW file, NEW i \in Items,
         Verdict(i, snap, given, file) \in {"update", "restore"}
  PROVE  snap[i].etag # 0 /\ file.entry[snap[i].entry].text = snap[i].etag
<1> DEFINE there == file.entry[snap[i].entry]
<1>1. Verdict(i, snap, given, file)
        = VerdictOfLinked(snap[i], there, i \in given, i \in given \cap restoring)
  BY DEF Verdict
<1> HIDE DEF there
<1>2. snap[i].etag # 0 /\ there.text = snap[i].etag
  BY <1>1 DEF VerdictOfLinked, LocallyChanged, RemotelyChanged
<1> QED BY <1>2 DEF there

LEMMA OutcomeTexts ==
  ASSUME NEW snap \in [Items -> Known], NEW given \in SUBSET Items, NEW file \in Sound,
         NEW made, NEW owner, NEW e \in Entries
  PROVE  LET text == Outcome(snap, given, made, owner, file).file.entry[e].text
             was  == file.entry[e].text
         IN \/ text = was
            \/ \E i \in Items :
                 /\ text = snap[i].text
                 /\ \/ snap[i].etag = was
                    \/ Verdict(i, snap, given, file) = "create" /\ made[i] = e
<1> DEFINE verdict == [i \in Items |-> Verdict(i, snap, given, file)]
           entry(i) == IF verdict[i] = "create" THEN made[i] ELSE snap[i].entry
           by(x) == {i \in Items : entry(i) = x /\ verdict[i] \in {"create", "update", "restore"}}
           gone(x) == {i \in Items : entry(i) = x /\ verdict[i] = "delete"}
           written(x, was) ==
             IF by(x) # {} THEN [text |-> snap[CHOOSE i \in by(x) : TRUE].text, bin |-> FALSE]
             ELSE IF gone(x) # {} THEN [was EXCEPT !.bin = TRUE] ELSE was
           after == [file EXCEPT !.entry = [x \in Entries |-> written(x, file.entry[x])]]
<1>1. Outcome(snap, given, made, owner, file).file = after
  BY DEF Outcome
<1>2. after.entry[e] = written(e, file.entry[e])
  BY DEF Sound
<1>3. CASE by(e) # {}
  <2> DEFINE j == CHOOSE i \in by(e) : TRUE
  <2>1. j \in by(e)
    BY <1>3
  <2>2. written(e, file.entry[e]).text = snap[j].text
    BY <1>3
  <2>3. j \in Items /\ entry(j) = e /\ Verdict(j, snap, given, file) \in {"create", "update", "restore"}
    BY <2>1
  <2>4. Verdict(j, snap, given, file) = "create" => made[j] = e
    BY <2>3
  <2>5. Verdict(j, snap, given, file) # "create" => snap[j].entry = e
    BY <2>3
  <2> HIDE DEF j, written, after, entry, verdict
  <2>6. Verdict(j, snap, given, file) # "create" => snap[j].etag = file.entry[e].text
    BY <2>3, <2>5, VerdictTexts
  <2> QED BY <1>1, <1>2, <2>2, <2>3, <2>4, <2>6
<1>4. CASE by(e) = {}
  <2>1. file.entry[e] \in [text : Texts, bin : BOOLEAN]
    BY DEF Sound, Content
  <2>2. written(e, file.entry[e]) \in {file.entry[e], [file.entry[e] EXCEPT !.bin = TRUE]}
    BY <1>4
  <2> HIDE DEF written, after
  <2>3. written(e, file.entry[e]).text = file.entry[e].text
    BY <2>1, <2>2
  <2> QED BY <1>1, <1>2, <2>3
<1> QED BY <1>3, <1>4

LEMMA ProjectedText ==
  ASSUME NEW identities \in [Items -> Known], NEW owner, NEW file \in Sound, NEW i \in Items
  PROVE  LET it == Projected(i, identities, owner, file)
         IN it = NoItem \/ (it.entry \in Entries /\ it = Finalized(it.entry, file.entry[it.entry]))
<1> DEFINE mine == {e \in Entries : owner[e] = i /\ file.entry[e] # Absent}
           x    == EntryFor(i, identities, owner, file)
<1>1. x = 0 \/ x \in Entries
  <2>1. IsFiniteSet(mine) /\ mine \in SUBSET Nat
    <3>1. mine \in SUBSET Nat /\ \A s \in mine : s <= MaxEntries
      BY BoundsAssumption DEF Entries
    <3> HIDE DEF mine
    <3> QED BY <3>1, FS_BoundedSetOfNaturals, BoundsAssumption
  <2>2. mine # {} => Max(mine) \in mine
    BY <2>1, GreatestIsIn
  <2>3. identities[i].entry \in 0..MaxEntries
    BY KnownFacts
  <2>4. x = IF identities[i].entry # 0 THEN identities[i].entry
            ELSE IF identities[i] # NoItem THEN 0 ELSE IF mine = {} THEN 0 ELSE Max(mine)
    BY DEF EntryFor
  <2>5. mine \subseteq Entries
    OBVIOUS
  <2> HIDE DEF mine, x
  <2>6. x \in {identities[i].entry, 0} \cup Entries
    BY <2>2, <2>4, <2>5
  <2> QED BY <2>3, <2>6, BoundsAssumption DEF Entries
<1>2. Projected(i, identities, owner, file) = IF x = 0 THEN NoItem ELSE Finalized(x, file.entry[x])
  BY DEF Projected
<1> HIDE DEF x
<1>3. CASE x \in Entries
  <2>0. file.entry[x] \in Content
    BY <1>3 DEF Sound
  <2>1. file.entry[x] \in Content /\ x # 0
    BY <1>3, <2>0 DEF Entries
  <2>2. \/ Finalized(x, file.entry[x]) = NoItem \/ Finalized(x, file.entry[x]).entry = x
    BY <1>3, <2>1, CopyFacts
  <2> QED BY <1>2, <1>3, <2>1, <2>2
<1> QED BY <1>1, <1>2, <1>3

LEMMA FinalizedTexts ==
  ASSUME NEW e \in Entries, NEW there \in Content
  PROVE  /\ Copy(e, there).text = there.text /\ Copy(e, there).etag = 0
         /\ Finalized(e, there).text = there.text /\ Finalized(e, there).etag = there.text
<1>1. CASE there = Absent
  <2>1. Copy(e, there) = NoItem /\ Finalized(e, there) = NoItem
    BY <1>1, CopyFacts
  <2> QED BY <1>1, <2>1 DEF NoItem, Absent
<1>2. CASE there # Absent
  <2>1. Copy(e, there) = [text |-> there.text, bin |-> there.bin, place |-> there.bin,
          stamp |-> 0, entry |-> e, etag |-> 0, from |-> FALSE, foreign |-> FALSE]
    BY <1>2 DEF Copy, NoItem
  <2>2. Copy(e, there) \in Item
    BY CopyFacts DEF Known
  <2>3. \A c \in Item : [c EXCEPT !.etag = there.text, !.from = there.bin].text = c.text
                      /\ [c EXCEPT !.etag = there.text, !.from = there.bin].etag = there.text
    BY DEF Item
  <2>4. Finalized(e, there).text = Copy(e, there).text /\ Finalized(e, there).etag = there.text
    BY <2>2, <2>3 DEF Finalized
  <2> QED BY <2>1, <2>4
<1> QED BY <1>1, <1>2

LEMMA OutcomeReports ==
  ASSUME NEW snap \in [Items -> Known], NEW given \in SUBSET Items, NEW file \in Sound,
         NEW made \in [Items -> 0..MaxEntries], NEW owner, NEW i \in Items,
         Outcome(snap, given, made, owner, file).file \in Sound
  PROVE  LET out == Outcome(snap, given, made, owner, file)
         IN /\ Reported(out.result[i], snap[i], out.file)
            /\ out.clash[i] # NoClash =>
                 /\ snap[i].entry \in Entries
                 /\ out.clash[i].copy = Copy(snap[i].entry, file.entry[snap[i].entry])
<1> DEFINE out == Outcome(snap, given, made, owner, file)
           v(j) == Verdict(j, snap, given, file)
           entry(j) == IF v(j) = "create" THEN made[j] ELSE snap[j].entry
           ids(j) == [snap EXCEPT ![j].entry = entry(j)]
           result(j) == IF v(j) \in {"keep", "clash", "defer"} THEN snap[j]
                        ELSE IF snap[j] # NoItem /\ entry(j) = 0 THEN NoItem
                        ELSE Projected(j, ids(j), owner, out.file)
           clash(j) == IF v(j) # "clash" THEN NoClash
                       ELSE ClashOf(Copy(snap[j].entry, file.entry[snap[j].entry]))
<1>1. out.result = [j \in Items |-> result(j)]
  BY DEF Outcome
<1>2. out.clash = [j \in Items |-> clash(j)]
  BY DEF Outcome
<1> HIDE DEF out
<1>3. out.result[i] = result(i) /\ out.clash[i] = clash(i)
  BY <1>1, <1>2
<1>4. /\ v(i) = "create" => snap[i] # NoItem
      /\ v(i) \in {"keep", "clash"} => snap[i].entry # 0
  BY VerdictFacts
<1>5. snap[i] \in Known /\ made[i] \in 0..MaxEntries /\ out.file \in Sound
  BY DEF out
<1> HIDE DEF v
<1>6. entry(i) \in 0..MaxEntries /\ (snap[i] = NoItem => entry(i) = 0)
  BY <1>4, <1>5, KnownFacts
<1> HIDE DEF entry
<1>7. ids(i) \in [Items -> Known]
  <2>1. ids(i)[i] = [snap[i] EXCEPT !.entry = entry(i)]
    OBVIOUS
  <2>2. [snap[i] EXCEPT !.entry = entry(i)] \in Known
    BY <1>5, <1>6, RelinkedFacts, KnownFacts
  <2> QED BY <2>1, <2>2
<1> HIDE DEF ids
<1>8. \/ Projected(i, ids(i), owner, out.file) = NoItem
      \/ /\ Projected(i, ids(i), owner, out.file).entry \in Entries
         /\ Projected(i, ids(i), owner, out.file)
              = Finalized(Projected(i, ids(i), owner, out.file).entry,
                          out.file.entry[Projected(i, ids(i), owner, out.file).entry])
  BY <1>5, <1>7, ProjectedText
<1>9. Reported(result(i), snap[i], out.file)
  BY <1>8 DEF Reported, Entries
<1>10. clash(i) # NoClash => /\ snap[i].entry \in Entries
                             /\ clash(i).copy = Copy(snap[i].entry, file.entry[snap[i].entry])
  <2> SUFFICES ASSUME clash(i) # NoClash
               PROVE  /\ snap[i].entry \in Entries
                      /\ clash(i).copy = Copy(snap[i].entry, file.entry[snap[i].entry])
    OBVIOUS
  <2>1. v(i) = "clash" /\ clash(i) = ClashOf(Copy(snap[i].entry, file.entry[snap[i].entry]))
    OBVIOUS
  <2>2. snap[i].entry \in Entries
    BY <1>4, <1>5, <2>1, KnownFacts DEF Entries
  <2> HIDE DEF clash
  <2> QED BY <2>1, <2>2 DEF ClashOf
<1> HIDE DEF result, clash
<1> QED BY <1>3, <1>9, <1>10 DEF out

LEMMA WriteTexts ==
  ASSUME Ind, Text, session # Closed, receipt = NoReceipt,
         session.file.entry = record.base.entry, record.working.entry = record.base.entry,
         NEW snap \in [Items -> Known], NEW given \in SUBSET Items, NEW deferred \in SUBSET Items,
         NEW next \in {"written", "published"}, Write(snap, given, deferred, next),
         \A i \in Items : Old(snap[i]) /\ snap[i].text \notin unseen /\ Placed(snap[i])
                            /\ Its(origin, i, snap[i]),
         \A i \in Items, e \in Entries : Held(i, e) => Names(snap[i], e),
         next = "written" => snap = item,
         UNCHANGED <<item, conflict, remote, record, receipt, unseen, edits, remotes>>
  PROVE  Text'
<1> DEFINE file   == session.file
           wanted == ToCreate(snap, given)
           made   == EntriesMade(wanted)
           owner  == OwnersAfter(wanted, made)
           out    == Outcome(snap, given, made, owner, file)
           rows   == RowsOf(given, snap, out)
<1>1. /\ Cardinality(wanted) <= Cardinality(FreeEntries)
      /\ session' = Opened(out.file)
      /\ sync' = [at |-> next, snap |-> snap, rows |-> rows, result |-> out.result,
                  clash |-> out.clash, deferred |-> deferred]
  BY DEF Write
<1>2. Typed /\ file \in Sound /\ wanted \in SUBSET Items /\ Last' = Last
      /\ origin \in [Entries -> Items \cup {NoOp}]
  BY DEF Ind, Typed, ToCreate, Last
<1>3. \A i \in Items : Verdict(i, snap, given, file) = "create" => i \in wanted
  <2>1. \A i \in Items : Verdict(i, snap, given, file) = "create" => i \in given
    BY <1>2, VerdictFacts
  <2> QED BY <2>1 DEF ToCreate
<1>4. /\ made \in [Items -> 0..MaxEntries] /\ \A i \in wanted : made[i] \in FreeEntries
  <2> HIDE DEF wanted
  <2> QED BY <1>1, <1>2, MadeFacts
<1> HIDE DEF file, wanted, made, owner
<1>5. out.file \in Sound
  BY <1>2, OutcomeFile
<1>6. \A i \in Items :
        /\ Reported(out.result[i], snap[i], out.file)
        /\ out.clash[i] # NoClash => /\ snap[i].entry \in Entries
                                     /\ out.clash[i].copy = Copy(snap[i].entry, file.entry[snap[i].entry])
  BY <1>2, <1>4, <1>5, OutcomeReports
<1>7. \A e \in Entries :
         \/ out.file.entry[e].text = file.entry[e].text
         \/ \E i \in Items :
              /\ out.file.entry[e].text = snap[i].text
              /\ \/ snap[i].etag = file.entry[e].text
                 \/ Verdict(i, snap, given, file) = "create" /\ made[i] = e
  BY <1>2, OutcomeTexts
<1>8. \A e \in Entries : file.entry[e] \in Content /\ file.entry[e].text = record.base.entry[e].text
  BY <1>2 DEF Sound, file
<1>9. \A i \in Items : out.clash[i] # NoClash =>
         /\ snap[i].entry \in Entries
         /\ out.clash[i].copy.text = record.base.entry[snap[i].entry].text
         /\ out.clash[i].copy.etag = 0
  BY <1>6, <1>8, FinalizedTexts
<1>10. \A i \in given : rows[i].committed <=> (out.clash[i] = NoClash)
  <2> HIDE DEF out
  <2> QED BY DEF RowsOf
<1>11. DOMAIN rows = given
  BY DEF RowsOf
<1> HIDE DEF out, rows
<1>12. /\ sync'.at = next /\ sync'.snap = snap /\ sync'.rows = rows /\ sync'.result = out.result
       /\ sync'.clash = out.clash /\ session'.file = out.file
  BY <1>1 DEF Opened
<1>13. /\ Last \in Nat /\ \A e \in Entries : Absent.text = 0 /\ record.base.entry[e].text <= Last
       /\ 0 \notin unseen
  <2>1. Last \in Nat /\ Absent.text = 0
    BY <1>2, TextNumbers
  <2> QED BY <2>1 DEF Text, Dated, OldFile
<1>14. Dated'
  <2>1. \A i \in Items : Old(sync.snap[i])' /\ OldClash(sync.clash[i])'
    BY <1>2, <1>9, <1>12, <1>13 DEF Old, OldClash
  <2>2. \A e \in Entries : out.file.entry[e].text <= Last
    BY <1>7, <1>8, <1>13 DEF Old
  <2> QED BY <1>2, <1>12, <2>1, <2>2 DEF Text, Dated, Old, OldClash, OldFile
<1>15. Shown'
  BY <1>12 DEF Text, Shown
<1>16. Clashing'
  <2>1. \A i \in Items : Raised(sync'.snap[i], sync'.clash[i])
    BY <1>9, <1>12 DEF Raised, Entries
  <2>2. Told(sync'.rows, sync'.clash)
    BY <1>10, <1>11, <1>12 DEF Told
  <2> QED BY <1>12, <2>1, <2>2 DEF Clashing, Reading
<1>17. Level'
  BY DEF Text, Level
<1>18. Written'
  <2>1. ASSUME next = "written" PROVE Writes(out.file)
    <3> SUFFICES ASSUME NEW e \in Entries, out.file.entry[e].text # record.base.entry[e].text
                 PROVE  /\ out.file.entry[e].text \notin unseen
                        /\ record.base.entry[e].text \in unseen
                             => \E i \in Items : item[i].etag = record.base.entry[e].text
      BY DEF Writes
    <3>1. PICK i \in Items : /\ out.file.entry[e].text = snap[i].text
                             /\ \/ snap[i].etag = file.entry[e].text
                                \/ Verdict(i, snap, given, file) = "create" /\ made[i] = e
      BY <1>7, <1>8
    <3>2. CASE snap[i].etag = file.entry[e].text
      BY <1>8, <2>1, <3>1, <3>2
    <3>3. CASE Verdict(i, snap, given, file) = "create" /\ made[i] = e
      <4>1. e \in FreeEntries
        BY <1>3, <1>4, <3>3
      <4>2. record.base.entry[e] = Absent
        BY <4>1 DEF FreeEntries
      <4> QED BY <1>13, <3>1, <4>2
    <3> QED BY <3>1, <3>2, <3>3
  <2> QED BY <1>12, <2>1 DEF Text, Written, Writes
<1>19. Placing'
  BY <1>12 DEF Text, Placing, Placed, Apart
<1>20. Leaving'
  <2>1. ASSUME NEW i \in Items, NEW it \in {item[i], snap[i]}, it.etag \in unseen,
               out.clash[i] # NoClash, NEW e \in Entries, record.base.entry[e].text = it.etag
        PROVE  it.etag = out.clash[i].copy.text
    <3>1. it.entry = e /\ Its(origin, i, it)
      BY <2>1 DEF Text, Placing, Placed, Ind, Owned
    <3>2. origin[e] = i
      BY <3>1 DEF Its, Entries
    <3>3. Present(record.base, e)
      BY <1>13, <2>1 DEF Present
    <3>4. Held(i, e)
      BY <3>2, <3>3 DEF Held, Ind, Copied
    <3>5. snap[i].entry = e
      <4>1. snap[i].entry # 0
        BY <1>9, <2>1 DEF Entries
      <4>2. snap[i] # NoItem
        BY <4>1, KnownFacts
      <4> QED BY <3>4, <4>2 DEF Names
    <3> QED BY <1>9, <2>1, <3>5
  <2>2. \A i \in Items : Left(item[i], sync.clash[i])' /\ Left(sync.snap[i], sync.clash[i])'
    BY <1>12, <2>1 DEF Left
  <2> QED BY <2>2 DEF Text, Leaving, Left
<1>21. Reporting'
  BY <1>6, <1>12 DEF Reporting
<1> QED BY <1>14, <1>15, <1>16, <1>17, <1>18, <1>19, <1>20, <1>21 DEF Text

LEMMA WriteStepsTexts == ASSUME Ind, Text, ReadAndWrite \/ ProjectChecked PROVE Text'
<1>1. Typed /\ item \in [Items -> Known]
      /\ UNCHANGED <<item, conflict, remote, record, receipt, unseen, edits, remotes>>
  BY DEF Ind, Typed, ReadAndWrite, ProjectChecked, vaultVars, diskVars, userVars
<1>2. CASE ReadAndWrite
  <2>1. /\ sync # NoSync /\ sync.at = "read"
        /\ Write(item, BatchOf(queue), {i \in Items \ BatchOf(queue) : queue[i] # 0}, "written")
    BY <1>2 DEF ReadAndWrite, At
  <2>2. session # Closed /\ receipt = NoReceipt /\ session.file.entry = record.working.entry
    BY <2>1 DEF Ind, Staged, Copied
  <2>3. record.working.entry = record.base.entry
    BY <2>2 DEF Text, Level
  <2>4. \A i \in Items, e \in Entries : Held(i, e) => Names(item[i], e)
    <3>1. \A i \in Items, e \in Entries : ~Carried(i, e)
      BY <2>2 DEF Carried, Committed, NoReceipt, NoRows
    <3> QED BY <3>1 DEF Ind, Named, Linkage
  <2>5. \A i \in Items : Old(item[i]) /\ item[i].text \notin unseen /\ Placed(item[i])
                           /\ Its(origin, i, item[i])
    BY DEF Text, Dated, Shown, Placing, Ind, Owned
  <2>6. PICK snap, given, deferred :
          /\ snap = item /\ given = BatchOf(queue)
          /\ deferred = {i \in Items \ BatchOf(queue) : queue[i] # 0}
    OBVIOUS
  <2>7. given \in SUBSET Items /\ deferred \in SUBSET Items
    BY <2>6 DEF BatchOf
  <2>8. Write(snap, given, deferred, "written")
    BY <2>1, <2>6
  <2> QED BY <1>1, <2>2, <2>3, <2>4, <2>5, <2>6, <2>7, <2>8, WriteTexts
<1>3. CASE ProjectChecked
  <2>1. sync # NoSync /\ sync.at = "checked" /\ Write(sync.snap, {}, {}, "published")
    BY <1>3 DEF ProjectChecked, At
  <2>2. session # Closed /\ receipt = NoReceipt /\ session.file.entry = record.working.entry
    BY <2>1 DEF Ind, Staged, Copied
  <2>3. record.working.entry = record.base.entry
    BY <2>2 DEF Text, Level
  <2>4. \A i \in Items, e \in Entries : Held(i, e) => Names(sync.snap[i], e)
    <3>1. \A i \in Items, e \in Entries : ~Carried(i, e)
      BY <2>2 DEF Carried, Committed, NoReceipt, NoRows
    <3> QED BY <2>1, <3>1 DEF Ind, Named, Linkage
  <2>5. \A i \in Items :
          Old(sync.snap[i]) /\ sync.snap[i].text \notin unseen /\ Placed(sync.snap[i])
            /\ Its(origin, i, sync.snap[i])
    BY <2>1 DEF Text, Dated, Shown, Placing, Ind, Owned
  <2>6. PICK snap : snap = sync.snap
    OBVIOUS
  <2>7. snap \in [Items -> Known] /\ Write(snap, {}, {}, "published")
    BY <1>1, <2>1, <2>6, SyncKinds
  <2> QED BY <1>1, <2>2, <2>3, <2>4, <2>5, <2>6, <2>7, WriteTexts
<1> QED BY <1>2, <1>3

LEMMA SaveBatchTexts == ASSUME Ind, Text, SaveBatch PROVE Text'
<1>1. /\ sync # NoSync /\ sync.at = "written" /\ Typed /\ receipt = NoReceipt
      /\ UNCHANGED <<item, conflict, remote, session, unseen, edits, remotes>>
  BY DEF SaveBatch, At, Ind, Staged, vaultVars, userVars
<1>2. sync \in Round(Writing, Row) /\ "stored" \in Writing
  BY <1>1, SyncKinds DEF Writing
<1>3. /\ sync' # NoSync /\ sync'.at = "stored" /\ sync'.snap = sync.snap /\ sync'.rows = sync.rows
      /\ sync'.result = sync.result /\ sync'.clash = sync.clash
  BY <1>2, PhaseMoves DEF SaveBatch
<1>4. record.working.entry = record.base.entry
  BY <1>1 DEF Text, Level
<1>5. Reporting'
  BY <1>1, <1>3 DEF Text, Reporting
<1>6. CASE UNCHANGED <<record, receipt>>
  BY <1>1, <1>3, <1>4, <1>5, <1>6, QuietKeeps DEF Reading
<1>7. CASE /\ Committed(sync.rows) # {}
           /\ record' = Saved(session.file) /\ receipt' = ReceiptOf(sync)
  <2>1. /\ record'.base = record.base /\ record'.working = session.file
        /\ record'.dirty = TRUE /\ record'.current = record.current
    BY <1>1, <1>7 DEF Saved, Typed
  <2>2. /\ receipt'.rows = sync.rows /\ receipt'.snap = sync.snap /\ receipt'.clash = sync.clash
    BY <1>7 DEF ReceiptOf
  <2>3. receipt' # NoReceipt /\ Last' = Last
    BY <1>1, <1>7, <2>2 DEF NoReceipt, NoRows, Committed, Last
  <2>4. Dated'
    BY <1>1, <1>3, <2>1, <2>2, <2>3 DEF Text, Dated, Old, OldClash, OldFile
  <2>5. Shown'
    BY <1>1, <1>3 DEF Text, Shown
  <2>6. Clashing'
    BY <1>1, <1>3, <2>2 DEF Text, Clashing, Reading
  <2>7. Level'
    BY <1>1, <1>3, <2>1, <2>3 DEF Text, Level
  <2>8. Written'
    BY <1>1, <1>3, <2>1 DEF Text, Written, Writes
  <2>9. Placing'
    BY <1>1, <1>3, <2>1 DEF Text, Placing, Placed, Apart
  <2>10. Leaving'
    BY <1>1, <1>3, <2>1, <2>2 DEF Text, Leaving, Left
  <2> QED BY <1>5, <2>4, <2>5, <2>6, <2>7, <2>8, <2>9, <2>10 DEF Text
<1> QED BY <1>1, <1>6, <1>7 DEF SaveBatch
-----------------------------------------------------------------------------
(* What is written to the server has the server's text of an entry, or one of *)
(* the working copy in place of the text that the base and the server have.   *)
LEMMA ToWriteTexts ==
  ASSUME Typed, Copied, Level, CanWrite, NEW e \in Entries
  PROVE  LET base == record.base.entry[e].text  work == record.working.entry[e].text
         IN \/ ToWrite.entry[e].text = remote.entry[e].text
            \/ ToWrite.entry[e].text = work /\ work # base /\ base = remote.entry[e].text
<1> DEFINE base == record.base.entry[e]
           work == record.working.entry[e]
           there == remote.entry[e]
<1>1. CASE record.current
  <2>1. ToWrite = record.working /\ remote = record.base
    BY <1>1 DEF ToWrite, Level
  <2> QED BY <2>1
<1>2. CASE ~record.current
  <2>1. EntriesAgree(e) /\ ToWrite.entry[e] = MergedEntry(e)
    BY <1>2 DEF CanWrite, CanRebase, ToWrite, Rebased
  <2>2. base \in Content /\ work \in Content /\ there \in Content
    BY DEF Typed, Sound
  <2>3. base # Absent \/ there # Absent => work # Absent
    BY DEF Copied, Present
  <2>4. \A c \in Content : c # Absent => c.text # 0
    BY ContentFacts
  <2>5. ASSUME NEW a, NEW b, NEW c, Agree(a, b, c) PROVE b = a \/ c = a \/ c = b
    <3>1. CASE a # b /\ c # a /\ c # b
      <4>1. Cardinality({a}) = 1 /\ IsFiniteSet({a})
        BY FS_Singleton
      <4>2. Cardinality({a} \cup {b}) = 2 /\ IsFiniteSet({a} \cup {b})
        BY <3>1, <4>1, FS_AddElement
      <4>3. Cardinality(({a} \cup {b}) \cup {c}) = 3
        BY <3>1, <4>2, FS_AddElement
      <4>4. ({a} \cup {b}) \cup {c} = {a, b, c}
        OBVIOUS
      <4> QED BY <2>5, <4>3, <4>4 DEF Agree
    <3> QED BY <3>1
  <2>6. CASE Absent \in {base, work, there}
    <3>1. Agree(base, work, there) /\ MergedEntry(e) = Pick(base, work, there)
      BY <2>1, <2>6 DEF EntriesAgree, MergedEntry
    <3>2. work = base \/ there = base \/ there = work
      BY <2>5, <3>1
    <3>3. MergedEntry(e) = IF work = base THEN there ELSE work
      BY <3>1 DEF Pick
    <3>4. Absent.text = 0
      BY DEF Absent
    <3> HIDE DEF base, work, there
    <3>5. CASE work = base
      BY <2>1, <3>3, <3>5 DEF there
    <3>6. CASE there = work
      BY <2>1, <3>3, <3>6 DEF there
    <3>7. CASE work # base /\ there = base
      <4>1. base = Absent /\ work # Absent
        BY <2>3, <2>6, <3>7
      <4> QED BY <2>1, <2>2, <2>4, <3>3, <3>4, <3>7, <4>1 DEF there, base, work
    <3> QED BY <3>2, <3>5, <3>6, <3>7
  <2>7. CASE Absent \notin {base, work, there}
    <3>1. /\ Agree(base.text, work.text, there.text)
          /\ MergedEntry(e).text = Pick(base.text, work.text, there.text)
      BY <2>1, <2>7 DEF EntriesAgree, MergedEntry
    <3>2. work.text = base.text \/ there.text = base.text \/ there.text = work.text
      BY <2>5, <3>1
    <3> QED BY <2>1, <3>1, <3>2 DEF Pick
  <2> QED BY <2>6, <2>7
<1> QED BY <1>1, <1>2

(* A file whose texts that were not shown are where the server has them. *)
Follows(file) == \A e \in Entries :
  \/ file.entry[e].text = remote.entry[e].text
  \/ file.entry[e].text = record.working.entry[e].text /\ file.entry[e].text \notin unseen

LEMMA ToWriteFollows == ASSUME Typed, Copied, Text, CanWrite PROVE Follows(ToWrite)
<1> SUFFICES ASSUME NEW e \in Entries
             PROVE  \/ ToWrite.entry[e].text = remote.entry[e].text
                    \/ /\ ToWrite.entry[e].text = record.working.entry[e].text
                       /\ ToWrite.entry[e].text \notin unseen
  BY DEF Follows
<1> QED BY ToWriteTexts DEF Text, Written, Writes

LEMMA PublishTexts == ASSUME Ind, Text, Publish PROVE Text'
<1>1. /\ Publishing /\ Typed /\ Copied /\ sync # NoSync /\ sync.at # "written" /\ session # Closed
      /\ UNCHANGED <<item, conflict, receipt, origin, unseen, edits, remotes>>
  BY DEF Publish, PublishUnchanged, PublishRefreshed, PublishWritten, Publishing, At, Ind, Staged,
         vaultVars, userVars
<1>2. Level /\ Reporting /\ Owned /\ session.file.entry = record.working.entry
  BY <1>1 DEF Text, Ind, Copied
<1>3. CASE PublishUnchanged
  <2>1. /\ UNCHANGED <<remote, record, session>> /\ sync' = [sync EXCEPT !.at = PhaseAfter(@)]
        /\ ~record.dirty
    BY <1>3 DEF PublishUnchanged
  <2>2. /\ sync' # NoSync /\ sync'.snap = sync.snap /\ sync'.clash = sync.clash
        /\ sync'.result = sync.result
        /\ <<sync.at, sync'.at>> \in {<<"settle", "settled">>, <<"probe", "checked">>,
                                      <<"stored", "published">>}
    BY <1>1, <2>1, AdvanceFacts
  <2>3. record.working.entry = record.base.entry
    BY <1>2, <2>1 DEF Level
  <2>4. Reporting'
    BY <1>2, <2>1, <2>2 DEF Reporting
  <2> QED BY <1>1, <2>1, <2>2, <2>3, <2>4, QuietKeeps DEF Reading
<1>4. ASSUME NEW file \in Sound, remote' = file, record' = Synced(file), session' = Opened(file),
             Follows(file),
             \/ sync' = [sync EXCEPT !.at = PhaseAfter(@)] /\ file.entry = record.working.entry
             \/ sync' = Reread(file)
      PROVE  Text'
  <2>1. /\ record'.base = file /\ record'.working = file /\ record'.dirty = FALSE
        /\ session'.file = file /\ Last' = Last
    BY <1>1, <1>4 DEF Synced, Opened, Last
  <2>2. /\ sync' # NoSync /\ sync'.snap = sync.snap
        /\ <<sync.at, sync'.at>> \in {<<"settle", "settled">>, <<"probe", "checked">>,
                                      <<"stored", "published">>}
        /\ \A i \in Items : sync'.clash[i] \in {NoClash, sync.clash[i]}
    <3>1. CASE sync' = [sync EXCEPT !.at = PhaseAfter(@)]
      BY <1>1, <3>1, AdvanceFacts
    <3>2. CASE sync' = Reread(file) /\ sync.at = "stored"
      BY <1>1, <1>2, <3>2, RereadFacts
    <3> QED BY <1>4, <3>1, <3>2 DEF Reread, At
  <2>3. Reporting'
    <3> SUFFICES ASSUME sync'.at = "published", NEW i \in Items
                 PROVE  Reported(sync'.result[i], sync.snap[i], file)
      BY <2>1, <2>2 DEF Reporting
    <3>1. sync.at = "stored"
      BY <2>2
    <3>2. CASE /\ sync' = [sync EXCEPT !.at = PhaseAfter(@)] /\ file.entry = record.working.entry
      <4>1. sync'.result = sync.result
        BY <1>1, <3>2, AdvanceFacts
      <4> QED BY <1>2, <3>1, <3>2, <4>1 DEF Reporting, Reported
    <3>3. CASE sync' = Reread(file)
      <4>1. sync.result \in [Items -> Known]
        BY <1>1, SyncKinds
      <4>2. sync'.result[i] = Projected(i, sync.result, origin, file)
        <5>1. sync' = [sync EXCEPT !.at = "published", !.result = Refreshed(@, file),
                                   !.clash = [j \in Items |-> NoClash]]
          BY <1>1, <3>1, <3>3 DEF Reread, At
        <5>2. sync \in Round(Writing, Row)
          BY <1>1, <3>1, SyncKinds DEF Writing
        <5>3. sync'.result = Refreshed(sync.result, file)
          BY <5>1, <5>2 DEF Round
        <5> QED BY <5>3 DEF Refreshed
      <4>3. PICK o : o = origin
        OBVIOUS
      <4>4. sync'.result[i] = Projected(i, sync.result, o, file)
        BY <4>2, <4>3
      <4> QED BY <1>4, <4>1, <4>4, ProjectedText DEF Reported, Entries
    <3> QED BY <1>4, <3>2, <3>3
  <2>4. Dated'
    <3>1. OldFile(file)
      BY <1>4 DEF Text, Dated, OldFile, Follows
    <3> QED BY <1>1, <1>4, <2>1, <2>2, <3>1 DEF Text, Dated, Old, OldClash, OldFile
  <2>5. Shown'
    BY <1>1, <2>2 DEF Text, Shown
  <2>6. Clashing'
    <3>1. \A i \in Items : Raised(sync.snap[i], sync'.clash[i])
      BY <1>1, <2>2 DEF Text, Clashing, Raised
    <3>2. sync'.at \in Reading => sync.at \in Reading
      BY <2>2 DEF Reading
    <3> QED BY <1>1, <2>2, <3>1, <3>2 DEF Text, Clashing
  <2>7. Level'
    BY <1>4, <2>1 DEF Level
  <2>8. Written'
    BY <2>1, <2>2 DEF Written, Writes
  <2>9. \A e \in Entries : file.entry[e].text \in unseen => file.entry[e].text = remote.entry[e].text
    BY <1>4 DEF Follows
  <2>10. Placing'
    <3>1. Apart(file, file)
      BY <2>9 DEF Text, Placing, Apart
    <3>2. ASSUME NEW it, Placed(it) PROVE Placed(it)'
      BY <1>1, <1>4, <2>1, <2>9, <3>2 DEF Placed
    <3>3. \A i \in Items : Placed(item[i])' /\ Placed(sync.snap[i])'
      BY <1>1, <2>2, <3>2 DEF Text, Placing
    <3> QED BY <1>1, <1>4, <2>1, <3>1, <3>3 DEF Placing, Apart
  <2>11. Leaving'
    <3>1. ASSUME NEW it, NEW c, Placed(it), Left(it, c) PROVE Left(it, c)'
      BY <1>1, <2>1, <2>9, <3>1 DEF Placed, Left
    <3>2. \A i \in Items : /\ Placed(item[i]) /\ Placed(sync.snap[i]) /\ Left(item[i], conflict[i])
                           /\ Left(item[i], sync.clash[i]) /\ Left(sync.snap[i], sync.clash[i])
                           /\ receipt # NoReceipt => /\ Left(item[i], receipt.clash[i])
                                                     /\ Left(sync.snap[i], receipt.clash[i])
      BY <1>1 DEF Text, Placing, Leaving
    <3>3. \A it : Left(it, NoClash)
      BY DEF Left
    <3>4. \A i \in Items : /\ Left(item[i], conflict[i])' /\ Left(item[i], sync.clash[i])'
                           /\ Left(sync.snap[i], sync.clash[i])'
      BY <1>1, <2>2, <3>1, <3>2, <3>3
    <3>5. receipt' # NoReceipt => \A i \in Items : /\ Left(item[i], receipt.clash[i])'
                                                   /\ Left(sync.snap[i], receipt.clash[i])'
      BY <1>1, <2>2, <3>1, <3>2
    <3> QED BY <2>2, <3>4, <3>5 DEF Leaving
  <2> QED BY <2>3, <2>4, <2>5, <2>6, <2>7, <2>8, <2>10, <2>11 DEF Text
<1>5. CASE PublishRefreshed
  <2>1. /\ UNCHANGED remote /\ record' = Synced(remote) /\ session' = Opened(remote)
        /\ sync' = Reread(remote)
    BY <1>5 DEF PublishRefreshed
  <2> QED BY <1>1, <1>4, <2>1 DEF Typed, Follows
<1>6. CASE PublishWritten
  <2>1. /\ remote' = ToWrite /\ record' = Synced(ToWrite) /\ session' = Opened(ToWrite)
        /\ CanWrite
        /\ \/ record.current /\ sync' = [sync EXCEPT !.at = PhaseAfter(@)]
           \/ sync' = Reread(ToWrite)
    BY <1>6 DEF PublishWritten
  <2>2. record.current => ToWrite = record.working
    BY DEF ToWrite
  <2> QED BY <1>1, <1>2, <1>4, <2>1, <2>2, ToWriteFacts, ToWriteFollows
<1> QED BY <1>3, <1>5, <1>6 DEF Publish

(* The file is on the server, and the working copy does not know it. *)
LEMMA AnswerLostTexts == ASSUME Ind, Text, AnswerLost PROVE Text'
<1>1. /\ Typed /\ Copied /\ CanWrite /\ sync' = NoSync /\ remote' = ToWrite
      /\ record' = [record EXCEPT !.current = FALSE]
      /\ UNCHANGED <<item, conflict, receipt, unseen, edits, remotes>>
  BY DEF AnswerLost, Forget, Ind, vaultVars, userVars
<1>2. /\ record'.base = record.base /\ record'.working = record.working
      /\ record'.dirty = record.dirty /\ record'.current = FALSE
      /\ Last' = Last /\ NoSync.at = "idle"
  BY <1>1 DEF Typed, Last, NoSync
<1>3. Follows(ToWrite)
  BY <1>1, ToWriteFollows
<1>4. \A e \in Entries : ToWrite.entry[e].text \in unseen => ToWrite.entry[e].text = remote.entry[e].text
  BY <1>3 DEF Follows
<1>5. Dated'
  <2>1. OldFile(ToWrite)
    BY <1>3 DEF Text, Dated, OldFile, Follows
  <2> QED BY <1>1, <1>2, <2>1 DEF Text, Dated, Old, OldClash, OldFile
<1>6. Shown'
  BY <1>1 DEF Text, Shown
<1>7. Clashing'
  BY <1>1, <1>2 DEF Text, Clashing
<1>8. Level'
  BY <1>1, <1>2 DEF Text, Level
<1>9. Written'
  BY <1>1, <1>2 DEF Text, Written, Writes
<1>10. Placing'
  <2>1. Apart(ToWrite, ToWrite) /\ Apart(ToWrite, record.base) /\ Apart(record.base, record.base)
    BY <1>4 DEF Text, Placing, Apart
  <2>2. \A i \in Items : Placed(item[i])'
    BY <1>1, <1>2, <1>4 DEF Text, Placing, Placed
  <2> QED BY <1>1, <1>2, <2>1, <2>2 DEF Placing, Apart
<1>11. Leaving'
  BY <1>1, <1>2 DEF Text, Leaving, Left
<1>12. Reporting'
  BY <1>1, <1>2 DEF Reporting
<1> QED BY <1>5, <1>6, <1>7, <1>8, <1>9, <1>10, <1>11, <1>12 DEF Text
-----------------------------------------------------------------------------
(* What was dated still is after one more text. *)
LEMMA LaterFacts ==
  ASSUME Typed, Last' = Last + 1
  PROVE  /\ Last \in Nat
         /\ \A it \in Known : Old(it) => Old(it)'
         /\ \A c \in Clashes : OldClash(c) => OldClash(c)'
         /\ \A f \in Sound : OldFile(f) => OldFile(f)'
         /\ unseen \subseteq 1..Last => unseen \subseteq 1..Last'
<1>1. Last \in Nat
  BY TextNumbers
<1>2. \A t \in Nat : t <= Last => t <= Last'
  BY <1>1
<1>3. \A it \in Known : Old(it) => Old(it)'
  BY <1>2, TextNumbers DEF Old
<1>4. \A c \in Clashes : OldClash(c) => OldClash(c)'
  BY <1>3 DEF OldClash, Clashes
<1>5. \A f \in Sound : OldFile(f) => OldFile(f)'
  BY <1>2, TextNumbers DEF OldFile
<1>6. 1..Last \subseteq 1..Last'
  BY <1>1
<1> QED BY <1>1, <1>3, <1>4, <1>5, <1>6

LEMMA DatedLater ==
  ASSUME Ind, Dated, Last' = Last + 1, UNCHANGED <<record, receipt, session, sync>>,
         unseen' \subseteq 1..Last', OldFile(remote)',
         \A i \in Items : Old(item[i])' /\ OldClash(conflict[i])'
  PROVE  Dated'
<1>1. Typed /\ record.base \in Sound /\ record.working \in Sound
  BY DEF Ind, Typed
<1>2. OldFile(record.base)' /\ OldFile(record.working)'
  BY <1>1, LaterFacts DEF Dated
<1>3. sync # NoSync => \A i \in Items : Old(sync.snap[i])' /\ OldClash(sync.clash[i])'
  <2>1. sync # NoSync => \A i \in Items : sync.snap[i] \in Known /\ sync.clash[i] \in Clashes
    BY <1>1, SyncKinds
  <2> QED BY <1>1, <2>1, LaterFacts DEF Dated
<1>4. receipt # NoReceipt => \A i \in Items : OldClash(receipt.clash[i])'
  <2>1. receipt # NoReceipt => \A i \in Items : receipt.clash[i] \in Clashes
    BY <1>1, ReceiptRows DEF Receipt
  <2> QED BY <1>1, <2>1, LaterFacts DEF Dated
<1>5. sync.at = "written" => OldFile(session.file)'
  <2>1. sync.at = "written" => session.file \in Sound
    <3>1. NoSync.at = "idle"
      BY DEF NoSync
    <3> QED BY <3>1 DEF Ind, Staged, Typed
  <2> QED BY <1>1, <2>1, LaterFacts DEF Dated
<1> QED BY <1>2, <1>3, <1>4, <1>5 DEF Dated

(* A change of one item of the vault: its text is fresh or was shown, and it  *)
(* has no baseline that was not shown, or the one it had.                     *)
LEMMA VaultChangeTexts ==
  ASSUME Ind, Text, NEW i \in Items, NEW it \in Known, item' = [item EXCEPT ![i] = it],
         edits' = edits + 1, it.text <= Last + 1, it.text \notin unseen,
         \/ it.etag = item[i].etag /\ it.entry = item[i].entry
         \/ it.etag <= Last /\ it.etag \notin unseen,
         \A j \in Items : conflict'[j] = conflict[j] \/ conflict'[j] = NoClash,
         it.etag = item[i].etag \/ conflict'[i] = NoClash,
         item[i].etag \in unseen => \/ it.etag = item[i].etag
                                    \/ \A e \in Entries : record.base.entry[e].text # item[i].etag,
         UNCHANGED <<remote, diskVars, session, sync, unseen, remotes>>
  PROVE  Text'
<1>1. /\ UNCHANGED <<remote, record, receipt, session, sync, unseen, remotes>>
      /\ item'[i] = it /\ (\A j \in Items \ {i} : item'[j] = item[j]) /\ Typed
  BY DEF Ind, Typed, diskVars
<1>2. Last \in Nat /\ Last' = Last + 1
  BY <1>1, TextNumbers, SizeType DEF Last, Typed
<1>3. Dated'
  <2>1. \A j \in Items : item[j] \in Known /\ conflict[j] \in Clashes /\ remote \in Sound
    BY <1>1 DEF Typed
  <2>2. \A j \in Items : OldClash(conflict[j])'
    BY <1>1, <1>2, <2>1, LaterFacts DEF Text, Dated, OldClash
  <2>3. Old(item[i])'
    <3>1. item[i].etag \in Nat /\ item[i].etag <= Last /\ it.etag \in Nat
      BY <2>1, TextNumbers, <1>1 DEF Text, Dated, Old
    <3>2. it.etag <= Last'
      BY <1>2, <3>1
    <3> QED BY <1>1, <1>2, <3>2 DEF Old
  <2>4. \A j \in Items : Old(item[j])'
    BY <1>1, <1>2, <2>1, <2>3, LaterFacts DEF Text, Dated
  <2>5. unseen' \subseteq 1..Last' /\ OldFile(remote)'
    BY <1>1, <1>2, <2>1, LaterFacts DEF Text, Dated
  <2> QED BY <1>1, <1>2, <2>2, <2>4, <2>5, DatedLater DEF Text
<1>4. Shown'
  BY <1>1 DEF Text, Shown
<1>5. Clashing'
  BY <1>1 DEF Text, Clashing
<1>6. Level'
  BY <1>1 DEF Text, Level
<1>7. Written'
  <2>1. ASSUME NEW f, Writes(f) PROVE Writes(f)'
    BY <1>1, <2>1 DEF Writes
  <2> QED BY <1>1, <2>1 DEF Text, Written
<1>8. Placing'
  <2>1. \A j \in Items : Placed(item[j])' /\ (sync # NoSync => Placed(sync.snap[j])')
    BY <1>1 DEF Text, Placing, Placed
  <2> QED BY <1>1, <2>1 DEF Text, Placing, Apart
<1>9. Leaving'
  <2>1. ASSUME NEW j \in Items
        PROVE  /\ Left(item[j], conflict[j])'
               /\ receipt # NoReceipt => Left(item[j], receipt.clash[j])'
               /\ sync # NoSync => Left(item[j], sync.clash[j])'
    BY <1>1 DEF Text, Leaving, Left
  <2>2. \A j \in Items :
          /\ receipt # NoReceipt /\ sync # NoSync => Left(sync.snap[j], receipt.clash[j])'
          /\ sync # NoSync => Left(sync.snap[j], sync.clash[j])'
    BY <1>1 DEF Text, Leaving, Left
  <2> QED BY <1>1, <2>1, <2>2 DEF Leaving
<1>10. Reporting'
  BY <1>1 DEF Text, Reporting
<1> QED BY <1>3, <1>4, <1>5, <1>6, <1>7, <1>8, <1>9, <1>10 DEF Text

LEMMA UserEditsTexts == ASSUME Ind, Text, UserEdits PROVE Text'
<1>1. PICK i \in Items : Created(i) \/ Edited(i) \/ Deleted(i) \/ Restored(i)
  BY DEF UserEdits
<1>2. /\ edits < MaxEdits /\ edits' = edits + 1 /\ edits' \in 0..MaxEdits /\ Typed
      /\ UNCHANGED <<conflict, remote, diskVars, session, sync, unseen, remotes>>
  <2>1. Typed /\ edits < MaxEdits /\ edits' = edits + 1
    BY DEF UserEdits, Ind
  <2>2. edits' \in 0..MaxEdits
    BY <2>1, BoundsAssumption DEF Typed
  <2> QED BY <2>1, <2>2 DEF UserEdits
<1>3. /\ FreshText \in Texts \ {0} /\ FreshText = Last + 1 /\ FreshText \notin unseen
      /\ Last \in Nat /\ 0 \notin unseen
  <2>1. FreshText \in Texts \ {0} /\ FreshText = Last + 1 /\ Last \in Nat
    BY <1>2, FreshTextType, TextNumbers
  <2> QED BY <2>1 DEF Text, Dated
<1>4. item[i] \in Known /\ item[i].text \notin unseen /\ item[i].text <= Last + 1
  <2>1. item[i] \in Known /\ item[i].text \in Nat
    BY <1>2, TextNumbers DEF Typed
  <2> QED BY <1>3, <2>1 DEF Text, Dated, Old, Shown
<1>5. ASSUME NEW it \in Known, item' = [item EXCEPT ![i] = it],
             it.text \in {FreshText, item[i].text}, it.etag = item[i].etag, it.entry = item[i].entry
      PROVE  Text'
  <2>1. it.text <= Last + 1 /\ it.text \notin unseen
    BY <1>3, <1>4, <1>5
  <2> QED BY <1>2, <1>5, <2>1, VaultChangeTexts
<1>6. CASE Created(i)
  <2> DEFINE it == [NoItem EXCEPT !.text = FreshText, !.stamp = edits']
  <2>1. item' = [item EXCEPT ![i] = it] /\ item[i] = NoItem
    BY <1>6 DEF Created, Exists
  <2>2. it \in Known /\ it.text = FreshText /\ it.etag = NoItem.etag /\ it.entry = NoItem.entry
    <3>1. it \in Known
      BY <1>2, <1>3, CreatedFacts
    <3> QED BY <3>1 DEF NoItem
  <2> HIDE DEF it
  <2> QED BY <1>5, <2>1, <2>2
<1>7. CASE Edited(i)
  <2> DEFINE it == [item[i] EXCEPT !.text = FreshText, !.stamp = edits']
  <2>1. item' = [item EXCEPT ![i] = it] /\ item[i] # NoItem
    BY <1>2, <1>7 DEF Edited, Exists, Typed
  <2>2. it \in Known
    BY <1>2, <1>3, <1>4, <2>1, EditedFacts
  <2>3. it.text = FreshText /\ it.etag = item[i].etag /\ it.entry = item[i].entry
    <3>1. item[i] \in Item
      BY <1>4 DEF Known
    <3> QED BY <3>1 DEF Item
  <2> HIDE DEF it
  <2> QED BY <1>5, <2>1, <2>2, <2>3
<1>8. CASE Deleted(i) \/ Restored(i)
  <2>1. PICK b \in BOOLEAN : item' = [item EXCEPT ![i] = [item[i] EXCEPT !.bin = b, !.stamp = edits']]
    BY <1>2, <1>8 DEF Deleted, Restored, Typed
  <2> DEFINE it == [item[i] EXCEPT !.bin = b, !.stamp = edits']
  <2>2. item[i] # NoItem
    BY <1>8 DEF Deleted, Restored, Exists
  <2>3. it \in Known
    BY <1>2, <1>4, <2>2, EditedFacts
  <2>4. it.text = item[i].text /\ it.etag = item[i].etag /\ it.entry = item[i].entry
    <3>1. item[i] \in Item
      BY <1>4 DEF Known
    <3> QED BY <3>1 DEF Item
  <2>5. item' = [item EXCEPT ![i] = it]
    BY <2>1
  <2> HIDE DEF it
  <2> QED BY <1>5, <2>3, <2>4, <2>5
<1> QED BY <1>1, <1>6, <1>7, <1>8

LEMMA UserDecidesTexts == ASSUME Ind, Text, UserDecides PROVE Text'
<1>1. PICK i \in Items : /\ conflict[i] # NoClash
                         /\ KeepLocal(i) \/ UseRemote(i)
                         /\ conflict' = [conflict EXCEPT ![i] = NoClash]
  BY DEF UserDecides
<1>2. /\ edits' = edits + 1 /\ Typed
      /\ UNCHANGED <<remote, diskVars, session, sync, unseen, remotes>>
  BY DEF UserDecides, Ind
<1>3. /\ conflict'[i] = NoClash
      /\ \A j \in Items : conflict'[j] = conflict[j] \/ conflict'[j] = NoClash
  BY <1>1, <1>2 DEF Typed
<1>4. Last \in Nat
  BY <1>2, TextNumbers
<1> DEFINE c == conflict[i].copy
<1>5. /\ c \in Known /\ c.text \notin unseen /\ c.etag \notin unseen
      /\ c.text \in Nat /\ c.text <= Last + 1 /\ c.etag <= Last
  <2>1. conflict[i] \in Clashes
    BY <1>2 DEF Typed
  <2>2. c \in Known
    BY <1>1, <2>1 DEF Clashes
  <2>3. c.text \in Nat /\ c.text <= Last /\ c.etag <= Last
    BY <1>1, <1>2, <2>2, TextNumbers DEF Text, Dated, OldClash, Old
  <2>4. c.text <= Last + 1
    BY <1>4, <2>3
  <2> QED BY <1>1, <2>2, <2>3, <2>4 DEF Text, Shown
<1>6. /\ item[i] \in Known /\ item[i].text \in Nat /\ item[i].text \notin unseen
      /\ item[i].text <= Last + 1
  <2>1. item[i] \in Known /\ item[i].text \in Nat
    BY <1>2, TextNumbers DEF Typed
  <2> QED BY <1>4, <2>1 DEF Text, Dated, Old, Shown
<1>7. item[i].etag \in unseen => \A e \in Entries : record.base.entry[e].text # item[i].etag
  BY <1>1, <1>5 DEF Text, Leaving, Left
<1>8. ASSUME NEW it \in Known, item' = [item EXCEPT ![i] = it], it.etag = c.etag,
             it.text \in {c.text, item[i].text}
      PROVE  Text'
  BY <1>2, <1>3, <1>5, <1>6, <1>7, <1>8, VaultChangeTexts
<1>9. CASE KeepLocal(i)
  <2> DEFINE b == c # NoItem
             it == [item[i] EXCEPT !.entry = c.entry, !.etag = c.etag, !.from = c.from, !.foreign = b]
  <2>1. item' = [item EXCEPT ![i] = it] /\ item[i] # NoItem
    BY <1>2, <1>9 DEF KeepLocal, Exists, Typed
  <2>2. it \in Known /\ it.etag = c.etag /\ it.text = item[i].text
    <3>1. item[i] \in Item /\ item[i].text # 0 /\ c \in Item /\ b \in BOOLEAN /\ NoItem.text = 0
      BY <1>5, <1>6, <2>1, KnownFacts DEF Known, NoItem
    <3> HIDE DEF c, b
    <3>2. it \in Item /\ it.text = item[i].text /\ it.etag = c.etag
      BY <3>1 DEF Item
    <3> QED BY <3>1, <3>2 DEF Known
  <2> HIDE DEF it, b
  <2> QED BY <1>8, <2>1, <2>2
<1>10. CASE UseRemote(i)
  <2>1. item' = [item EXCEPT ![i] = c]
    BY <1>10 DEF UseRemote
  <2> QED BY <1>5, <1>8, <2>1
<1> QED BY <1>1, <1>9, <1>10

LEMMA OthersEditTexts == ASSUME Ind, Text, OthersEdit PROVE Text'
<1>0. PICK e \in Entries :
        /\ remote.entry[e] # Absent
        /\ \E now \in {Absent, [remote.entry[e] EXCEPT !.bin = ~@],
                       [remote.entry[e] EXCEPT !.text = FreshText]} :
             /\ remote' = [remote EXCEPT !.entry[e] = now]
             /\ unseen' = unseen \cup ({now.text} \ {0, remote.entry[e].text})
  BY DEF OthersEdit
<1>1. PICK now \in {Absent, [remote.entry[e] EXCEPT !.bin = ~@],
                    [remote.entry[e] EXCEPT !.text = FreshText]} :
        /\ remote' = [remote EXCEPT !.entry[e] = now]
        /\ unseen' = unseen \cup ({now.text} \ {0, remote.entry[e].text})
  BY <1>0
<1>2. /\ remotes < MaxRemote /\ remotes' = remotes + 1 /\ Typed
      /\ record' = [record EXCEPT !.current = FALSE]
      /\ UNCHANGED <<item, conflict, receipt, session, sync, edits>>
  BY DEF OthersEdit, Ind, vaultVars
<1>3. /\ record'.base = record.base /\ record'.working = record.working
      /\ record'.dirty = record.dirty /\ record'.current = FALSE
  BY <1>2 DEF Typed
<1>4. Last \in Nat /\ Last' = Last + 1 /\ FreshText = Last + 1 /\ Absent.text = 0
  <2>1. Cardinality(Items) \in Nat /\ edits \in Nat /\ remotes \in Nat
    BY <1>2, SizeType, BoundsAssumption DEF Typed
  <2> QED BY <1>2, <2>1, TextNumbers DEF Last
<1>5. /\ \A f \in Entries \ {e} : remote'.entry[f] = remote.entry[f]
      /\ remote'.entry[e] = now
      /\ now.text \in {0, remote.entry[e].text, Last + 1}
      /\ unseen' \in {unseen, unseen \cup {Last + 1}}
  <2>1. remote \in Sound /\ remote.entry[e] \in Content
    BY <1>2 DEF Typed, Sound
  <2>2. now.text \in {0, remote.entry[e].text, Last + 1}
    BY <1>4, <2>1 DEF Content
  <2>3. now.text = Last + 1 => unseen' \in {unseen, unseen \cup {Last + 1}}
    BY <1>1
  <2>4. now.text # Last + 1 => unseen' = unseen
    BY <1>1, <2>2
  <2> QED BY <1>1, <2>1, <2>2, <2>3, <2>4 DEF Sound
<1> HIDE DEF Last
(* A text of before is unseen only if it was. *)
<1>6. \A t \in Nat : t <= Last => (t \in unseen' <=> t \in unseen)
  BY <1>4, <1>5
<1>7. /\ \A j \in Items : /\ item[j].text \in Nat /\ item[j].text <= Last
                          /\ item[j].etag \in Nat /\ item[j].etag <= Last
                          /\ conflict[j] # NoClash =>
                               /\ conflict[j].copy.text \in Nat /\ conflict[j].copy.text <= Last
                               /\ conflict[j].copy.etag \in Nat /\ conflict[j].copy.etag <= Last
      /\ sync # NoSync => \A j \in Items :
           /\ sync.snap[j].text \in Nat /\ sync.snap[j].text <= Last
           /\ sync.snap[j].etag \in Nat /\ sync.snap[j].etag <= Last
      /\ \A f \in Entries :
           /\ remote.entry[f].text \in Nat /\ remote.entry[f].text <= Last
           /\ record.base.entry[f].text \in Nat /\ record.base.entry[f].text <= Last
           /\ record.working.entry[f].text \in Nat /\ record.working.entry[f].text <= Last
           /\ sync.at = "written" => /\ session.file.entry[f].text \in Nat
                                     /\ session.file.entry[f].text <= Last
  <2>1. \A j \in Items : item[j] \in Known /\ (conflict[j] # NoClash => conflict[j].copy \in Known)
    BY <1>2 DEF Typed, Clashes
  <2>2. sync # NoSync => \A j \in Items : sync.snap[j] \in Known
    BY <1>2, SyncKinds
  <2>3. remote \in Sound /\ record.base \in Sound /\ record.working \in Sound
    BY <1>2 DEF Typed
  <2>4. sync.at = "written" => session.file \in Sound
    <3>1. NoSync.at = "idle"
      BY DEF NoSync
    <3> QED BY <3>1 DEF Ind, Staged, Typed
  <2> QED BY <1>2, <2>1, <2>2, <2>3, <2>4, TextNumbers DEF Text, Dated, Old, OldClash, OldFile
<1>8. Dated'
  <2>1. \A j \in Items : Old(item[j])' /\ OldClash(conflict[j])'
    BY <1>2, <1>4, <1>7 DEF Old, OldClash
  <2>2. unseen \subseteq 1..Last
    BY DEF Text, Dated
  <2>3. unseen' \subseteq 1..Last'
    BY <1>4, <1>5, <2>2
  <2>4. OldFile(remote)'
    <3>1. \A f \in Entries : remote'.entry[f].text <= Last'
      BY <1>4, <1>5, <1>7
    <3> QED BY <3>1 DEF OldFile
  <2>5. /\ OldFile(record.base)' /\ OldFile(record.working)'
        /\ sync.at = "written" => OldFile(session.file)'
    BY <1>2, <1>3, <1>4, <1>7 DEF OldFile
  <2>6. /\ sync # NoSync => \A j \in Items : Old(sync.snap[j])' /\ OldClash(sync.clash[j])'
        /\ receipt # NoReceipt => \A j \in Items : OldClash(receipt.clash[j])'
    <3>1. sync # NoSync => \A j \in Items : sync.snap[j] \in Known /\ sync.clash[j] \in Clashes
      BY <1>2, SyncKinds
    <3>2. receipt # NoReceipt => \A j \in Items : receipt.clash[j] \in Clashes
      BY <1>2, ReceiptRows DEF Receipt
    <3> QED BY <1>2, <1>4, <3>1, <3>2, LaterFacts DEF Text, Dated
  <2> QED BY <1>2, <2>1, <2>3, <2>4, <2>5, <2>6 DEF Dated
<1>9. Shown'
  BY <1>2, <1>6, <1>7 DEF Text, Shown
<1>10. Clashing'
  BY <1>2 DEF Text, Clashing
<1>11. Level'
  BY <1>2, <1>3 DEF Text, Level
<1>12. Written'
  BY <1>2, <1>3, <1>6, <1>7 DEF Text, Written, Writes
(* What the server has of an entry now, it had, or it is new. *)
<1>13. \A f \in Entries : remote'.entry[f].text \in unseen' =>
         \/ remote'.entry[f].text = remote.entry[f].text /\ remote.entry[f].text \in unseen
         \/ f = e /\ remote'.entry[f].text = Last + 1
  <2>1. 0 \notin unseen'
    BY <1>4, <1>6 DEF Text, Dated
  <2> QED BY <1>5, <1>6, <1>7, <2>1
<1>14. Placing'
  <2>1. Apart(remote, remote)'
    <3> SUFFICES ASSUME NEW d \in Entries, NEW f \in Entries,
                        remote'.entry[d].text = remote'.entry[f].text,
                        remote'.entry[d].text \in unseen'
                 PROVE  d = f
      BY DEF Apart
    <3>1. Last + 1 # remote.entry[d].text /\ Last + 1 # remote.entry[f].text
      BY <1>4, <1>7
    <3> QED BY <1>13, <3>1 DEF Text, Placing, Apart
  <2>2. Apart(remote, record.base)'
    <3> SUFFICES ASSUME NEW d \in Entries, NEW f \in Entries,
                        remote'.entry[d].text = record.base.entry[f].text,
                        remote'.entry[d].text \in unseen'
                 PROVE  d = f
      BY <1>3 DEF Apart
    <3>1. Last + 1 # record.base.entry[f].text
      BY <1>4, <1>7
    <3> QED BY <1>13, <3>1 DEF Text, Placing, Apart
  <2>3. Apart(record.base, record.base)'
    BY <1>3, <1>6, <1>7 DEF Text, Placing, Apart
  <2>4. ASSUME NEW it, it.etag \in Nat, it.etag <= Last, Placed(it)
        PROVE  Placed(it)'
    <3>1. it.etag # Last + 1 /\ (it.etag \in unseen' => it.etag \in unseen)
      BY <1>4, <1>6, <2>4
    <3> QED BY <1>3, <1>13, <2>4, <3>1 DEF Placed
  <2>5. \A j \in Items : Placed(item[j])' /\ (sync # NoSync => Placed(sync.snap[j])')
    BY <1>2, <1>7, <2>4 DEF Text, Placing
  <2> QED BY <1>2, <2>1, <2>2, <2>3, <2>5 DEF Placing
<1>15. Leaving'
  <2>1. ASSUME NEW it, NEW c, it.etag \in Nat, it.etag <= Last, Left(it, c)
        PROVE  Left(it, c)'
    BY <1>3, <1>6, <2>1 DEF Left
  <2>2. \A j \in Items :
          /\ Left(item[j], conflict[j])'
          /\ receipt # NoReceipt => Left(item[j], receipt.clash[j])'
          /\ sync # NoSync => Left(item[j], sync.clash[j])' /\ Left(sync.snap[j], sync.clash[j])'
          /\ receipt # NoReceipt /\ sync # NoSync => Left(sync.snap[j], receipt.clash[j])'
    BY <1>2, <1>7, <2>1 DEF Text, Leaving
  <2> QED BY <1>2, <2>2 DEF Leaving
<1>16. Reporting'
  BY <1>2 DEF Text, Reporting
<1> QED BY <1>8, <1>9, <1>10, <1>11, <1>12, <1>14, <1>15, <1>16 DEF Text
-----------------------------------------------------------------------------
(* What an item becomes: the vault's own, the incoming one, or the vault's own *)
(* with the reference of the incoming one or of its row.                       *)
LEMMA MergingTexts ==
  ASSUME NEW i \in Items, item[i] \in Known, NEW before \in Known, NEW incoming \in Known,
         NEW acked, NEW rows
  PROVE  LET m == Merging(i, before, incoming, acked, rows)
         IN /\ m.clash => m.item = item[i] /\ (incoming = NoItem \/ incoming # before)
            /\ \/ m.item \in {item[i], incoming}
               \/ /\ m.item.text = item[i].text /\ m.item.etag = incoming.etag
                  /\ m.item.entry = incoming.entry
                  /\ i \in acked \/ (before # NoItem /\ before.entry = 0 /\ incoming.entry # 0)
               \/ /\ incoming = NoItem /\ i \in acked
                  /\ m.item.text = item[i].text /\ m.item.etag = item[i].etag
<1> DEFINE local == item[i]
           m     == Merging(i, before, incoming, acked, rows)
           ack   == i \in acked /\ local # NoItem /\ (local # before \/ FollowUp(i, rows[i]))
           links == local # NoItem /\ before.entry = 0 /\ incoming.entry # 0
<1>1. m.item = IF before = NoItem THEN IF local = NoItem THEN incoming ELSE local
               ELSE IF ack THEN Acknowledged(local, incoming, rows[i])
               ELSE IF local.bin /\ incoming = NoItem THEN incoming
               ELSE IF links THEN WithReference(local, incoming)
               ELSE IF local # NoItem /\ incoming = NoItem THEN local
               ELSE IF local = before THEN incoming ELSE local
  BY DEF Merging
<1>2. m.clash = IF before = NoItem THEN local # NoItem /\ incoming \notin {NoItem, local}
                ELSE IF ack THEN FALSE
                ELSE IF local.bin /\ incoming = NoItem THEN FALSE
                ELSE IF links THEN FALSE
                ELSE IF local # NoItem /\ incoming = NoItem THEN TRUE
                ELSE local # before /\ incoming \notin {before, local}
  BY DEF Merging
<1>3. local \in Item /\ incoming \in Item /\ NoItem.entry = 0
  BY DEF Known, NoItem
<1> HIDE DEF m, local
<1>4. \A x \in Item, y \in Item :
        /\ WithReference(x, y).text = x.text /\ WithReference(x, y).etag = y.etag
        /\ WithReference(x, y).entry = y.entry
  BY DEF WithReference, Item
<1>5. ASSUME NEW x \in Item, NEW n
      PROVE  [x EXCEPT !.entry = n].text = x.text /\ [x EXCEPT !.entry = n].etag = x.etag
  BY DEF Item
<1>6. m.clash => m.item = local /\ (incoming = NoItem \/ incoming # before)
  BY <1>1, <1>2, <1>3
<1>7. CASE before # NoItem /\ ack
  <2>1. m.item = Acknowledged(local, incoming, rows[i]) /\ i \in acked
    BY <1>1, <1>7
  <2>2. \/ incoming = NoItem /\ m.item = [local EXCEPT !.entry = rows[i].entry]
        \/ m.item = WithReference(local, incoming)
    BY <2>1 DEF Acknowledged
  <2>3. \/ /\ incoming = NoItem
           /\ m.item.text = local.text /\ m.item.etag = local.etag
        \/ /\ m.item.text = local.text /\ m.item.etag = incoming.etag
           /\ m.item.entry = incoming.entry
    <3>1. CASE incoming = NoItem /\ m.item = [local EXCEPT !.entry = rows[i].entry]
      BY <1>3, <1>5, <3>1
    <3>2. CASE m.item = WithReference(local, incoming)
      BY <1>3, <1>4, <3>2
    <3> QED BY <2>2, <3>1, <3>2
  <2> QED BY <1>6, <2>1, <2>3 DEF m, local
<1>8. CASE ~(before # NoItem /\ ack)
  <2>1. \/ m.item \in {local, incoming}
        \/ m.item = WithReference(local, incoming) /\ before # NoItem /\ links
    BY <1>1, <1>8
  <2>2. \/ m.item \in {local, incoming}
        \/ /\ m.item.text = local.text /\ m.item.etag = incoming.etag
           /\ m.item.entry = incoming.entry
           /\ before # NoItem /\ before.entry = 0 /\ incoming.entry # 0
    BY <1>3, <1>4, <2>1
  <2> QED BY <1>6, <2>2 DEF m, local
<1> QED BY <1>7, <1>8

(* An entry of the file, as the vault takes it, has its place. *)
LEMMA FinalizedPlaced ==
  ASSUME Typed, Text, NEW e \in Entries
  PROVE  Placed(Finalized(e, record.base.entry[e]))
<1> DEFINE it == Finalized(e, record.base.entry[e])
<1>1. record.base.entry[e] \in Content
  BY DEF Typed, Sound
<1>2. it.etag = record.base.entry[e].text
  BY <1>1, FinalizedTexts
<1>3. CASE it = NoItem
  <2>1. it.etag = 0
    BY <1>3 DEF NoItem
  <2>2. 0 \notin unseen
    BY TextNumbers DEF Text, Dated
  <2> HIDE DEF it
  <2>3. Placed(it)
    BY <2>1, <2>2 DEF Placed
  <2> QED BY <2>3 DEF it
<1>4. CASE it.entry = e
  <2> HIDE DEF it
  <2>1. Placed(it)
    BY <1>2, <1>4 DEF Text, Placing, Apart, Placed
  <2> QED BY <2>1 DEF it
<1> QED BY <1>1, <1>3, <1>4, CopyFacts

(* The hypotheses say how the result was made: of what was read or of the     *)
(* file, in conflict only where the item had an entry, and confirming only    *)
(* what is not in conflict.                                                   *)
LEMMA ApplyTexts ==
  ASSUME Ind, Text, sync # NoSync, record.working.entry = record.base.entry,
         NEW snap \in [Items -> Known], NEW incoming \in [Items -> Known],
         NEW clash \in [Items -> Clashes], NEW acked \in SUBSET Committed(receipt.rows),
         NEW ids, NEW deferred, NEW next,
         Apply(snap, incoming, clash, acked, ids, receipt.rows, deferred, next),
         UNCHANGED <<remote, diskVars, busy, origin, edits, remotes, faults>>,
         \A i \in Items :
           /\ Reported(incoming[i], sync.snap[i], session.file)
           /\ clash[i] = NoClash => Reported(incoming[i], snap[i], session.file),
         \A i \in Items, e \in Entries : Held(i, e) => incoming[i].entry = e,
         \A i \in Items : snap[i] # NoItem /\ snap[i].entry = 0 /\ incoming[i].entry # 0 =>
           /\ clash[i] = NoClash /\ sync.clash[i] = NoClash
           /\ receipt # NoReceipt => receipt.clash[i] = NoClash,
         \A i \in Items :
           /\ Left(item[i], clash[i]) /\ Left(sync.snap[i], clash[i])
           /\ OldClash(clash[i])
           /\ clash[i] # NoClash => clash[i].copy.etag = 0
           /\ sync.clash[i] \in {NoClash, clash[i]},
         \/ sync.at = "published" /\ next = "applied"
         \/ sync.at = "settled" /\ next = "recovered"
  PROVE  Text'
<1> DEFINE merged == [i \in Items |-> Merging(i, snap[i], incoming[i], acked, receipt.rows)]
           clashes == [i \in Items |->
             IF clash[i] # NoClash THEN clash[i]
             ELSE IF merged[i].clash THEN ClashOf(incoming[i]) ELSE NoClash]
<1>1. /\ Typed /\ item \in [Items -> Known] /\ Last' = Last /\ session # Closed
      /\ session.file \in Sound
      /\ UNCHANGED <<remote, record, receipt, edits, remotes>>
  <2>1. Typed /\ session # Closed
    BY DEF Ind, Staged
  <2> QED BY <2>1 DEF Typed, Last, diskVars
<1>2. CASE ~Consumed(acked, ids, clashes)
  <2>1. sync' = NoSync /\ UNCHANGED <<vaultVars, unseen>>
    BY <1>2 DEF Apply
  <2>2. sync'.at = "idle"
    BY <2>1 DEF NoSync
  <2> QED BY <1>1, <2>1, <2>2, QuietKeeps DEF vaultVars
<1>3. CASE Consumed(acked, ids, clashes)
  <2>1. /\ item' = [i \in Items |-> merged[i].item]
        /\ conflict' = clashes
        /\ unseen' = unseen \ ({item'[i].text : i \in Items}
             \cup {clashes[i].copy.text : i \in {j \in Items : clashes[j] # NoClash}})
        /\ sync' = [sync EXCEPT !.at = next]
        /\ UNCHANGED session
    BY <1>3 DEF Apply
  <2>2. \A i \in acked : clashes[i] = NoClash
    BY <1>3 DEF Consumed
  <2>3. \A i \in Items :
          LET m == merged[i]
          IN /\ m.clash => m.item = item[i] /\ (incoming[i] = NoItem \/ incoming[i] # snap[i])
             /\ \/ m.item \in {item[i], incoming[i]}
                \/ /\ m.item.text = item[i].text /\ m.item.etag = incoming[i].etag
                   /\ m.item.entry = incoming[i].entry
                   /\ \/ i \in acked
                      \/ snap[i] # NoItem /\ snap[i].entry = 0 /\ incoming[i].entry # 0
                \/ /\ incoming[i] = NoItem /\ i \in acked
                   /\ m.item.text = item[i].text /\ m.item.etag = item[i].etag
    <3>1. \A i \in Items : merged[i] = Merging(i, snap[i], incoming[i], acked, receipt.rows)
      OBVIOUS
    <3> HIDE DEF merged
    <3> QED BY <1>1, <3>1, MergingTexts
  <2>4. \A i \in Items :
          /\ clash[i] # NoClash => clashes[i] = clash[i]
          /\ clash[i] = NoClash /\ clashes[i] # NoClash =>
               merged[i].clash /\ clashes[i].copy = incoming[i]
    BY DEF ClashOf
  <2> HIDE DEF merged, clashes
  <2>5. \A i \in Items : item'[i] = merged[i].item /\ conflict'[i] = clashes[i]
    BY <2>1
  <2>6. \A i \in Items : /\ item'[i].text \notin unseen'
                         /\ clashes[i] # NoClash => clashes[i].copy.text \notin unseen'
    BY <2>1
  <2>7. unseen' \subseteq unseen
    BY <2>1
  <2>8. /\ sync' # NoSync /\ sync'.at = next /\ sync'.snap = sync.snap /\ sync'.clash = sync.clash
        /\ sync'.at \in Reading => sync.at \in Reading
    <3>1. CASE sync.at = "published" /\ next = "applied"
      <4>1. sync \in Round(Writing, Row) /\ next \in Writing /\ next # "idle"
        BY <1>1, <3>1, SyncKinds DEF Writing
      <4> QED BY <2>1, <3>1, <4>1, PhaseMoves DEF Reading
    <3>2. CASE sync.at = "settled" /\ next = "recovered"
      <4>1. sync \in Round(Reading, Intent) /\ next \in Reading /\ next # "idle"
        BY <1>1, <3>2, SyncKinds DEF Reading
      <4>2. sync.at \in Reading
        BY <3>2 DEF Reading
      <4> QED BY <2>1, <4>1, <4>2, PhaseMoves
    <3> QED BY <3>1, <3>2
  (* The file's copy of an item is shown, and has the text of the base. *)
  <2>9. /\ session.file.entry = record.base.entry
        /\ \A e \in Entries : session.file.entry[e] \in Content
    <3>1. session.file.entry = record.working.entry
      BY <1>1 DEF Ind, Copied
    <3> QED BY <1>1, <3>1 DEF Sound
  <2>10. ASSUME NEW i \in Items
         PROVE  \/ incoming[i] \in {sync.snap[i], NoItem}
                \/ /\ incoming[i].entry \in Entries
                   /\ incoming[i].text = record.base.entry[incoming[i].entry].text
                   /\ incoming[i].etag = incoming[i].text
                   /\ Placed(incoming[i])
    <3>1. incoming[i] \in Known /\ incoming[i].entry \in 0..MaxEntries
      BY KnownFacts
    <3>2. CASE incoming[i].entry # 0
               /\ incoming[i] = Finalized(incoming[i].entry, session.file.entry[incoming[i].entry])
      <4>1. incoming[i].entry \in Entries
        BY <3>1, <3>2 DEF Entries
      <4>2. PICK e \in Entries : e = incoming[i].entry
        BY <4>1
      <4>3. incoming[i] = Finalized(e, record.base.entry[e]) /\ record.base.entry[e] \in Content
        BY <2>9, <3>2, <4>2
      <4> QED BY <1>1, <4>2, <4>3, FinalizedTexts, FinalizedPlaced
    <3> QED BY <3>2 DEF Reported
  <2>11. 0 \notin unseen /\ NoItem.text = 0 /\ NoItem.etag = 0 /\ Last \in Nat /\ NoItem.entry = 0
    BY <1>1, TextNumbers DEF Text, Dated
  <2>12. \A i \in Items : Old(incoming[i])
    <3>1. Old(NoItem)
      BY <2>11 DEF Old
    <3> QED BY <2>10, <3>1 DEF Text, Dated, Old, OldFile
  <2>13. Dated'
    <3>1. \A i \in Items : Old(item'[i])
      BY <2>3, <2>5, <2>12 DEF Text, Dated, Old
    <3>2. \A i \in Items : OldClash(clashes[i])
      BY <2>4, <2>12 DEF OldClash
    <3>3. \A i \in Items : Old(item[i])' /\ OldClash(conflict[i])'
      BY <1>1, <2>5, <3>1, <3>2 DEF Old, OldClash
    <3>4. \A i \in Items : Old(sync.snap[i])' /\ OldClash(sync.clash[i])'
      BY <1>1, <2>8 DEF Text, Dated, Old, OldClash
    <3> QED BY <1>1, <2>1, <2>7, <2>8, <3>3, <3>4 DEF Text, Dated, Old, OldClash, OldFile
  <2>14. Shown'
    <3>1. \A i \in Items : clashes[i] # NoClash => clashes[i].copy.etag \notin unseen'
      <4> SUFFICES ASSUME NEW i \in Items, clashes[i] # NoClash
                   PROVE  clashes[i].copy.etag \notin unseen'
        OBVIOUS
      <4>1. CASE clash[i] # NoClash
        BY <2>4, <2>7, <2>11, <4>1
      <4>2. CASE clash[i] = NoClash
        <5>1. clashes[i].copy = incoming[i] /\ (incoming[i] = NoItem \/ incoming[i] # snap[i])
          BY <2>3, <2>4, <4>2
        <5>2. Reported(incoming[i], snap[i], session.file)
          BY <4>2
        <5>3. CASE incoming[i] = NoItem
          BY <2>7, <2>11, <5>1, <5>3
        <5>4. CASE incoming[i] # NoItem
          <6>1. PICK e \in Entries : incoming[i] = Finalized(e, session.file.entry[e])
            BY <5>1, <5>2, <5>4, KnownFacts DEF Reported, Entries
          <6>2. incoming[i].etag = incoming[i].text
            BY <2>9, <6>1, FinalizedTexts
          <6> QED BY <2>6, <5>1, <6>2
        <5> QED BY <5>3, <5>4
      <4> QED BY <4>1, <4>2
    <3> QED BY <2>5, <2>6, <2>7, <2>8, <3>1 DEF Text, Shown
  <2>15. Clashing'
    BY <1>1, <2>8 DEF Text, Clashing
  <2>16. Level'
    BY <1>1 DEF Text, Level
  <2>17. Written'
    BY <1>1, <2>8 DEF Written, Writes
  (* A baseline that was not shown is of an entry that the vault's own item has, *)
  (* or of the one that the result refers to.                                    *)
  <2>18. ASSUME NEW i \in Items, item[i].etag \in unseen, NEW e \in Entries,
                record.base.entry[e].text = item[i].etag
         PROVE  incoming[i].entry = e
    <3>1. item[i].entry = e /\ Its(origin, i, item[i])
      BY <2>18 DEF Text, Placing, Placed, Ind, Owned
    <3>2. origin[e] = i
      BY <3>1 DEF Its, Entries
    <3>3. Absent.text = 0
      BY DEF Absent
    <3>4. Present(record.base, e)
      BY <2>11, <2>18, <3>3 DEF Present
    <3>5. Held(i, e)
      BY <3>2, <3>4 DEF Held, Ind, Copied
    <3> QED BY <3>5
  <2>19. Placing'
    <3>1. \A i \in Items : Placed(incoming[i])
      <4>1. Placed(NoItem)
        BY <2>11 DEF Placed
      <4> QED BY <2>10, <4>1 DEF Text, Placing
    <3>2. ASSUME NEW i \in Items PROVE Placed(item'[i])
      <4>1. CASE item'[i] \in {item[i], incoming[i]}
        BY <3>1, <4>1 DEF Text, Placing
      <4>2. CASE item'[i].etag = incoming[i].etag /\ item'[i].entry = incoming[i].entry
        BY <3>1, <4>2 DEF Placed
      <4>3. CASE incoming[i] = NoItem /\ item'[i].etag = item[i].etag
        <5>1. Placed(item[i])
          BY DEF Text, Placing
        <5> QED BY <2>11, <2>18, <4>3, <5>1 DEF Placed, Entries
      <4> QED BY <2>3, <2>5, <4>1, <4>2, <4>3
    <3>3. \A i \in Items : Placed(item[i])' /\ Placed(sync.snap[i])'
      BY <1>1, <2>7, <2>8, <3>2 DEF Text, Placing, Placed
    <3> QED BY <1>1, <2>7, <2>8, <3>3 DEF Text, Placing, Apart
  (* What was confirmed or linked is in no conflict. *)
  <2>20. ASSUME NEW i \in Items,
                \/ i \in acked
                \/ snap[i] # NoItem /\ snap[i].entry = 0 /\ incoming[i].entry # 0
         PROVE  /\ clash[i] = NoClash /\ sync.clash[i] = NoClash
                /\ receipt # NoReceipt => receipt.clash[i] = NoClash
    <3>1. CASE i \in acked
      <4>1. clash[i] = NoClash
        BY <2>2, <2>4, <3>1
      <4>2. receipt # NoReceipt => receipt.clash[i] = NoClash
        BY <3>1 DEF Committed, Text, Clashing, Told
      <4> QED BY <4>1, <4>2
    <3> QED BY <2>20, <3>1
  <2>21. ASSUME NEW i \in Items, NEW c, Left(item[i], c), Left(sync.snap[i], c),
                \/ i \in acked
                \/ snap[i] # NoItem /\ snap[i].entry = 0 /\ incoming[i].entry # 0
                => c = NoClash
         PROVE  Left(item[i], c)'
    <3>1. CASE item'[i] = item[i]
      BY <1>1, <2>7, <2>21, <3>1 DEF Left
    <3>2. CASE item'[i] = incoming[i]
      BY <1>1, <2>6, <2>7, <2>10, <2>11, <2>21, <3>2 DEF Left
    <3>3. CASE c = NoClash
      BY <3>3 DEF Left
    <3> QED BY <2>3, <2>5, <2>21, <3>1, <3>2, <3>3
  <2>22. Leaving'
    <3>1. ASSUME NEW i \in Items PROVE Left(item[i], conflict[i])'
      <4>1. CASE clash[i] # NoClash
        BY <2>4, <2>5, <2>20, <2>21, <4>1
      <4>2. CASE clash[i] = NoClash /\ clashes[i] # NoClash
        <5>1. item'[i] = item[i] /\ conflict'[i] = clashes[i] /\ clashes[i].copy = incoming[i]
          BY <2>3, <2>4, <2>5, <4>2
        <5>2. ASSUME NEW e \in Entries, item[i].etag \in unseen',
                     record.base.entry[e].text = item[i].etag
              PROVE  item[i].etag = incoming[i].text
          <6>1. incoming[i].entry = e /\ item[i].etag \in unseen
            BY <2>7, <2>18, <5>2
          <6>2. Reported(incoming[i], snap[i], session.file)
            BY <4>2
          <6>3. incoming[i] # NoItem /\ incoming[i] # snap[i]
            BY <2>3, <2>4, <2>11, <4>2, <6>1 DEF Entries
          <6>4. incoming[i] = Finalized(e, session.file.entry[e])
            BY <6>1, <6>2, <6>3 DEF Reported
          <6> QED BY <2>9, <5>2, <6>4, FinalizedTexts
        <5> QED BY <1>1, <5>1, <5>2 DEF Left
      <4>3. CASE clashes[i] = NoClash
        BY <2>5, <4>3 DEF Left
      <4> QED BY <4>1, <4>2, <4>3
    <3>2. ASSUME NEW i \in Items
          PROVE  /\ receipt # NoReceipt => Left(item[i], receipt.clash[i])'
                 /\ Left(item[i], sync.clash[i])'
      <4>1. receipt # NoReceipt => Left(item[i], receipt.clash[i])'
        BY <1>1, <2>20, <2>21 DEF Text, Leaving
      <4>2. Left(item[i], sync.clash[i])'
        BY <2>8, <2>20, <2>21 DEF Text, Leaving
      <4> QED BY <4>1, <4>2
    <3>3. ASSUME NEW i \in Items
          PROVE  /\ receipt # NoReceipt => Left(sync.snap[i], receipt.clash[i])'
                 /\ Left(sync.snap[i], sync.clash[i])'
      BY <1>1, <2>7, <2>8 DEF Text, Leaving, Left
    <3> QED BY <1>1, <3>1, <3>2, <3>3 DEF Leaving
  <2>23. Reporting'
    <3>1. sync'.at \notin {"written", "stored", "published"}
      BY <2>8
    <3> QED BY <3>1 DEF Reporting
  <2> QED BY <2>13, <2>14, <2>15, <2>16, <2>17, <2>19, <2>22, <2>23 DEF Text
<1> QED BY <1>2, <1>3

LEMMA ApplyResultTexts == ASSUME Ind, Text, ApplyResult PROVE Text'
<1>1. /\ sync # NoSync /\ sync.at = "published" /\ Typed
      /\ Apply(sync.snap, sync.result, sync.clash, Confirms(QueueNow), QueueNow, receipt.rows,
               sync.deferred, "applied")
      /\ UNCHANGED <<remote, diskVars, busy, origin, edits, remotes, faults>>
  BY DEF ApplyResult, At, Ind
<1>2. /\ sync.snap \in [Items -> Known] /\ sync.result \in [Items -> Known]
      /\ sync.clash \in [Items -> Clashes]
  BY <1>1, SyncKinds
<1>3. record.working.entry = record.base.entry
  BY <1>1 DEF Text, Level
<1>4. PICK snap, result, clash, deferred :
        /\ snap = sync.snap /\ result = sync.result /\ clash = sync.clash
        /\ deferred = sync.deferred
  OBVIOUS
<1>5. PICK ids, acked : ids = QueueNow /\ acked = Confirms(QueueNow)
  OBVIOUS
<1>6. Apply(snap, result, clash, acked, ids, receipt.rows, deferred, "applied")
  BY <1>1, <1>4, <1>5
<1>7. acked \in SUBSET Committed(receipt.rows)
  BY <1>5 DEF Confirms, Committed
<1>8. \A i \in Items : Reported(result[i], sync.snap[i], session.file)
  BY <1>1, <1>4 DEF Text, Reporting
<1>9. \A i \in Items, e \in Entries : Held(i, e) => result[i].entry = e
  BY <1>1, <1>4 DEF Ind, Named, Linkage
<1>10. \A i \in Items : Raised(sync.snap[i], sync.clash[i])
         /\ (receipt # NoReceipt => Raised(sync.snap[i], receipt.clash[i]))
  BY <1>1 DEF Text, Clashing, Ind, Staged
<1>11. \A i \in Items :
         /\ Left(item[i], clash[i]) /\ Left(sync.snap[i], clash[i])
         /\ OldClash(clash[i])
         /\ clash[i] # NoClash => clash[i].copy.etag = 0
  BY <1>1, <1>4, <1>10 DEF Text, Leaving, Dated, Raised
<1>12. \A i \in Items : snap[i].entry = 0 =>
         clash[i] = NoClash /\ (receipt # NoReceipt => receipt.clash[i] = NoClash)
  BY <1>4, <1>10 DEF Raised
<1>13. /\ snap \in [Items -> Known] /\ result \in [Items -> Known] /\ clash \in [Items -> Clashes]
       /\ \A i \in Items : sync.clash[i] = clash[i] /\ sync.snap[i] = snap[i]
  BY <1>2, <1>4
<1> QED
  BY <1>1, <1>3, <1>6, <1>7, <1>8, <1>9, <1>11, <1>12, <1>13, ApplyTexts

LEMMA ApplyRecoveredTexts == ASSUME Ind, Text, ApplyRecovered PROVE Text'
<1> DEFINE before == [i \in Items |-> IF i \in DOMAIN receipt.rows THEN receipt.snap[i]
                                      ELSE sync.snap[i]]
           deferred == DOMAIN sync.rows \ Committed(receipt.rows)
<1>1. /\ sync # NoSync /\ sync.at = "settled" /\ Typed
      /\ Apply(before, RecoveredItems, receipt.clash, Confirms(sync.rows), sync.rows,
               receipt.rows, deferred, "recovered")
      /\ UNCHANGED <<remote, diskVars, busy, origin, edits, remotes, faults>>
  BY DEF ApplyRecovered, RecoveredFrom, At, Ind
<1>2. /\ receipt # NoReceipt /\ receipt \in Receipt /\ sync.snap \in [Items -> Known]
      /\ session.file \in Sound
  BY <1>1, RecoveredFacts DEF Ind, Staged
<1>3. /\ receipt.snap \in [Items -> Known] /\ receipt.clash \in [Items -> Clashes]
      /\ record.working.entry = record.base.entry
      /\ \A i \in Items : sync.clash[i] = NoClash
  BY <1>1, <1>2 DEF Receipt, Text, Level, Clashing, Reading
<1>4. before \in [Items -> Known]
  BY <1>2, <1>3
<1>5. PICK incoming : incoming = RecoveredItems
  OBVIOUS
<1>6. /\ incoming \in [Items -> Known]
      /\ \A i \in Items, e \in Entries : Held(i, e) => incoming[i].entry = e
  BY <1>1, <1>5, RecoveredFacts
<1>7. PICK links \in [Items -> Known] : \A i \in Items :
        /\ i \notin Committed(receipt.rows) => links[i] = sync.snap[i]
        /\ incoming[i] = IF i \in deferred THEN sync.snap[i]
                         ELSE Projected(i, links, origin, session.file)
  BY <1>1, <1>5, RecoveredFacts
<1>8. PICK owner : owner = origin
  OBVIOUS
<1>9. ASSUME NEW i \in Items
      PROVE  /\ Reported(incoming[i], sync.snap[i], session.file)
             /\ i \in deferred \/ Reported(incoming[i], NoItem, session.file)
  <2>1. CASE i \in deferred
    BY <1>7, <2>1 DEF Reported
  <2>2. CASE i \notin deferred
    <3>1. incoming[i] = Projected(i, links, owner, session.file)
      BY <1>7, <1>8, <2>2
    <3>2. \/ incoming[i] = NoItem
          \/ /\ incoming[i].entry \in Entries
             /\ incoming[i] = Finalized(incoming[i].entry, session.file.entry[incoming[i].entry])
      BY <1>2, <3>1, ProjectedText
    <3> QED BY <3>2 DEF Reported, Entries
  <2> QED BY <2>1, <2>2
<1>10. ASSUME NEW i \in Items, receipt.clash[i] = NoClash
       PROVE  Reported(incoming[i], before[i], session.file)
  <2>1. CASE i \in deferred
    <3>1. i \notin DOMAIN receipt.rows
      BY <1>2, <1>10, <2>1 DEF Committed, Text, Clashing, Told
    <3> QED BY <1>7, <2>1, <3>1 DEF Reported
  <2>2. CASE i \notin deferred
    BY <1>9, <2>2 DEF Reported
  <2> QED BY <2>1, <2>2
<1>11. ASSUME NEW i \in Items, before[i] # NoItem, before[i].entry = 0, incoming[i].entry # 0
       PROVE  receipt.clash[i] = NoClash
  <2>1. CASE i \in DOMAIN receipt.rows
    <3>1. Raised(receipt.snap[i], receipt.clash[i])
      BY <1>2 DEF Text, Clashing
    <3> QED BY <1>11, <2>1, <3>1 DEF Raised
  <2>2. CASE i \notin DOMAIN receipt.rows
    <3>1. sync.snap[i] # NoItem /\ sync.snap[i].entry = 0 /\ links[i] = sync.snap[i]
      BY <1>7, <1>11, <2>2 DEF Committed
    <3>2. incoming[i] = Projected(i, links, origin, session.file)
      BY <1>7, <1>11, <3>1
    <3>3. EntryFor(i, links, origin, session.file) = 0
      BY <3>1 DEF EntryFor
    <3>4. incoming[i] = NoItem
      BY <3>2, <3>3 DEF Projected
    <3> QED BY <1>11, <3>4 DEF NoItem
  <2> QED BY <2>1, <2>2
<1>12. \A i \in Items :
         /\ Left(item[i], receipt.clash[i]) /\ Left(sync.snap[i], receipt.clash[i])
         /\ OldClash(receipt.clash[i])
         /\ receipt.clash[i] # NoClash => receipt.clash[i].copy.etag = 0
  BY <1>1, <1>2 DEF Text, Leaving, Dated, Clashing, Raised
<1>13. Confirms(sync.rows) \in SUBSET Committed(receipt.rows)
  BY DEF Confirms, Committed
<1> HIDE DEF before, deferred
<1>14. PICK b, clash, d : b = before /\ clash = receipt.clash /\ d = deferred
  OBVIOUS
<1>15. PICK is, acked : is = sync.rows /\ acked = Confirms(sync.rows)
  OBVIOUS
<1>16. Apply(b, incoming, clash, acked, is, receipt.rows, d, "recovered")
  BY <1>1, <1>5, <1>14, <1>15
<1>17. b \in [Items -> Known] /\ clash \in [Items -> Clashes] /\ acked \in SUBSET Committed(receipt.rows)
  BY <1>3, <1>4, <1>13, <1>14, <1>15
<1>18. /\ \A i \in Items : /\ Reported(incoming[i], sync.snap[i], session.file)
                           /\ clash[i] = NoClash => Reported(incoming[i], b[i], session.file)
       /\ \A i \in Items : b[i] # NoItem /\ b[i].entry = 0 /\ incoming[i].entry # 0 =>
            /\ clash[i] = NoClash /\ sync.clash[i] = NoClash
            /\ receipt # NoReceipt => receipt.clash[i] = NoClash
       /\ \A i \in Items : /\ Left(item[i], clash[i]) /\ Left(sync.snap[i], clash[i])
                           /\ OldClash(clash[i])
                           /\ clash[i] # NoClash => clash[i].copy.etag = 0
                           /\ sync.clash[i] \in {NoClash, clash[i]}
  BY <1>3, <1>9, <1>10, <1>11, <1>12, <1>14
<1> QED BY <1>1, <1>3, <1>6, <1>16, <1>17, <1>18, ApplyTexts
-----------------------------------------------------------------------------
LEMMA InitText == ASSUME Init PROVE Text
<1>1. Ind
  BY InitInd
<1>2. /\ unseen = {} /\ sync = NoSync /\ receipt = NoReceipt /\ edits = 0 /\ remotes = 0
      /\ record.current /\ remote = record.base /\ record.working = record.base
      /\ \A i \in Items : conflict[i] = NoClash
      /\ sync.at = "idle"
  BY DEF Init, NoSync
<1>3. Last = Cardinality(Items) /\ Last \in Nat
  BY <1>2, SizeType DEF Last
<1>4. \A i \in Items : Old(item[i])
  <2> SUFFICES ASSUME NEW i \in Items PROVE Old(item[i])
    OBVIOUS
  <2>1. item[i] = IF i \in Linked THEN [NoItem EXCEPT !.text = FirstEntry[i], !.entry = FirstEntry[i],
                                                      !.etag = FirstEntry[i]]
                  ELSE NoItem
    BY DEF Init
  <2>2. CASE i \in Linked
    <3>1. item[i].text = FirstEntry[i] /\ item[i].etag = FirstEntry[i]
      BY <2>1, <2>2 DEF NoItem
    <3> QED BY <1>3, <2>2, <3>1, FirstEntries DEF Old
  <2>3. CASE i \notin Linked
    BY <1>3, <2>1, <2>3 DEF Old, NoItem
  <2> QED BY <2>2, <2>3
<1>5. OldFile(remote)
  <2> SUFFICES ASSUME NEW e \in Entries PROVE remote.entry[e].text <= Last
    BY DEF OldFile
  <2>1. remote.entry[e] = IF e \in {FirstEntry[i] : i \in Linked} THEN [text |-> e, bin |-> FALSE]
                          ELSE Absent
    BY DEF Init
  <2>2. \A i \in Linked : FirstEntry[i] <= Last
    BY <1>3, FirstEntries
  <2> QED BY <1>3, <2>1, <2>2 DEF Absent
<1>6. Dated
  BY <1>2, <1>4, <1>5 DEF Dated, OldClash
<1>7. Shown /\ Clashing /\ Level
  BY <1>2 DEF Shown, Clashing, Level
<1>8. Written /\ Placing /\ Leaving /\ Reporting
  BY <1>2 DEF Written, Writes, Placing, Placed, Apart, Leaving, Left, Reporting
<1> QED BY <1>6, <1>7, <1>8 DEF Text

LEMMA NextText == ASSUME Ind, Text, [Next]_vars PROVE Text'
<1>1. CASE UserEdits \/ UserDecides \/ OthersEdit
  BY <1>1, UserEditsTexts, UserDecidesTexts, OthersEditTexts
<1>2. CASE Start \/ RecoverRead \/ CheckFirst \/ DeleteReceipt
  BY <1>2, QuietStepTexts
<1>3. CASE ReadAndWrite \/ ProjectChecked
  BY <1>3, WriteStepsTexts
<1>4. CASE SaveBatch \/ Publish
  BY <1>4, SaveBatchTexts, PublishTexts
<1>5. CASE ApplyResult \/ ApplyRecovered
  BY <1>5, ApplyResultTexts, ApplyRecoveredTexts
<1>6. CASE \E o \in Ops : BeginMutation(o) \/ SaveMutation(o)
  BY <1>6, QuietStepTexts
<1>7. CASE SaveFails \/ SyncFails \/ WorkerStops \/ Rejected
  BY <1>7, QuietStepTexts
<1>8. CASE AnswerLost
  BY <1>8, AnswerLostTexts
<1>9. CASE UNCHANGED vars
  <2>1. UNCHANGED <<item, conflict, remote, record, receipt, session, sync, unseen, edits, remotes>>
    BY <1>9 DEF vars, vaultVars, diskVars, userVars
  <2>2. Dated'
    BY <2>1 DEF Text, Dated, Old, OldClash, OldFile, Last
  <2>3. Shown' /\ Clashing' /\ Level' /\ Reporting'
    BY <2>1 DEF Text, Shown, Clashing, Level, Reporting
  <2>4. Written' /\ Placing' /\ Leaving'
    BY <2>1 DEF Text, Written, Writes, Placing, Placed, Apart, Leaving, Left
  <2> QED BY <2>2, <2>3, <2>4 DEF Text
<1> QED BY <1>1, <1>2, <1>3, <1>4, <1>5, <1>6, <1>7, <1>8, <1>9 DEF Next

(* What a step writes on the server over a text that the vault has not shown *)
(* is the baseline of an item, if the step is not one of another device.     *)
LEMMA NoBlindStep ==
  ASSUME Ind, Text, [Next]_vars, ~OthersEdit, NEW t \in Overwritten \cap unseen
  PROVE  \E i \in Items : item[i].etag = t
<1>1. PICK e \in Entries : /\ t = remote.entry[e].text
                           /\ remote'.entry[e].text # remote.entry[e].text
  BY DEF Overwritten
<1>2. PublishWritten \/ AnswerLost
  <2>1. CASE UNCHANGED vars
    BY <1>1, <2>1 DEF vars
  <2>2. CASE Next
    BY <1>1, <2>2 DEF Next, UserEdits, UserDecides, Start, RecoverRead, ReadAndWrite, CheckFirst,
       ProjectChecked, SaveBatch, Publish, PublishUnchanged, PublishRefreshed, ApplyResult,
       ApplyRecovered, DeleteReceipt, BeginMutation, SaveMutation, SaveFails, SyncFails,
       WorkerStops, Rejected
  <2> QED BY <2>1, <2>2
<1>3. remote' = ToWrite /\ CanWrite
  BY <1>2 DEF PublishWritten, AnswerLost
<1>4. /\ record.working.entry[e].text # record.base.entry[e].text
      /\ record.base.entry[e].text = remote.entry[e].text
  BY <1>1, <1>3, ToWriteTexts DEF Ind, Text
<1> QED BY <1>1, <1>4 DEF Text, Written, Writes

(* A publication, whose answer may be lost, never replaces a text of another *)
(* device that the vault does not know, for any number of items, edits,      *)
(* writes of other devices and faults: the ETag or the rebase admits it only *)
(* where the base has the text that the server has (publishWorkingCopy).     *)
THEOREM NoBlindOverwrite == Spec => NoUnknownOverwrite
<1>1. Init => Ind /\ Text
  BY InitInd, InitText
<1>2. Ind /\ Text /\ [Next]_vars => (Ind /\ Text)'
  BY NextInd, NextText
<1>3. Ind /\ Text /\ [Next]_vars =>
        [~OthersEdit => \A t \in Overwritten \cap unseen : \E i \in Items : item[i].etag = t]_vars
  BY NoBlindStep
<1> QED BY <1>1, <1>2, <1>3, PTL DEF Spec, NoUnknownOverwrite

-----------------------------------------------------------------------------
(* What was edited later than what. No stamp that is remembered is later than *)
(* the last edit. While a batch is recovered, an item that is queued or in     *)
(* conflict has the content that was read, or was edited after the batch.      *)
Recent(it)      == it.stamp <= edits
RecentClash(c)  == c # NoClash => Recent(c.copy)
Stamped ==
  /\ \A i \in Items : Recent(item[i]) /\ RecentClash(conflict[i])
  /\ sync # NoSync => \A i \in Items : Recent(sync.snap[i]) /\ RecentClash(sync.clash[i])
  /\ receipt # NoReceipt => \A i \in Items : Recent(receipt.snap[i]) /\ RecentClash(receipt.clash[i])

Same(it, was)        == it.text = was.text /\ it.bin = was.bin
Since(it, was, old)  == Same(it, was) \/ old.stamp < it.stamp
Followed ==
  sync.at \in {"settle", "settled"} => \A i \in Items :
    queue[i] # 0 \/ conflict[i] # NoClash => Since(item[i], sync.snap[i], receipt.snap[i])

Stamps == Stamped /\ Followed

LEMMA StampNumbers ==
  ASSUME Typed
  PROVE  /\ edits \in Nat /\ Recent(NoItem) /\ NoItem.stamp = 0
         /\ \A it \in Known : it.stamp \in Nat
BY BoundsAssumption DEF Typed, Known, Item, NoItem, Recent

(* What is read from a file has no stamp of an edit. *)
LEMMA FileStamps ==
  ASSUME NEW e \in Entries, NEW there \in Content
  PROVE  Copy(e, there).stamp = 0 /\ Finalized(e, there).stamp = 0
<1>1. CASE there = Absent
  <2>1. Copy(e, there) = NoItem /\ Finalized(e, there) = NoItem
    BY <1>1, CopyFacts
  <2> QED BY <2>1 DEF NoItem
<1>2. CASE there # Absent
  <2>1. Copy(e, there) = [text |-> there.text, bin |-> there.bin, place |-> there.bin,
          stamp |-> 0, entry |-> e, etag |-> 0, from |-> FALSE, foreign |-> FALSE]
    BY <1>2 DEF Copy, NoItem
  <2>2. Copy(e, there) \in Item
    BY CopyFacts DEF Known
  <2>3. \A c \in Item : [c EXCEPT !.etag = there.text, !.from = there.bin].stamp = c.stamp
    BY DEF Item
  <2>4. Finalized(e, there).stamp = Copy(e, there).stamp
    BY <2>2, <2>3 DEF Finalized
  <2> QED BY <2>1, <2>4
<1> QED BY <1>1, <1>2

LEMMA ReportedRecent ==
  ASSUME Typed, NEW it \in Known, NEW was, Recent(was), NEW file \in Sound, Reported(it, was, file)
  PROVE  Recent(it)
<1>1. CASE it \in {was, NoItem}
  BY <1>1, StampNumbers
<1>2. CASE it.entry # 0 /\ it = Finalized(it.entry, file.entry[it.entry])
  <2>1. it.entry \in Entries
    BY <1>2, KnownFacts DEF Entries
  <2>2. PICK e \in Entries : e = it.entry
    BY <2>1
  <2>3. file.entry[e] \in Content /\ it = Finalized(e, file.entry[e])
    BY <1>2, <2>2 DEF Sound
  <2>4. it.stamp = 0
    BY <2>3, FileStamps
  <2> QED BY <2>4, StampNumbers DEF Recent
<1> QED BY <1>1, <1>2 DEF Reported

(* A step that leaves the vault alone, and what is remembered or less of it. *)
LEMMA QuietStamps ==
  ASSUME Stamps, UNCHANGED <<item, queue, conflict, edits>>,
         receipt' \in {receipt, NoReceipt},
         \/ sync' = NoSync
         \/ \A i \in Items : sync'.snap[i] = item[i] /\ sync'.clash[i] = NoClash
         \/ /\ sync # NoSync /\ sync'.snap = sync.snap
            /\ \A i \in Items : sync'.clash[i] \in {NoClash, sync.clash[i]}
            /\ sync'.at \in {"settle", "settled"}
                 => sync.at \in {"settle", "settled"} /\ receipt' = receipt
  PROVE  Stamps'
<1>1. ASSUME sync' # NoSync, NEW i \in Items
      PROVE  Recent(sync.snap[i])' /\ RecentClash(sync.clash[i])'
  BY <1>1 DEF Stamps, Stamped, Recent, RecentClash
<1>2. Stamped'
  BY <1>1 DEF Stamps, Stamped, Recent, RecentClash
<1>3. Followed'
  <2>1. CASE sync' = NoSync
    BY <2>1 DEF NoSync, Followed
  <2>2. CASE \A i \in Items : sync'.snap[i] = item[i]
    BY <2>2 DEF Followed, Since, Same
  <2>3. CASE /\ sync'.snap = sync.snap
             /\ sync'.at \in {"settle", "settled"}
                  => sync.at \in {"settle", "settled"} /\ receipt' = receipt
    BY <2>3 DEF Stamps, Followed, Since, Same
  <2> QED BY <2>1, <2>2, <2>3
<1> QED BY <1>2, <1>3 DEF Stamps

LEMMA QuietStepStamps ==
  ASSUME Ind, Text, Stamps
  PROVE  /\ \A o \in Ops : BeginMutation(o) \/ SaveMutation(o) => Stamps'
         /\ OthersEdit \/ Start \/ RecoverRead \/ CheckFirst \/ DeleteReceipt => Stamps'
         /\ Publish \/ AnswerLost => Stamps'
         /\ SaveFails \/ SyncFails \/ WorkerStops \/ Rejected => Stamps'
<1>1. Typed /\ (sync = NoSync => sync.at = "idle") /\ NoSync.at = "idle"
  BY DEF Ind, NoSync
<1>2. ASSUME UNCHANGED <<item, queue, conflict, edits, receipt, sync>> PROVE Stamps'
  BY <1>2 DEF Stamps, Stamped, Followed, Since, Same, Recent, RecentClash
<1>3. ASSUME NEW o \in Ops, BeginMutation(o) \/ SaveMutation(o) PROVE Stamps'
  <2>1. UNCHANGED <<item, queue, conflict, edits, receipt, sync>>
    BY <1>3 DEF BeginMutation, SaveMutation, vaultVars, diskVars, userVars
  <2> QED BY <1>2, <2>1
<1>4. CASE OthersEdit \/ SaveFails
  <2>1. UNCHANGED <<item, queue, conflict, edits, receipt, sync>>
    BY <1>4 DEF OthersEdit, SaveFails, vaultVars, diskVars, userVars
  <2> QED BY <1>2, <2>1
<1>5. CASE Start
  <2> DEFINE at == IF HasReceipt THEN "recover" ELSE "read"
  <2>1. /\ sync' = Begin(at) /\ at \in Reading
        /\ UNCHANGED <<item, queue, conflict, edits, receipt>>
    BY <1>5 DEF Start, vaultVars, diskVars, userVars, Reading
  <2> HIDE DEF at
  <2>2. \A i \in Items : sync'.snap[i] = item[i] /\ sync'.clash[i] = NoClash
    BY <1>1, <2>1, BeginFacts
  <2> QED BY <2>1, <2>2, QuietStamps
<1>6. CASE RecoverRead
  <2>1. sync # NoSync /\ sync.at = "recover" /\ UNCHANGED <<item, queue, conflict, edits, receipt>>
    BY <1>6 DEF RecoverRead, At, vaultVars, diskVars, userVars
  <2>2. sync \in Round(Reading, Intent)
    BY <1>1, <2>1, SyncKinds DEF Reading
  <2>3. sync'.snap = item /\ sync'.clash = sync.clash
    BY <1>6, <2>2 DEF RecoverRead, Round
  <2>4. \A i \in Items : sync.clash[i] = NoClash
    BY <2>1 DEF Text, Clashing, Reading
  <2> QED BY <2>1, <2>3, <2>4, QuietStamps
<1>7. CASE CheckFirst
  <2>1. /\ sync' = [Begin("probe") EXCEPT !.snap = item]
        /\ UNCHANGED <<item, queue, conflict, edits, receipt>>
    BY <1>7 DEF CheckFirst, vaultVars, diskVars, userVars
  <2>2. /\ Begin("probe") \in Round(Reading, Intent)
        /\ \A i \in Items : Begin("probe").clash[i] = NoClash
    BY <1>1, BeginFacts DEF Reading
  <2>3. sync'.snap = item /\ \A i \in Items : sync'.clash[i] = NoClash
    BY <2>1, <2>2 DEF Round
  <2> QED BY <2>1, <2>3, QuietStamps
<1>8. CASE DeleteReceipt
  <2>1. /\ receipt' = NoReceipt /\ sync' \in {Begin("read"), NoSync}
        /\ UNCHANGED <<item, queue, conflict, edits>>
    BY <1>8 DEF DeleteReceipt, vaultVars, userVars
  <2>2. sync' = NoSync \/ \A i \in Items : sync'.snap[i] = item[i] /\ sync'.clash[i] = NoClash
    BY <1>1, <2>1, BeginFacts DEF Reading
  <2> QED BY <2>1, <2>2, QuietStamps
<1>9. CASE Publish
  <2>1. /\ Publishing /\ sync # NoSync /\ Owned
        /\ UNCHANGED <<item, queue, conflict, edits, receipt>>
    BY <1>9 DEF Publish, PublishUnchanged, PublishRefreshed, PublishWritten, Publishing, At, Ind,
                vaultVars, userVars
  <2>2. \/ sync' = [sync EXCEPT !.at = PhaseAfter(@)]
        \/ \E file \in Sound : sync' = Reread(file) /\ sync.at = "stored"
    <3>1. remote \in Sound
      BY <1>1 DEF Typed
    <3>2. PublishWritten => ToWrite \in Sound
      BY <1>1, ToWriteFacts DEF PublishWritten, Ind
    <3> QED BY <1>9, <3>1, <3>2 DEF Publish, PublishUnchanged, PublishRefreshed, PublishWritten, Reread, At
  <2>3. /\ sync'.snap = sync.snap
        /\ \A i \in Items : sync'.clash[i] \in {NoClash, sync.clash[i]}
        /\ sync'.at \in {"settle", "settled"} => sync.at \in {"settle", "settled"}
    <3>1. CASE sync' = [sync EXCEPT !.at = PhaseAfter(@)]
      BY <1>1, <2>1, <3>1, AdvanceFacts
    <3>2. ASSUME NEW file \in Sound, sync' = Reread(file), sync.at = "stored"
          PROVE  /\ sync'.snap = sync.snap /\ \A i \in Items : sync'.clash[i] = NoClash
                 /\ sync'.at = "published"
      BY <1>1, <2>1, <3>2, RereadFacts
    <3> QED BY <2>2, <3>1, <3>2
  <2> QED BY <2>1, <2>3, QuietStamps
<1>10. CASE AnswerLost \/ SyncFails \/ WorkerStops \/ Rejected
  <2>1. sync' = NoSync /\ UNCHANGED <<item, queue, conflict, edits, receipt>>
    BY <1>10 DEF AnswerLost, SyncFails, WorkerStops, Rejected, Forget, vaultVars, diskVars, userVars
  <2> QED BY <2>1, QuietStamps
<1> QED BY <1>3, <1>4, <1>5, <1>6, <1>7, <1>8, <1>9, <1>10

LEMMA SaveBatchStamps == ASSUME Ind, Stamps, SaveBatch PROVE Stamps'
<1>1. /\ sync # NoSync /\ sync.at = "written" /\ Typed
      /\ UNCHANGED <<item, queue, conflict, edits>>
  BY DEF SaveBatch, At, Ind, vaultVars, userVars
<1>2. sync \in Round(Writing, Row) /\ "stored" \in Writing
  BY <1>1, SyncKinds DEF Writing
<1>3. sync'.at = "stored" /\ sync'.snap = sync.snap /\ sync'.clash = sync.clash
  BY <1>2, PhaseMoves DEF SaveBatch
<1>4. receipt' = receipt \/ (receipt'.snap = sync.snap /\ receipt'.clash = sync.clash)
  BY DEF SaveBatch, ReceiptOf
<1>5. Stamped'
  BY <1>1, <1>3, <1>4 DEF Stamps, Stamped, Recent, RecentClash
<1>6. Followed'
  BY <1>3 DEF Followed
<1> QED BY <1>5, <1>6 DEF Stamps

LEMMA WriteStamps ==
  ASSUME Typed, Stamps, session # Closed,
         NEW snap \in [Items -> Known], NEW given \in SUBSET Items, NEW deferred \in SUBSET Items,
         NEW next \in {"written", "published"}, Write(snap, given, deferred, next),
         \A i \in Items : Recent(snap[i]),
         UNCHANGED <<item, conflict, receipt, edits>>
  PROVE  Stamps'
<1> DEFINE file   == session.file
           wanted == ToCreate(snap, given)
           made   == EntriesMade(wanted)
           owner  == OwnersAfter(wanted, made)
           out    == Outcome(snap, given, made, owner, file)
           rows   == RowsOf(given, snap, out)
<1>1. /\ Cardinality(wanted) <= Cardinality(FreeEntries)
      /\ sync' = [at |-> next, snap |-> snap, rows |-> rows, result |-> out.result,
                  clash |-> out.clash, deferred |-> deferred]
  BY DEF Write
<1>2. /\ file \in Sound /\ wanted \in SUBSET Items
      /\ origin \in [Entries -> Items \cup {NoOp}]
  BY DEF Typed, ToCreate
<1>3. \A i \in Items : Verdict(i, snap, given, file) = "create" => i \in wanted
  <2>1. \A i \in Items : Verdict(i, snap, given, file) = "create" => i \in given
    BY <1>2, VerdictFacts
  <2> QED BY <2>1 DEF ToCreate
<1>4. /\ made \in [Items -> 0..MaxEntries] /\ \A i \in wanted : made[i] \in FreeEntries
  <2> HIDE DEF wanted
  <2> QED BY <1>1, <1>2, MadeFacts
<1> HIDE DEF file, wanted, made, owner
<1>5. out.file \in Sound
  BY <1>2, OutcomeFile
<1>6. \A i \in Items : out.clash[i] # NoClash =>
        /\ snap[i].entry \in Entries
        /\ out.clash[i].copy = Copy(snap[i].entry, file.entry[snap[i].entry])
  BY <1>2, <1>4, <1>5, OutcomeReports
<1> HIDE DEF out, rows
<1>7. sync'.at = next /\ sync'.snap = snap /\ sync'.clash = out.clash
  BY <1>1
<1>8. ASSUME NEW i \in Items PROVE RecentClash(out.clash[i])
  <2> SUFFICES ASSUME out.clash[i] # NoClash PROVE Recent(out.clash[i].copy)
    BY DEF RecentClash
  <2>1. PICK e \in Entries : e = snap[i].entry /\ out.clash[i].copy = Copy(e, file.entry[e])
    BY <1>6
  <2>2. file.entry[e] \in Content
    BY <1>2 DEF Sound
  <2> QED BY <2>1, <2>2, FileStamps, StampNumbers DEF Recent
<1>9. Stamped'
  BY <1>7, <1>8 DEF Stamps, Stamped, Recent, RecentClash
<1>10. Followed'
  BY <1>7 DEF Followed
<1> QED BY <1>9, <1>10 DEF Stamps

LEMMA WriteStepsStamps == ASSUME Ind, Stamps, ReadAndWrite \/ ProjectChecked PROVE Stamps'
<1>1. /\ Typed /\ item \in [Items -> Known] /\ session # Closed /\ sync # NoSync
      /\ UNCHANGED <<item, conflict, receipt, edits>>
  BY DEF Ind, Typed, Staged, ReadAndWrite, ProjectChecked, At, vaultVars, diskVars, userVars
<1>2. \A i \in Items : Recent(item[i]) /\ Recent(sync.snap[i])
  BY <1>1 DEF Stamps, Stamped
<1>3. CASE ReadAndWrite
  <2>1. PICK given, deferred :
          /\ given = BatchOf(queue) /\ deferred = {i \in Items \ BatchOf(queue) : queue[i] # 0}
    OBVIOUS
  <2>2. /\ given \in SUBSET Items /\ deferred \in SUBSET Items
        /\ Write(item, given, deferred, "written")
    BY <1>3, <2>1 DEF ReadAndWrite, BatchOf
  <2>3. PICK snap : snap = item
    OBVIOUS
  <2>4. snap \in [Items -> Known] /\ Write(snap, given, deferred, "written")
        /\ \A i \in Items : Recent(snap[i])
    BY <1>1, <1>2, <2>2, <2>3
  <2> QED BY <1>1, <2>2, <2>4, WriteStamps
<1>4. CASE ProjectChecked
  <2>1. PICK snap : snap = sync.snap
    OBVIOUS
  <2>2. snap \in [Items -> Known] /\ Write(snap, {}, {}, "published")
    BY <1>1, <1>4, <2>1, SyncKinds DEF ProjectChecked
  <2> QED BY <1>1, <1>2, <2>1, <2>2, WriteStamps
<1> QED BY <1>3, <1>4

(* A change of one item by the user: it gets a new stamp, keeps its content,  *)
(* or is neither queued nor in conflict any more.                             *)
LEMMA VaultChangeStamps ==
  ASSUME Ind, Stamps, edits' = edits + 1, UNCHANGED <<receipt, sync>>,
         NEW i \in Items, NEW it \in Known, item' = [item EXCEPT ![i] = it],
         it.stamp <= edits',
         \A j \in Items \ {i} : queue'[j] = queue[j] /\ conflict'[j] = conflict[j],
         conflict'[i] \in {NoClash, conflict[i]},
         \/ it.stamp = edits'
         \/ Same(it, item[i]) /\ it.stamp = item[i].stamp /\ conflict[i] # NoClash
         \/ queue'[i] = 0 /\ conflict'[i] = NoClash
  PROVE  Stamps'
<1>1. Typed /\ Staged /\ edits \in Nat /\ (receipt # NoReceipt => receipt \in Receipt)
      /\ item \in [Items -> Known]
  BY StampNumbers DEF Ind, Typed
<1>2. /\ item'[i] = it /\ \A j \in Items \ {i} : item'[j] = item[j]
  BY <1>1
<1>3. ASSUME NEW x \in Known, Recent(x) PROVE Recent(x)'
  BY <1>1, <1>3, StampNumbers DEF Recent
<1>4. ASSUME NEW c \in Clashes, RecentClash(c) PROVE RecentClash(c)'
  BY <1>3, <1>4 DEF RecentClash, Clashes
<1>5. Stamped'
  <2>1. ASSUME NEW j \in Items PROVE Recent(item[j])' /\ RecentClash(conflict[j])'
    <3>1. /\ item[j] \in Known /\ conflict[j] \in Clashes /\ Recent(item[j]) /\ RecentClash(conflict[j])
      BY <1>1 DEF Typed, Stamps, Stamped
    <3>2. Recent(item[j])'
      <4>1. CASE j = i
        BY <1>2, <4>1 DEF Recent
      <4>2. CASE j # i
        BY <1>2, <1>3, <3>1, <4>2 DEF Recent
      <4> QED BY <4>1, <4>2
    <3>3. conflict'[j] \in {NoClash, conflict[j]}
      OBVIOUS
    <3> QED BY <1>4, <3>1, <3>2, <3>3 DEF RecentClash, Recent
  <2>2. ASSUME sync # NoSync, NEW j \in Items
        PROVE  Recent(sync.snap[j])' /\ RecentClash(sync.clash[j])'
    <3>1. /\ sync.snap[j] \in Known /\ sync.clash[j] \in Clashes
          /\ Recent(sync.snap[j]) /\ RecentClash(sync.clash[j])
      BY <1>1, <2>2, SyncKinds DEF Stamps, Stamped
    <3> QED BY <1>3, <1>4, <3>1 DEF Recent, RecentClash
  <2>3. ASSUME receipt # NoReceipt, NEW j \in Items
        PROVE  Recent(receipt.snap[j])' /\ RecentClash(receipt.clash[j])'
    <3>1. /\ receipt.snap[j] \in Known /\ receipt.clash[j] \in Clashes
          /\ Recent(receipt.snap[j]) /\ RecentClash(receipt.clash[j])
      BY <1>1, <2>3 DEF Receipt, Stamps, Stamped
    <3> QED BY <1>3, <1>4, <3>1 DEF Recent, RecentClash
  <2> QED BY <2>1, <2>2, <2>3 DEF Stamped
<1>6. Followed'
  <2> SUFFICES ASSUME sync.at \in {"settle", "settled"}, NEW j \in Items,
                      queue'[j] # 0 \/ conflict'[j] # NoClash
               PROVE  Since(item'[j], sync.snap[j], receipt.snap[j])
    BY DEF Followed, Since, Same
  <2>1. CASE j # i
    BY <1>2, <2>1 DEF Stamps, Followed
  <2>2. CASE j = i /\ it.stamp = edits'
    <3>1. receipt # NoReceipt
      BY <1>1 DEF Staged
    <3>2. receipt.snap[i].stamp \in Nat /\ receipt.snap[i].stamp <= edits
      BY <1>1, <3>1, StampNumbers DEF Stamps, Stamped, Recent, Receipt
    <3> QED BY <1>1, <1>2, <2>2, <3>2 DEF Since
  <2>3. CASE j = i /\ Same(it, item[i]) /\ it.stamp = item[i].stamp /\ conflict[i] # NoClash
    BY <1>2, <2>3 DEF Stamps, Followed, Since, Same
  <2> QED BY <2>1, <2>2, <2>3
<1> QED BY <1>5, <1>6 DEF Stamps

LEMMA UserEditsStamps == ASSUME Ind, Stamps, UserEdits PROVE Stamps'
<1>1. PICK i \in Items : Created(i) \/ Edited(i) \/ Deleted(i) \/ Restored(i)
  BY DEF UserEdits
<1>2. /\ edits < MaxEdits /\ edits' = edits + 1 /\ edits' \in 0..MaxEdits /\ Typed
      /\ edits' <= edits' /\ UNCHANGED <<conflict, receipt, sync>>
  <2>1. Typed /\ edits < MaxEdits /\ edits' = edits + 1
    BY DEF UserEdits, Ind
  <2>2. edits' \in 0..MaxEdits /\ edits' <= edits'
    BY <2>1, BoundsAssumption DEF Typed
  <2> QED BY <2>1, <2>2 DEF UserEdits, diskVars
<1>3. FreshText \in Texts \ {0} /\ item[i] \in Known /\ item \in [Items -> Known]
      /\ queue \in [Items -> Nat]
  BY <1>2, FreshTextType DEF Typed
<1>4. \A j \in Items \ {i} : queue'[j] = queue[j]
  <2>1. queue' \in {Queued(i), [queue EXCEPT ![i] = 0]}
    BY <1>1 DEF Created, Edited, Deleted, Restored
  <2> QED BY <1>3, <2>1 DEF Queued
<1>5. ASSUME NEW it \in Known, item' = [item EXCEPT ![i] = it], it.stamp = edits'
      PROVE  Stamps'
  BY <1>2, <1>4, <1>5, VaultChangeStamps
<1>6. \A x \in Item, n \in 0..MaxEdits :
        /\ \A t \in Texts : [x EXCEPT !.text = t, !.stamp = n].stamp = n
        /\ \A b \in BOOLEAN : [x EXCEPT !.bin = b, !.stamp = n].stamp = n
  BY DEF Item
<1>7. CASE Created(i)
  <2> DEFINE it == [NoItem EXCEPT !.text = FreshText, !.stamp = edits']
  <2>1. item' = [item EXCEPT ![i] = it]
    BY <1>7 DEF Created
  <2>2. it \in Known /\ it.stamp = edits'
    <3>1. it \in Known
      BY <1>2, <1>3, CreatedFacts
    <3> QED BY <3>1 DEF NoItem
  <2> HIDE DEF it
  <2> QED BY <1>5, <2>1, <2>2
<1>8. CASE Edited(i)
  <2> DEFINE it == [item[i] EXCEPT !.text = FreshText, !.stamp = edits']
  <2>1. item' = [item EXCEPT ![i] = it] /\ item[i] # NoItem
    BY <1>3, <1>8 DEF Edited, Exists
  <2>2. it \in Known
    BY <1>2, <1>3, <2>1, EditedFacts
  <2>3. it.stamp = edits'
    BY <1>2, <1>3, <1>6 DEF Known
  <2> HIDE DEF it
  <2> QED BY <1>5, <2>1, <2>2, <2>3
<1>9. CASE Deleted(i) \/ Restored(i)
  <2>1. PICK b \in BOOLEAN : item' = [item EXCEPT ![i] = [item[i] EXCEPT !.bin = b, !.stamp = edits']]
    BY <1>3, <1>9 DEF Deleted, Restored
  <2> DEFINE it == [item[i] EXCEPT !.bin = b, !.stamp = edits']
  <2>2. item[i] # NoItem
    BY <1>9 DEF Deleted, Restored, Exists
  <2>3. it \in Known
    BY <1>2, <1>3, <2>2, EditedFacts
  <2>4. it.stamp = edits'
    BY <1>2, <1>3, <1>6 DEF Known
  <2>5. item' = [item EXCEPT ![i] = it]
    BY <2>1
  <2> HIDE DEF it
  <2> QED BY <1>5, <2>3, <2>4, <2>5
<1> QED BY <1>1, <1>7, <1>8, <1>9

LEMMA UserDecidesStamps == ASSUME Ind, Stamps, UserDecides PROVE Stamps'
<1>1. PICK i \in Items : /\ conflict[i] # NoClash
                         /\ KeepLocal(i) \/ UseRemote(i)
                         /\ conflict' = [conflict EXCEPT ![i] = NoClash]
  BY DEF UserDecides
<1> DEFINE c == conflict[i].copy
<1>2. /\ edits' = edits + 1 /\ edits \in Nat /\ Typed /\ UNCHANGED <<receipt, sync>>
      /\ item[i] \in Known /\ item \in [Items -> Known] /\ queue \in [Items -> Nat]
      /\ conflict \in [Items -> Clashes]
  BY StampNumbers DEF UserDecides, Ind, Typed, diskVars
<1>3. /\ conflict'[i] = NoClash /\ \A j \in Items \ {i} : conflict'[j] = conflict[j]
  BY <1>1, <1>2
<1>4. /\ c \in Known /\ Recent(c) /\ Recent(item[i])
      /\ c.stamp \in Nat /\ item[i].stamp \in Nat
  <2>1. c \in Known
    BY <1>1, <1>2 DEF Clashes
  <2> QED BY <1>1, <1>2, <2>1, StampNumbers DEF Stamps, Stamped, RecentClash
<1>5. /\ \A j \in Items \ {i} : queue'[j] = queue[j]
      /\ UseRemote(i) => queue'[i] = 0
  BY <1>1, <1>2 DEF KeepLocal, UseRemote, Queued
<1>6. CASE KeepLocal(i)
  <2> DEFINE b == c # NoItem
             it == [item[i] EXCEPT !.entry = c.entry, !.etag = c.etag, !.from = c.from, !.foreign = b]
  <2>1. item' = [item EXCEPT ![i] = it] /\ item[i] # NoItem
    BY <1>2, <1>6 DEF KeepLocal, Exists
  <2>2. it \in Known /\ Same(it, item[i]) /\ it.stamp = item[i].stamp
    <3>1. item[i] \in Item /\ item[i].text # 0 /\ c \in Item /\ b \in BOOLEAN /\ NoItem.text = 0
      BY <1>2, <1>4, <2>1, KnownFacts DEF Known, NoItem
    <3> HIDE DEF c, b
    <3>2. it \in Item /\ it.text = item[i].text /\ it.bin = item[i].bin /\ it.stamp = item[i].stamp
      BY <3>1 DEF Item
    <3> QED BY <3>1, <3>2 DEF Known, Same
  <2> HIDE DEF it, b
  <2>3. it.stamp <= edits'
    BY <1>2, <1>4, <2>2 DEF Recent
  <2> QED BY <1>1, <1>2, <1>3, <1>5, <2>1, <2>2, <2>3, VaultChangeStamps
<1>7. CASE UseRemote(i)
  <2>1. item' = [item EXCEPT ![i] = c]
    BY <1>7 DEF UseRemote
  <2>2. c.stamp <= edits'
    BY <1>2, <1>4 DEF Recent
  <2> HIDE DEF c
  <2> QED BY <1>2, <1>3, <1>4, <1>5, <1>7, <2>1, <2>2, VaultChangeStamps
<1> QED BY <1>1, <1>6, <1>7

(* The merged item has the stamp and the content of the local one, unless it  *)
(* is the incoming one; then it was not changed, or was in the bin and is gone.*)
LEMMA MergingStamps ==
  ASSUME NEW i \in Items, item[i] \in Known, NEW before \in Known, NEW incoming \in Known,
         NEW acked, NEW rows
  PROVE  LET m == Merging(i, before, incoming, acked, rows)
         IN /\ m.item.stamp = item[i].stamp \/ m.item = incoming
            /\ item[i] # NoItem =>
                 \/ Same(m.item, item[i]) /\ (item[i] # before => m.newer)
                 \/ item[i].bin /\ m.item = NoItem
                 \/ item[i] = before /\ m.item = incoming
<1> DEFINE local == item[i]
           m     == Merging(i, before, incoming, acked, rows)
           ack   == i \in acked /\ local # NoItem /\ (local # before \/ FollowUp(i, rows[i]))
           links == local # NoItem /\ before.entry = 0 /\ incoming.entry # 0
<1>1. m.item = IF before = NoItem THEN IF local = NoItem THEN incoming ELSE local
               ELSE IF ack THEN Acknowledged(local, incoming, rows[i])
               ELSE IF local.bin /\ incoming = NoItem THEN incoming
               ELSE IF links THEN WithReference(local, incoming)
               ELSE IF local # NoItem /\ incoming = NoItem THEN local
               ELSE IF local = before THEN incoming ELSE local
  BY DEF Merging
<1>2. m.newer = IF before = NoItem THEN local # NoItem /\ local # before
                ELSE IF ack THEN local # before
                ELSE IF local.bin /\ incoming = NoItem THEN FALSE
                ELSE IF links THEN local # before
                ELSE IF local # NoItem /\ incoming = NoItem THEN local # before
                ELSE local # before
  BY DEF Merging
<1>3. local \in Item /\ incoming \in Item
  BY DEF Known
<1> HIDE DEF m, local
<1>4. /\ Same(WithReference(local, incoming), local)
      /\ WithReference(local, incoming).stamp = local.stamp
  BY <1>3 DEF WithReference, Item, Same
<1>5. \A n : Same([local EXCEPT !.entry = n], local) /\ [local EXCEPT !.entry = n].stamp = local.stamp
  BY <1>3 DEF Item, Same
<1>6. Same(Acknowledged(local, incoming, rows[i]), local)
        /\ Acknowledged(local, incoming, rows[i]).stamp = local.stamp
  BY <1>4, <1>5 DEF Acknowledged
<1>7. m.item.stamp = local.stamp \/ m.item = incoming
  BY <1>1, <1>4, <1>6
<1>8. ASSUME local # NoItem
      PROVE  \/ Same(m.item, local) /\ (local # before => m.newer)
             \/ local.bin /\ m.item = NoItem
             \/ local = before /\ m.item = incoming
  <2>1. Same(local, local)
    BY DEF Same
  <2>2. CASE before = NoItem
    BY <1>1, <1>2, <1>8, <2>1, <2>2
  <2>3. CASE before # NoItem /\ ack
    BY <1>1, <1>2, <1>6, <2>3
  <2>4. CASE before # NoItem /\ ~ack
    BY <1>1, <1>2, <1>4, <1>8, <2>1, <2>4
  <2> QED BY <2>2, <2>3, <2>4
<1> QED BY <1>7, <1>8 DEF m, local

LEMMA ApplyStamps ==
  ASSUME Ind, Stamps, sync # NoSync,
         NEW snap \in [Items -> Known], NEW incoming \in [Items -> Known],
         NEW clash \in [Items -> Clashes], NEW acked, NEW ids, NEW deferred,
         NEW next \in {"applied", "recovered"},
         Apply(snap, incoming, clash, acked, ids, receipt.rows, deferred, next),
         UNCHANGED <<receipt, edits>>,
         \A i \in Items : Recent(incoming[i]) /\ RecentClash(clash[i])
  PROVE  Stamps'
<1> DEFINE merged == [i \in Items |-> Merging(i, snap[i], incoming[i], acked, receipt.rows)]
           clashes == [i \in Items |->
             IF clash[i] # NoClash THEN clash[i]
             ELSE IF merged[i].clash THEN ClashOf(incoming[i]) ELSE NoClash]
<1>1. Typed /\ item \in [Items -> Known]
  BY DEF Ind, Typed
<1>2. CASE ~Consumed(acked, ids, clashes)
  <2>1. sync' = NoSync /\ UNCHANGED <<item, queue, conflict>>
    BY <1>2 DEF Apply, vaultVars
  <2> QED BY <2>1, QuietStamps
<1>3. CASE Consumed(acked, ids, clashes)
  <2>1. /\ item' = [i \in Items |-> merged[i].item] /\ conflict' = clashes
        /\ sync' = [sync EXCEPT !.at = next]
    BY <1>3 DEF Apply
  <2>2. \A i \in Items : merged[i].item.stamp = item[i].stamp \/ merged[i].item = incoming[i]
    <3>1. \A i \in Items : merged[i] = Merging(i, snap[i], incoming[i], acked, receipt.rows)
      OBVIOUS
    <3> HIDE DEF merged
    <3> QED BY <1>1, <3>1, MergingStamps
  <2>3. \A i \in Items : clashes[i] = NoClash \/ clashes[i] = clash[i] \/ clashes[i].copy = incoming[i]
    <3> HIDE DEF merged
    <3> QED BY DEF ClashOf
  <2> HIDE DEF merged, clashes
  <2>4. ASSUME NEW i \in Items PROVE Recent(item[i])' /\ RecentClash(conflict[i])'
    <3>1. item'[i].stamp \in {item[i].stamp, incoming[i].stamp}
      BY <2>1, <2>2
    <3>2. conflict'[i] = NoClash \/ conflict'[i] = clash[i] \/ conflict'[i].copy = incoming[i]
      BY <2>1, <2>3
    <3>3. Recent(item[i])
      BY DEF Stamps, Stamped
    <3> QED BY <3>1, <3>2, <3>3 DEF Recent, RecentClash
  <2>5. sync'.at = next /\ sync'.snap = sync.snap /\ sync'.clash = sync.clash
    BY <1>1, <2>1, SyncKinds DEF Round
  <2>6. Stamped'
    BY <2>4, <2>5 DEF Stamps, Stamped, Recent, RecentClash
  <2>7. Followed'
    BY <2>5 DEF Followed
  <2> QED BY <2>6, <2>7 DEF Stamps
<1> QED BY <1>2, <1>3

LEMMA ApplyResultStamps == ASSUME Ind, Text, Stamps, ApplyResult PROVE Stamps'
<1>1. /\ sync # NoSync /\ sync.at = "published" /\ Typed /\ session # Closed
      /\ Apply(sync.snap, sync.result, sync.clash, Confirms(QueueNow), QueueNow, receipt.rows,
               sync.deferred, "applied")
      /\ UNCHANGED <<receipt, edits>>
  BY DEF ApplyResult, At, Ind, Staged, diskVars
<1>2. /\ sync.snap \in [Items -> Known] /\ sync.result \in [Items -> Known]
      /\ sync.clash \in [Items -> Clashes] /\ session.file \in Sound
  BY <1>1, SyncKinds DEF Typed
<1>3. ASSUME NEW i \in Items PROVE Recent(sync.result[i]) /\ RecentClash(sync.clash[i])
  <2>1. Reported(sync.result[i], sync.snap[i], session.file)
    BY <1>1 DEF Text, Reporting
  <2>2. Recent(sync.snap[i]) /\ RecentClash(sync.clash[i])
    BY <1>1 DEF Stamps, Stamped
  <2> QED BY <1>1, <1>2, <2>1, <2>2, ReportedRecent
<1>4. PICK snap, result, clash, deferred, ids, acked :
        /\ snap = sync.snap /\ result = sync.result /\ clash = sync.clash
        /\ deferred = sync.deferred /\ ids = QueueNow /\ acked = Confirms(QueueNow)
  OBVIOUS
<1>5. Apply(snap, result, clash, acked, ids, receipt.rows, deferred, "applied")
  BY <1>1, <1>4
<1> QED BY <1>1, <1>2, <1>3, <1>4, <1>5, ApplyStamps

(* What a recovery goes by and what it brings. *)
LEMMA RecoveryStamps ==
  ASSUME Ind, Stamps, sync # NoSync, sync.at = "settled"
  PROVE  /\ [i \in Items |-> RecoveredFrom(i)] \in [Items -> Known]
         /\ RecoveredItems \in [Items -> Known]
         /\ receipt # NoReceipt /\ receipt.clash \in [Items -> Clashes]
         /\ \A i \in Items : Recent(RecoveredItems[i]) /\ RecentClash(receipt.clash[i])
         /\ \A i \in DOMAIN sync.rows \ Committed(receipt.rows) : i \in Items =>
              RecoveredItems[i] = sync.snap[i]
<1>1. /\ Typed /\ receipt # NoReceipt /\ receipt \in Receipt /\ session.file \in Sound
      /\ sync.snap \in [Items -> Known] /\ RecoveredItems \in [Items -> Known]
  BY RecoveredFacts DEF Ind, Staged
<1>2. receipt.snap \in [Items -> Known] /\ receipt.clash \in [Items -> Clashes]
  BY <1>1 DEF Receipt
<1>3. [i \in Items |-> RecoveredFrom(i)] \in [Items -> Known]
  BY <1>1, <1>2 DEF RecoveredFrom
<1>4. PICK ids \in [Items -> Known] : \A i \in Items :
        RecoveredItems[i] = IF i \in DOMAIN sync.rows \ Committed(receipt.rows)
                            THEN sync.snap[i] ELSE Projected(i, ids, origin, session.file)
  BY RecoveredFacts
<1>5. PICK owner, incoming : owner = origin /\ incoming = RecoveredItems
  OBVIOUS
<1>6. ASSUME NEW i \in Items PROVE Recent(incoming[i])
  <2>1. Recent(sync.snap[i])
    BY DEF Stamps, Stamped
  <2>2. CASE i \in DOMAIN sync.rows \ Committed(receipt.rows)
    BY <1>4, <1>5, <2>1, <2>2
  <2>3. CASE i \notin DOMAIN sync.rows \ Committed(receipt.rows)
    <3>1. incoming[i] = Projected(i, ids, owner, session.file)
      BY <1>4, <1>5, <2>3
    <3>2. \/ incoming[i] = NoItem
          \/ /\ incoming[i].entry \in Entries
             /\ incoming[i] = Finalized(incoming[i].entry, session.file.entry[incoming[i].entry])
      BY <1>1, <3>1, ProjectedText
    <3>3. Reported(incoming[i], sync.snap[i], session.file) /\ incoming[i] \in Known
      BY <1>1, <1>5, <3>2 DEF Reported, Entries
    <3> QED BY <1>1, <2>1, <3>3, ReportedRecent
  <2> QED BY <2>2, <2>3
<1>7. \A i \in Items : RecentClash(receipt.clash[i])
  BY <1>1 DEF Stamps, Stamped
<1> QED BY <1>1, <1>2, <1>3, <1>4, <1>5, <1>6, <1>7

LEMMA ApplyRecoveredStamps == ASSUME Ind, Stamps, ApplyRecovered PROVE Stamps'
<1>1. /\ sync # NoSync /\ sync.at = "settled"
      /\ Apply([i \in Items |-> RecoveredFrom(i)], RecoveredItems, receipt.clash,
               Confirms(sync.rows), sync.rows, receipt.rows,
               DOMAIN sync.rows \ Committed(receipt.rows), "recovered")
      /\ UNCHANGED <<receipt, edits>>
  BY DEF ApplyRecovered, At, diskVars
<1>2. PICK before, incoming, clash, acked, ids, deferred :
        /\ before = [i \in Items |-> RecoveredFrom(i)] /\ incoming = RecoveredItems
        /\ clash = receipt.clash /\ acked = Confirms(sync.rows) /\ ids = sync.rows
        /\ deferred = DOMAIN sync.rows \ Committed(receipt.rows)
  OBVIOUS
<1>3. Apply(before, incoming, clash, acked, ids, receipt.rows, deferred, "recovered")
  BY <1>1, <1>2
<1>4. /\ before \in [Items -> Known] /\ incoming \in [Items -> Known]
      /\ clash \in [Items -> Clashes]
      /\ \A i \in Items : Recent(incoming[i]) /\ RecentClash(clash[i])
  BY <1>1, <1>2, RecoveryStamps
<1> QED BY <1>1, <1>3, <1>4, ApplyStamps

(* What is neither unchanged nor confirmed is merged with its content, and    *)
(* where the merge takes what was read, that is its content.                  *)
LEMMA RecoveryKeeps ==
  ASSUME Ind, Stamps, ApplyRecovered, NEW i \in Items, queue[i] # 0, item[i] # NoItem,
         item[i] # RecoveredFrom(i) \/ i \in DOMAIN sync.rows \ Committed(receipt.rows)
  PROVE  \/ Same(item'[i], item[i]) /\ queue'[i] = queue[i]
         \/ item[i].bin /\ item'[i] = NoItem
<1> DEFINE before   == [j \in Items |-> RecoveredFrom(j)]
           incoming == RecoveredItems
           acked    == Confirms(sync.rows)
           deferred == DOMAIN sync.rows \ Committed(receipt.rows)
           m(j)     == Merging(j, before[j], incoming[j], acked, receipt.rows)
           merged   == [j \in Items |-> m(j)]
           clashes  == [j \in Items |->
             IF receipt.clash[j] # NoClash THEN receipt.clash[j]
             ELSE IF merged[j].clash THEN ClashOf(incoming[j]) ELSE NoClash]
<1>1. /\ sync # NoSync /\ sync.at = "settled" /\ item \in [Items -> Known]
      /\ Apply(before, incoming, receipt.clash, acked, sync.rows, receipt.rows, deferred,
               "recovered")
  BY DEF ApplyRecovered, At, Ind, Typed
<1>2. CASE ~Consumed(acked, sync.rows, clashes)
  <2>1. UNCHANGED <<item, queue>>
    BY <1>1, <1>2 DEF Apply, vaultVars
  <2> QED BY <2>1 DEF Same
<1>3. CASE Consumed(acked, sync.rows, clashes)
  <2>1. /\ item' = [j \in Items |-> merged[j].item]
        /\ queue' = [j \in Items |->
             NextQueue(j, merged[j], clashes, deferred, acked, receipt.rows)]
    BY <1>1, <1>3 DEF Apply
  <2>2. merged[i] = m(i) /\ before[i] = RecoveredFrom(i)
    OBVIOUS
  <2>3. before[i] \in Known /\ incoming[i] \in Known /\ item[i] \in Known
    BY <1>1, RecoveryStamps
  <2>4. i \in deferred => incoming[i] = sync.snap[i]
    BY <1>1, RecoveryStamps
  <2>5. item'[i] = merged[i].item
        /\ queue'[i] = NextQueue(i, merged[i], clashes, deferred, acked, receipt.rows)
    BY <2>1
  <2>6. PICK b, x, a : b = before[i] /\ x = incoming[i] /\ a = acked
    OBVIOUS
  <2>7. m(i) = Merging(i, b, x, a, receipt.rows)
    BY <2>2, <2>6
  <2> HIDE DEF merged, m, before, incoming, acked, clashes
  <2>8. \/ Same(m(i).item, item[i]) /\ (item[i] # b => m(i).newer)
        \/ item[i].bin /\ m(i).item = NoItem
        \/ item[i] = b /\ m(i).item = x
    BY <2>3, <2>6, <2>7, MergingStamps
  <2>9. i \in deferred \/ m(i).newer => queue'[i] = queue[i]
    BY <2>2, <2>5 DEF NextQueue
  <2>10. CASE Same(m(i).item, item[i]) /\ (item[i] # b => m(i).newer)
    BY <2>2, <2>5, <2>6, <2>9, <2>10
  <2>11. CASE item[i].bin /\ m(i).item = NoItem
    BY <2>2, <2>5, <2>11
  <2>12. CASE item[i] = b /\ m(i).item = x
    <3>1. i \in deferred /\ item[i] = RecoveredFrom(i) /\ item'[i] = sync.snap[i]
      BY <2>2, <2>4, <2>5, <2>6, <2>12
    <3>2. Same(item[i], sync.snap[i])
      <4>1. CASE i \notin DOMAIN receipt.rows
        BY <3>1, <4>1 DEF RecoveredFrom, Same
      <4>2. CASE i \in DOMAIN receipt.rows
        <5>1. item[i] = receipt.snap[i]
          BY <3>1, <4>2 DEF RecoveredFrom
        <5>2. ~(receipt.snap[i].stamp < item[i].stamp)
          BY <2>3, <5>1, StampNumbers DEF Ind
        <5> QED BY <1>1, <5>2 DEF Stamps, Followed, Since
      <4> QED BY <4>1, <4>2
    <3> QED BY <2>9, <3>1, <3>2 DEF Same
  <2> QED BY <2>8, <2>10, <2>11, <2>12
<1> QED BY <1>2, <1>3

LEMMA InitStamps == ASSUME Init PROVE Stamps
<1>1. /\ sync = NoSync /\ receipt = NoReceipt /\ edits = 0 /\ sync.at = "idle"
      /\ \A i \in Items : conflict[i] = NoClash
  BY DEF Init, NoSync
<1>2. ASSUME NEW i \in Items PROVE item[i].stamp = 0
  <2>1. item[i] = IF i \in Linked THEN [NoItem EXCEPT !.text = FirstEntry[i], !.entry = FirstEntry[i],
                                                      !.etag = FirstEntry[i]]
                  ELSE NoItem
    BY DEF Init
  <2> QED BY <2>1 DEF NoItem
<1> QED BY <1>1, <1>2 DEF Stamps, Stamped, Followed, Recent, RecentClash

LEMMA NextStamps == ASSUME Ind, Text, Stamps, [Next]_vars PROVE Stamps'
<1>1. CASE UserEdits \/ UserDecides
  BY <1>1, UserEditsStamps, UserDecidesStamps
<1>2. CASE OthersEdit \/ Start \/ RecoverRead \/ CheckFirst \/ DeleteReceipt
  BY <1>2, QuietStepStamps
<1>3. CASE ReadAndWrite \/ ProjectChecked
  BY <1>3, WriteStepsStamps
<1>4. CASE SaveBatch
  BY <1>4, SaveBatchStamps
<1>5. CASE Publish \/ AnswerLost
  BY <1>5, QuietStepStamps
<1>6. CASE ApplyResult \/ ApplyRecovered
  BY <1>6, ApplyResultStamps, ApplyRecoveredStamps
<1>7. CASE \E o \in Ops : BeginMutation(o) \/ SaveMutation(o)
  BY <1>7, QuietStepStamps
<1>8. CASE SaveFails \/ SyncFails \/ WorkerStops \/ Rejected
  BY <1>8, QuietStepStamps
<1>9. CASE UNCHANGED vars
  <2>1. UNCHANGED <<item, queue, conflict, receipt, sync, edits>>
    BY <1>9 DEF vars, vaultVars, diskVars, userVars
  <2> QED BY <2>1 DEF Stamps, Stamped, Followed, Since, Same, Recent, RecentClash
<1> QED BY <1>1, <1>2, <1>3, <1>4, <1>5, <1>6, <1>7, <1>8, <1>9 DEF Next

(* Recovering a batch never takes back what the user made since it was read,  *)
(* nor what it does not confirm, and keeps it queued, for any number of items,*)
(* edits, decisions, faults and recoveries (recoverPending,                   *)
(* applyProviderSync).                                                        *)
THEOREM RecoveryIsSafe == Spec => RecoveryKeepsEdits
<1>1. Init => Ind /\ Text /\ Stamps
  BY InitInd, InitText, InitStamps
<1>2. Ind /\ Text /\ Stamps /\ [Next]_vars => (Ind /\ Text /\ Stamps)'
  BY NextInd, NextText, NextStamps
<1>3. Ind /\ Text /\ Stamps /\ [Next]_vars =>
        [ApplyRecovered => \A i \in Items :
           /\ queue[i] # 0 /\ item[i] # NoItem
           /\ item[i] # RecoveredFrom(i) \/ i \in DOMAIN sync.rows \ Committed(receipt.rows)
           => \/ /\ item'[i].text = item[i].text /\ item'[i].bin = item[i].bin
                 /\ queue'[i] = queue[i]
              \/ item[i].bin /\ item'[i] = NoItem]_vars
  BY RecoveryKeeps DEF Same
<1> QED BY <1>1, <1>2, <1>3, PTL DEF Spec, RecoveryKeepsEdits
=============================================================================
