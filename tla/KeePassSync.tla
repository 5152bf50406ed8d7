----------------------------- MODULE KeePassSync -----------------------------
(* Durable synchronization of a remote KeePass file: the vault's items and   *)
(* queue, the unlocked database in the worker's memory, the working copy and *)
(* the receipts on disk, and the file on the server that other devices edit. *)
(* Group operations share the memory, the disk and the exclusive queue.      *)
(* A text is a number, never used twice; an entry is in the recycle bin or   *)
(* not, and so is the group that an item names (place). Passwords of one     *)
(* project are not tied together here.                                       *)
EXTENDS Naturals, FiniteSetsExt

CONSTANTS
  Items,      \* items that the vault holds or may hold
  Linked,     \* items that exist in the file at first
  Ops,        \* operation ids of group mutations
  Batch,      \* KEEPASS_ITEM_SYNC_BATCH_LIMIT
  MaxEntries, \* bound on entries ever created
  MaxEdits,   \* bound on edits and decisions of the user
  MaxRemote,  \* bound on edits of other devices
  MaxFaults   \* bound on faults

ASSUME ItemsAssumption ==
  /\ IsFiniteSet(Items) /\ Linked \subseteq Items
  /\ Cardinality(Linked) <= MaxEntries
ASSUME BoundsAssumption ==
  /\ Batch \in Nat \ {0} /\ MaxEntries \in Nat /\ MaxEdits \in Nat
  /\ MaxRemote \in Nat /\ MaxFaults \in Nat

VARIABLES
  item,     \* VaultState.items
  queue,    \* ids of mutationQueue by item, 0 when there is none
  restoring,\* items whose queued mutation has keepassRestore
  conflict, \* VaultState.providerConflicts
  remote,   \* the file on the server
  record,   \* the working copy on disk
  receipt,  \* the receipt of the item batch, on disk
  receipts, \* the receipts of group mutations, on disk
  session,  \* the unlocked database
  pending,  \* keePassPendingPersistence
  busy,     \* the group mutation that holds the exclusive queue
  sync,     \* what the running synchronization remembers
  origin,   \* the item an entry was created for
  unseen,   \* texts of other devices that the vault has not shown
  edits, remotes, faults

diskVars  == <<record, receipt, receipts>>
vaultVars == <<item, queue, restoring, conflict>>
userVars  == <<unseen, edits>>
vars == <<vaultVars, remote, diskVars, session, pending, busy, sync, origin,
          userVars, remotes, faults>>

Entries  == 1..MaxEntries
Absent   == [text |-> 0, bin |-> FALSE]
NoItem   == [text |-> 0, bin |-> FALSE, place |-> FALSE, stamp |-> 0, entry |-> 0,
             etag |-> 0, from |-> FALSE, foreign |-> FALSE]
NoOp     == "none"
NoClash  == [known |-> FALSE]
NoSync   == [at |-> "idle"]
NoRows   == [i \in {} |-> 0]
NoReceipt == [rows |-> NoRows]
Closed   == [open |-> FALSE]
Opened(file) == [open |-> TRUE, file |-> file]

ASSUME NamesAssumption == NoOp \notin Items \cup Ops

Texts   == 0..(Cardinality(Items) + MaxEdits + MaxRemote)
\* place: keepassGroupPath is the recycle bin. stamp: the edit that made updatedAt,
\* 0 when the file did. etag, from and foreign: the text and the place of the
\* baseline, and whether the revision is not one of the file.
Item    == [text : Texts, bin : BOOLEAN, place : BOOLEAN, stamp : 0..MaxEdits,
            entry : 0..MaxEntries, etag : Texts, from : BOOLEAN, foreign : BOOLEAN]
File    == [entry : [Entries -> [text : Texts, bin : BOOLEAN]], groups : SUBSET Ops]
\* recover: a receipt was found      settle, settled: publishing its file
\* read: nothing to recover          probe, checked: publishing for a check
\* written: the database is changed  stored: the receipt is saved, if any
\* published: the result is known    applied, recovered: merged in the vault
Phases  == {"recover", "settle", "settled", "recovered", "read", "probe", "checked",
            "written", "stored", "published", "applied"}

TypeOK ==
  /\ item \in [Items -> Item]
  /\ \A i, j \in Items : i # j /\ item[i].entry # 0 => item[i].entry # item[j].entry
  /\ queue \in [Items -> Nat] /\ restoring \subseteq Items
  /\ \A i \in Items : conflict[i] # NoClash => conflict[i].copy \in Item
  /\ remote \in File
  /\ record \in [base : File, working : File, dirty : BOOLEAN, current : BOOLEAN]
  /\ DOMAIN receipt.rows \subseteq Items
  /\ receipts \subseteq Ops /\ pending \subseteq Ops /\ busy \in Ops \cup {NoOp}
  /\ session = Closed \/ session.file \in File
  /\ sync = NoSync \/ sync.at \in Phases
  /\ origin \in [Entries -> Items \cup {NoOp}]
  /\ unseen \subseteq Texts
  /\ edits \in 0..MaxEdits /\ remotes \in 0..MaxRemote /\ faults \in 0..MaxFaults

\* Linked items are entries 1, 2, ..., with the texts of the same number.
FirstEntry == CHOOSE f \in [Linked -> 1..Cardinality(Linked)] :
                \A i, j \in Linked : f[i] = f[j] => i = j
Init ==
  LET has(e) == e \in {FirstEntry[i] : i \in Linked}
      file == [entry  |-> [e \in Entries |-> IF has(e) THEN [text |-> e, bin |-> FALSE]
                                             ELSE Absent],
               groups |-> {}]
  IN /\ item = [i \in Items |-> IF i \in Linked
                  THEN [NoItem EXCEPT !.text = FirstEntry[i], !.entry = FirstEntry[i],
                                      !.etag = FirstEntry[i]]
                  ELSE NoItem]
     /\ queue = [i \in Items |-> 0] /\ restoring = {}
     /\ conflict = [i \in Items |-> NoClash]
     /\ remote = file
     /\ record = [base |-> file, working |-> file, dirty |-> FALSE, current |-> TRUE]
     /\ receipt = NoReceipt /\ receipts = {}
     /\ session = Closed /\ pending = {} /\ busy = NoOp /\ sync = NoSync
     /\ origin = [e \in Entries |-> IF has(e)
                    THEN CHOOSE i \in Linked : FirstEntry[i] = e ELSE NoOp]
     /\ unseen = {} /\ edits = 0 /\ remotes = 0 /\ faults = 0
-----------------------------------------------------------------------------
(* The user works with the vault: upsertItem, deleteItem, restoreItem.       *)
FreshText == Cardinality(Items) + edits + remotes + 1

\* Ids only need to differ from those that a batch or a receipt refers to.
IdsInUse ==
  {queue[i] : i \in Items}
    \cup {receipt.rows[i].id : i \in DOMAIN receipt.rows}
    \cup (IF sync = NoSync THEN {} ELSE {sync.rows[i].id : i \in DOMAIN sync.rows})
FreshId == Max(IdsInUse) + 1
Queued(i) == IF queue[i] = 0 THEN [queue EXCEPT ![i] = FreshId] ELSE queue

Exists(i)   == item[i] # NoItem
IsLinked(i) == item[i].entry # 0

Created(i) ==
  /\ ~Exists(i) /\ \A e \in Entries : origin[e] # i
  /\ item' = [item EXCEPT ![i] = [NoItem EXCEPT !.text = FreshText, !.stamp = edits']]
  /\ queue' = Queued(i)
  /\ UNCHANGED restoring

Edited(i) ==
  /\ Exists(i) /\ ~item[i].bin
  /\ item' = [item EXCEPT ![i].text = FreshText, ![i].stamp = edits']
  /\ queue' = Queued(i)
  /\ restoring' = IF IsLinked(i) THEN restoring ELSE restoring \ {i}

Deleted(i) ==
  /\ Exists(i) /\ ~item[i].bin
  /\ item' = [item EXCEPT ![i].bin = TRUE, ![i].stamp = edits']
  /\ queue' = IF queue[i] # 0 /\ ~IsLinked(i) THEN [queue EXCEPT ![i] = 0] ELSE Queued(i)
  /\ restoring' = restoring \ {i}

Restored(i) ==
  /\ Exists(i) /\ item[i].bin
  /\ item' = [item EXCEPT ![i].bin = FALSE, ![i].stamp = edits']
  /\ queue' = Queued(i)
  /\ restoring' = IF IsLinked(i) THEN restoring \cup {i} ELSE restoring

UserEdits ==
  /\ edits < MaxEdits
  /\ edits' = edits + 1
  /\ \E i \in Items : Created(i) \/ Edited(i) \/ Deleted(i) \/ Restored(i)
  /\ UNCHANGED <<conflict, remote, diskVars, session, pending, busy, sync, origin,
                 unseen, remotes, faults>>

(* resolveProviderConflict. The fingerprint of the conflict's remote copy    *)
(* becomes the baseline; a copy read from the file has none. The revision    *)
(* becomes a date, which never equals the revision of a file's entry.        *)
KeepLocal(i) ==
  LET c == conflict[i].copy
  IN /\ Exists(i)
     /\ item' = [item EXCEPT ![i] =
          [@ EXCEPT !.entry = c.entry, !.etag = c.etag, !.from = c.from,
                    !.foreign = c # NoItem]]
     /\ queue' = Queued(i)
     /\ restoring' = IF item[i].bin \/ c = NoItem THEN restoring \ {i} ELSE restoring

UseRemote(i) ==
  /\ item' = [item EXCEPT ![i] = conflict[i].copy]
  /\ queue' = [queue EXCEPT ![i] = 0]
  /\ restoring' = restoring \ {i}

UserDecides ==
  /\ edits < MaxEdits
  /\ edits' = edits + 1
  /\ \E i \in Items :
       /\ conflict[i] # NoClash
       /\ KeepLocal(i) \/ UseRemote(i)
       /\ conflict' = [conflict EXCEPT ![i] = NoClash]
  /\ UNCHANGED <<remote, diskVars, session, pending, busy, sync, origin, unseen,
                 remotes, faults>>
-----------------------------------------------------------------------------
(* Other devices edit, bin, recover and purge entries of the file; each of   *)
(* their writes gives the file a new ETag.                                   *)
OthersEdit ==
  /\ remotes < MaxRemote
  /\ remotes' = remotes + 1
  /\ \E e \in Entries :
       LET found == remote.entry[e]
       IN /\ found # Absent
          /\ \E now \in {Absent, [found EXCEPT !.bin = ~@], [found EXCEPT !.text = FreshText]} :
               /\ remote' = [remote EXCEPT !.entry[e] = now]
               /\ unseen' = unseen \cup ({now.text} \ {0, found.text})
  /\ record' = [record EXCEPT !.current = FALSE]
  /\ UNCHANGED <<vaultVars, receipt, receipts, session, pending, busy, sync, origin,
                 edits, faults>>
-----------------------------------------------------------------------------
(* KeePassProvider.sync: what the synchronization does with one item of its  *)
(* snapshot. The batch are the items whose mutations it was given.           *)
LocallyChanged(local) ==
  local.etag # 0 /\ (local.text # local.etag \/ local.place # local.from)
RemotelyChanged(local, there) ==
  local.foreign \/ (local.etag # 0 /\ there.text # local.etag)

VerdictOfLinked(local, there, given, restore) ==
  LET changed == LocallyChanged(local)
  IN IF ~given /\ (changed \/ local.bin) THEN "keep"
     ELSE IF local.bin /\ (there = Absent \/ there.bin) THEN "take"
     ELSE IF there = Absent THEN IF local.etag # 0 /\ ~changed THEN "take" ELSE "clash"
     ELSE IF there.bin /\ restore
     THEN IF local.etag # 0 /\ there.text = local.etag THEN "restore" ELSE "clash"
     ELSE IF there.bin THEN IF changed THEN "clash" ELSE "take"
     ELSE IF ~changed /\ ~local.bin THEN "take"
     ELSE IF RemotelyChanged(local, there) THEN "clash"
     ELSE IF local.bin THEN "delete" ELSE "update"

Verdict(i, snap, given, file) ==
  LET local == snap[i]
  IN IF local = NoItem THEN "take"
     ELSE IF local.entry # 0
     THEN VerdictOfLinked(local, file.entry[local.entry], i \in given,
                        i \in given \cap restoring)
     ELSE IF local.bin THEN "take" ELSE IF i \in given THEN "create" ELSE "defer"

\* The file's copy of an entry, and finalize: the same with a baseline.
Copy(e, there) ==
  IF there = Absent THEN NoItem
  ELSE [NoItem EXCEPT !.text = there.text, !.bin = there.bin, !.place = there.bin,
                      !.entry = e]
Finalized(e, there) == [Copy(e, there) EXCEPT !.etag = there.text, !.from = there.bin]

\* The entry that stands for an item: its link, or the one made for it.
EntryFor(i, identities, owner, file) ==
  IF identities[i].entry # 0 THEN identities[i].entry
  ELSE IF identities[i] # NoItem THEN 0
  ELSE LET mine == {e \in Entries : owner[e] = i /\ file.entry[e] # Absent}
       IN IF mine = {} THEN 0 ELSE Max(mine)
Projected(i, identities, owner, file) ==
  LET e == EntryFor(i, identities, owner, file)
  IN IF e = 0 THEN NoItem ELSE Finalized(e, file.entry[e])

\* refreshFromSession: items without an entry of their own are not in it.
Refreshed(identities, file) == [i \in Items |-> Projected(i, identities, origin, file)]

\* selectItemSyncBatch: the oldest mutations, as many as the limit allows.
BatchOf(ids) ==
  {i \in Items : ids[i] # 0 /\ Cardinality({j \in Items : ids[j] # 0 /\ ids[j] < ids[i]}) < Batch}

ClashOf(copy) == [known |-> TRUE, copy |-> copy]

\* The database after the batch, and what the caller is told of it.
Outcome(snap, given, made, owner, file) ==
  LET verdict == [i \in Items |-> Verdict(i, snap, given, file)]
      entry(i) == IF verdict[i] = "create" THEN made[i] ELSE snap[i].entry
      written(e, was) ==
        LET by == {i \in Items : entry(i) = e /\ verdict[i] \in {"create", "update", "restore"}}
            gone == {i \in Items : entry(i) = e /\ verdict[i] = "delete"}
        IN IF by # {} THEN [text |-> snap[CHOOSE i \in by : TRUE].text, bin |-> FALSE]
           ELSE IF gone # {} THEN [was EXCEPT !.bin = TRUE] ELSE was
      after == [file EXCEPT !.entry = [e \in Entries |-> written(e, file.entry[e])]]
      result == [i \in Items |->
        IF verdict[i] \in {"keep", "clash", "defer"} THEN snap[i]
        ELSE IF snap[i] # NoItem /\ entry(i) = 0 THEN NoItem
        ELSE Projected(i, [snap EXCEPT ![i].entry = entry(i)], owner, after)]
      clash == [i \in Items |->
        IF verdict[i] # "clash" THEN NoClash
        ELSE ClashOf(Copy(snap[i].entry, file.entry[snap[i].entry]))]
  IN [file |-> after, result |-> result, clash |-> clash]
-----------------------------------------------------------------------------
(* The synchronization holds the exclusive queue from Start to its end.      *)
Begin(at) == [at |-> at, snap |-> item, rows |-> NoRows, result |-> item,
              clash |-> [i \in Items |-> NoClash], deferred |-> {}]
At(phase) == sync # NoSync /\ sync.at = phase

\* ensureKeePassSession: a closed database is opened from the working copy.
Ensured == IF session.open THEN session ELSE Opened(record.working)

HasReceipt == receipt # NoReceipt
Start ==
  /\ sync = NoSync /\ busy = NoOp
  /\ session' = Ensured
  /\ sync' = Begin(IF HasReceipt THEN "recover" ELSE "read")
  /\ UNCHANGED <<vaultVars, remote, diskVars, pending, busy, origin, userVars, remotes,
                 faults>>

VerbOf(it) == IF it.bin THEN "delete" ELSE IF it.entry # 0 THEN "update" ELSE "create"

\* recoverPending reads the vault before it publishes.
RecoverRead ==
  /\ At("recover")
  /\ sync' = [sync EXCEPT !.at = "settle", !.snap = item,
              !.rows = [i \in {j \in Items : queue[j] # 0} |->
                          [id |-> queue[i], verb |-> VerbOf(item[i]), restore |-> i \in restoring]]]
  /\ UNCHANGED <<vaultVars, remote, diskVars, session, pending, busy, origin, userVars,
                 remotes, faults>>

\* createItemSyncReceipt: what is committed, and under which entry.
RowsOf(given, snap, out) ==
  [i \in given |->
    [id |-> queue[i], verb |-> VerbOf(snap[i]), restore |-> i \in restoring,
     committed |-> out.clash[i] = NoClash, text |-> snap[i].text,
     entry |-> IF snap[i].bin THEN snap[i].entry ELSE out.result[i].entry]]
Unidentified(rows) == \E i \in DOMAIN rows : rows[i].committed /\ rows[i].entry = 0

\* The items that the adapter creates, and the entries it makes for them.
ToCreate(snap, given) == {i \in given : Verdict(i, snap, given, session.file) = "create"}
\* Identifiers are new; one that nothing refers to any more may serve again.
Referred ==
  {item[i].entry : i \in Items} \cup {conflict[i].copy.entry : i \in {j \in Items : conflict[j] # NoClash}}
    \cup UNION {{receipt.rows[i].entry, receipt.snap[i].entry} : i \in DOMAIN receipt.rows}
FreeEntries ==
  {e \in Entries \ Referred : \A file \in {remote, record.base, record.working, session.file} :
     file.entry[e] = Absent}
\* A definition whose name begins with Bug is a slip of the definition it precedes.
BugSameEntry(wanted) ==
  [i \in Items |-> IF i \in wanted THEN Min(FreeEntries) ELSE 0]
EntriesMade(wanted) ==
  LET made == CHOOSE f \in [wanted -> FreeEntries] :
                \A i, j \in wanted : f[i] = f[j] => i = j
  IN [i \in Items |-> IF i \in wanted THEN made[i] ELSE 0]

OwnersAfter(wanted, made) ==
  [e \in Entries |-> IF \E i \in wanted : made[i] = e
                     THEN CHOOSE i \in wanted : made[i] = e ELSE origin[e]]

\* The adapter works on the database in memory; what it returns is kept.
Write(snap, given, deferred, next) ==
  LET wanted == ToCreate(snap, given)
      made   == EntriesMade(wanted)
      owner  == OwnersAfter(wanted, made)
      out    == Outcome(snap, given, made, owner, session.file)
      rows   == RowsOf(given, snap, out)
  IN /\ Cardinality(wanted) <= Cardinality(FreeEntries)
     /\ ~Unidentified(rows)
     /\ session' = Opened(out.file)
     /\ origin' = owner
     /\ sync' = [at |-> next, snap |-> snap, rows |-> rows, result |-> out.result,
                 clash |-> out.clash, deferred |-> deferred]

\* synchronize: the vault is read, and a batch is written in the database.
ReadAndWrite ==
  /\ At("read")
  /\ LET given == BatchOf(queue)
     IN Write(item, given, {i \in Items \ given : queue[i] # 0}, "written")
  /\ UNCHANGED <<vaultVars, remote, diskVars, pending, busy, userVars, remotes, faults>>

\* A check without queued mutations publishes between its reading and the adapter.
CheckFirst ==
  /\ At("read")
  /\ \A i \in Items : queue[i] = 0
  /\ sync' = [Begin("probe") EXCEPT !.snap = item]
  /\ UNCHANGED <<vaultVars, remote, diskVars, session, pending, busy, origin, userVars,
                 remotes, faults>>
ProjectChecked ==
  /\ At("checked")
  /\ Write(sync.snap, {}, {}, "published")
  /\ UNCHANGED <<vaultVars, remote, diskVars, pending, busy, userVars, remotes, faults>>

\* persistWorkingCopy with the receipt of the batch, in one transaction; a
\* batch of which nothing was committed leaves neither.
Committed(rows) == {i \in DOMAIN rows : rows[i].committed}
BugNoReceipt(batch) == NoReceipt
ReceiptOf(batch) == [rows |-> batch.rows, snap |-> batch.snap, clash |-> batch.clash]
Saved(file) == [record EXCEPT !.working = file, !.dirty = TRUE]
SaveBatch ==
  /\ At("written")
  /\ sync' = [sync EXCEPT !.at = "stored"]
  /\ IF Committed(sync.rows) = {} THEN UNCHANGED <<record, receipt>>
     ELSE /\ record' = Saved(session.file)
          /\ receipt' = ReceiptOf(sync)
  /\ UNCHANGED <<vaultVars, remote, receipts, session, pending, busy, origin, userVars,
                 remotes, faults>>
-----------------------------------------------------------------------------
(* publishWorkingCopy. Without changes to upload, the file is taken as it is; *)
(* otherwise it is written if its ETag is the known one, or else the changes  *)
(* since the base are applied to it and the result is written.                *)
Agree(base, work, there) == Cardinality({base, work, there}) <= 2
Pick(base, work, there)  == IF work = base THEN there ELSE work
EntriesAgree(e) ==
  LET base == record.base.entry[e]  work == record.working.entry[e]
      there == remote.entry[e]
  IN IF Absent \in {base, work, there} THEN Agree(base, work, there)
     ELSE Agree(base.text, work.text, there.text) /\ Agree(base.bin, work.bin, there.bin)
MergedEntry(e) ==
  LET base == record.base.entry[e]  work == record.working.entry[e]
      there == remote.entry[e]
  IN IF Absent \in {base, work, there} THEN Pick(base, work, there)
     ELSE [text |-> Pick(base.text, work.text, there.text),
           bin |-> Pick(base.bin, work.bin, there.bin)]
BugWorkingWins ==
  [entry |-> record.working.entry, groups |-> record.working.groups]
Rebased ==
  [entry  |-> [e \in Entries |-> MergedEntry(e)],
   groups |-> remote.groups \cup (record.working.groups \ record.base.groups)]
CanRebase == \A e \in Entries : EntriesAgree(e)
CanWrite  == record.current \/ CanRebase

ToWrite == IF record.current THEN record.working ELSE Rebased
Synced(file) == [base |-> file, working |-> file, dirty |-> FALSE, current |-> TRUE]
PhaseAfter(at) ==
  CASE at = "settle" -> "settled" [] at = "probe" -> "checked" [] OTHER -> "published"
\* A synchronization whose file was refreshed or rebased projects it anew, and
\* what the adapter kept back is projected with the rest.
Reread(file) ==
  IF At("stored")
  THEN [sync EXCEPT !.at = "published", !.result = Refreshed(@, file),
                    !.clash = [i \in Items |-> NoClash]]
  ELSE [sync EXCEPT !.at = PhaseAfter(@)]
Publishing == At("settle") \/ At("probe") \/ At("stored")

PublishUnchanged ==
  /\ Publishing /\ ~record.dirty /\ record.current
  /\ sync' = [sync EXCEPT !.at = PhaseAfter(@)]
  /\ UNCHANGED <<remote, record, session>>
PublishRefreshed ==
  /\ Publishing /\ ~record.dirty /\ ~record.current
  /\ record' = Synced(remote)
  /\ session' = Opened(remote)
  /\ sync' = Reread(remote)
  /\ UNCHANGED remote
PublishWritten ==
  /\ Publishing /\ record.dirty /\ CanWrite
  /\ remote' = ToWrite
  /\ record' = Synced(ToWrite)
  /\ session' = Opened(ToWrite)
  /\ sync' = IF record.current THEN [sync EXCEPT !.at = PhaseAfter(@)] ELSE Reread(ToWrite)
Publish ==
  /\ PublishUnchanged \/ PublishRefreshed \/ PublishWritten
  /\ UNCHANGED <<vaultVars, receipt, receipts, pending, busy, origin, userVars, remotes,
                 faults>>
-----------------------------------------------------------------------------
(* applyProviderSync: one transaction of the vault. snap is the reading that *)
(* the result was made from, acked the items whose mutations a receipt       *)
(* confirms, rows what the receipt says of them.                             *)
WithReference(local, incoming) ==
  [local EXCEPT !.entry = incoming.entry, !.etag = incoming.etag, !.from = incoming.from,
                !.foreign = incoming.foreign]
Acknowledged(local, incoming, row) ==
  IF incoming = NoItem THEN [local EXCEPT !.entry = row.entry]
  ELSE WithReference(local, incoming)

FollowUp(i, row) == VerbOf(item[i]) # row.verb \/ (i \in restoring) # row.restore

Merging(i, before, incoming, acked, rows) ==
  LET local   == item[i]
      newer   == local # before
      links   == local # NoItem /\ before.entry = 0 /\ incoming.entry # 0
      kept    == [item |-> local, newer |-> newer, clash |-> FALSE]
      took    == [item |-> incoming, newer |-> FALSE, clash |-> FALSE]
      clashed == [item |-> local, newer |-> newer, clash |-> TRUE]
  IN IF before = NoItem
     THEN IF local = NoItem THEN took
          ELSE IF incoming \notin {NoItem, local} THEN clashed ELSE kept
     ELSE IF i \in acked /\ local # NoItem /\ (newer \/ FollowUp(i, rows[i]))
     THEN [kept EXCEPT !.item = Acknowledged(local, incoming, rows[i])]
     ELSE IF local.bin /\ incoming = NoItem THEN took
     ELSE IF links THEN [kept EXCEPT !.item = WithReference(local, incoming)]
     ELSE IF local # NoItem /\ incoming = NoItem THEN clashed
     ELSE IF ~newer THEN took
     ELSE IF incoming \notin {before, local} THEN clashed ELSE kept

\* A confirmed or unchanged mutation leaves the queue; a newer edit stays in it.
NextQueue(i, merged, clashes, deferred, acked, rows) ==
  IF queue[i] = 0
  THEN IF merged.newer /\ merged.item.bin /\ merged.item.entry # 0 THEN FreshId ELSE 0
  ELSE IF clashes[i] # NoClash \/ i \in deferred THEN queue[i]
  ELSE IF merged.newer \/ (i \in acked /\ FollowUp(i, rows[i])) THEN queue[i] ELSE 0

\* The confirmations must be those of the mutations that are queued now, and
\* none of them may be in conflict; otherwise nothing is stored.
Consumed(acked, ids, clashes) ==
  \A i \in acked : queue[i] = ids[i].id /\ VerbOf(item[i]) = ids[i].verb
                   /\ clashes[i] = NoClash

Apply(snap, incoming, clash, acked, ids, rows, deferred, next) ==
  LET merged  == [i \in Items |-> Merging(i, snap[i], incoming[i], acked, rows)]
      clashes == [i \in Items |->
        IF clash[i] # NoClash THEN clash[i]
        ELSE IF merged[i].clash THEN ClashOf(incoming[i]) ELSE NoClash]
  IN IF Consumed(acked, ids, clashes)
     THEN /\ item' = [i \in Items |-> merged[i].item]
          /\ queue' = [i \in Items |->
               NextQueue(i, merged[i], clashes, deferred, acked, rows)]
          /\ restoring' = {i \in restoring : queue'[i] # 0}
          /\ conflict' = clashes
          /\ unseen' = unseen \ ({item'[i].text : i \in Items}
               \cup {clashes[i].copy.text : i \in {j \in Items : clashes[j] # NoClash}})
          /\ sync' = [sync EXCEPT !.at = next]
          /\ UNCHANGED <<session, pending>>
     ELSE /\ sync' = NoSync /\ session' = Closed /\ pending' = {}
          /\ UNCHANGED <<vaultVars, unseen>>

\* receiptAcknowledgements
Confirms(ids) ==
  {i \in DOMAIN receipt.rows \cap DOMAIN ids :
     receipt.rows[i].committed /\ receipt.rows[i].id = ids[i].id}
QueueNow == [i \in {j \in Items : queue[j] # 0} |-> [id |-> queue[i], verb |-> VerbOf(item[i])]]

\* The end of synchronize. Without a receipt there is nothing to confirm.
ApplyResult ==
  /\ At("published")
  /\ Apply(sync.snap, sync.result, sync.clash, Confirms(QueueNow), QueueNow,
           receipt.rows, sync.deferred, "applied")
  /\ UNCHANGED <<remote, diskVars, busy, origin, edits, remotes, faults>>

\* The end of recoverPending: items outside the batch are those that were read.
BugRecoverAll(deferred) == {}
KeptBack(deferred) == deferred
RecoveredItems ==
  LET named    == Committed(receipt.rows)
      deferred == KeptBack(DOMAIN sync.rows \ named)
      ids      == [i \in Items |-> IF i \in named /\ sync.snap[i] # NoItem
                                   THEN [sync.snap[i] EXCEPT !.entry = receipt.rows[i].entry]
                                   ELSE sync.snap[i]]
  IN [i \in Items |-> IF i \in deferred THEN sync.snap[i]
                      ELSE Projected(i, ids, origin, session.file)]
RecoveredFrom(i) == IF i \in DOMAIN receipt.rows THEN receipt.snap[i] ELSE sync.snap[i]
ApplyRecovered ==
  /\ At("settled")
  /\ Apply([i \in Items |-> RecoveredFrom(i)], RecoveredItems, receipt.clash,
           Confirms(sync.rows), sync.rows, receipt.rows,
           DOMAIN sync.rows \ Committed(receipt.rows), "recovered")
  /\ UNCHANGED <<remote, diskVars, busy, origin, edits, remotes, faults>>

\* The receipt is deleted last; after a recovery the synchronization begins.
DeleteReceipt ==
  /\ At("applied") \/ At("recovered")
  /\ receipt' = NoReceipt
  /\ sync' = IF At("recovered") THEN Begin("read") ELSE NoSync
  /\ UNCHANGED <<vaultVars, remote, record, receipts, session, pending, busy, origin,
                 userVars, remotes, faults>>
-----------------------------------------------------------------------------
(* executeKeePassDurableMutation for a group that is made once per operation. *)
BeginMutation(o) ==
  /\ busy = NoOp /\ sync = NoSync
  /\ o \notin receipts
  /\ busy' = o
  /\ session' = IF o \in pending THEN Ensured
                ELSE Opened([Ensured.file EXCEPT !.groups = @ \cup {o}])
  /\ pending' = pending \cup {o}
  /\ UNCHANGED <<vaultVars, remote, diskVars, sync, origin, userVars, remotes, faults>>
SaveMutation(o) ==
  /\ busy = o
  /\ record' = Saved(session.file)
  /\ receipts' = receipts \cup {o}
  /\ pending' = pending \ {o}
  /\ busy' = NoOp
  /\ UNCHANGED <<vaultVars, remote, receipt, session, sync, origin, userVars, remotes,
                 faults>>
-----------------------------------------------------------------------------
(* Faults. Whatever stops a synchronization, its source is locked and what   *)
(* was not yet saved is forgotten; a failed save of a mutation keeps it.     *)
Fault == faults < MaxFaults /\ faults' = faults + 1
Forget == session' = Closed /\ pending' = {} /\ sync' = NoSync

SaveFails ==
  /\ Fault /\ busy # NoOp
  /\ busy' = NoOp
  /\ UNCHANGED <<vaultVars, remote, diskVars, session, pending, sync, origin, userVars,
                 remotes>>
SyncFails ==
  /\ Fault /\ sync # NoSync /\ Forget
  /\ UNCHANGED <<vaultVars, remote, diskVars, busy, origin, userVars, remotes>>
\* The file was written, the answer is lost.
AnswerLost ==
  /\ Fault /\ Publishing /\ record.dirty /\ CanWrite
  /\ remote' = ToWrite
  /\ record' = [record EXCEPT !.current = FALSE]
  /\ Forget
  /\ UNCHANGED <<vaultVars, receipt, receipts, busy, origin, userVars, remotes>>
WorkerStops ==
  /\ Fault /\ Forget
  /\ busy' = NoOp
  /\ UNCHANGED <<vaultVars, remote, diskVars, origin, userVars, remotes>>
\* Edits that cannot be applied to the file, and a batch that cannot be named.
Rejected ==
  /\ \/ Publishing /\ record.dirty /\ ~record.current /\ ~CanRebase
     \/ /\ At("read")
        /\ LET given  == BatchOf(queue)
               wanted == ToCreate(item, given)
               made   == EntriesMade(wanted)
               out    == Outcome(item, given, made, OwnersAfter(wanted, made), session.file)
           IN /\ Cardinality(wanted) <= Cardinality(FreeEntries)
              /\ Unidentified(RowsOf(given, item, out))
  /\ Forget
  /\ UNCHANGED <<vaultVars, remote, diskVars, busy, origin, userVars, remotes, faults>>

Next ==
  \/ UserEdits \/ UserDecides \/ OthersEdit
  \/ Start \/ RecoverRead \/ ReadAndWrite \/ CheckFirst \/ ProjectChecked \/ SaveBatch
  \/ Publish \/ ApplyResult \/ ApplyRecovered \/ DeleteReceipt
  \/ \E o \in Ops : BeginMutation(o) \/ SaveMutation(o)
  \/ SaveFails \/ SyncFails \/ AnswerLost \/ WorkerStops \/ Rejected

Spec == Init /\ [][Next]_vars
-----------------------------------------------------------------------------
(* An item is created at most once in the file, whatever fails: of the       *)
(* entries made for an item, the file never holds two (createItemSyncReceipt *)
(* and the transaction of save).                                             *)
Made(file, i) == {e \in Entries : origin[e] = i /\ file.entry[e] # Absent}
NoTwins == \A i \in Items : Cardinality(Made(remote, i)) <= 1

(* A publication never replaces the text of another device that the vault    *)
(* does not know, neither as an item, nor as a conflict, nor as the baseline *)
(* of an item that was edited again (RemotelyChanged, ETag and rebase).      *)
Overwritten == {remote.entry[e].text : e \in {f \in Entries :
                  remote'.entry[f].text # remote.entry[f].text}}
NoUnknownOverwrite ==
  [][~OthersEdit => \A t \in Overwritten \cap unseen : \E i \in Items : item[i].etag = t]_vars

(* A publication never replaces the text of another device that the user has *)
(* not been shown.                                                           *)
NoUnseenOverwrite == [][~OthersEdit => Overwritten \cap unseen = {}]_vars

(* Recovering an old batch never rolls back or clears newer work: a queued    *)
(* item that is no longer what the recovery goes by, or whose mutation the    *)
(* receipt does not confirm, keeps what the user made of it and stays queued  *)
(* ("it must not roll back or clear newer queued work outside it",            *)
(* keepass-durable-sync.ts:122).                                              *)
RecoveryKeepsEdits ==
  [][ApplyRecovered => \A i \in Items :
       /\ queue[i] # 0 /\ item[i] # NoItem
       /\ item[i] # RecoveredFrom(i) \/ i \in DOMAIN sync.rows \ Committed(receipt.rows)
       => \/ /\ item'[i].text = item[i].text /\ item'[i].bin = item[i].bin
             /\ queue'[i] = queue[i]
          \/ item[i].bin /\ item'[i] = NoItem]_vars

(* An edit is never forgotten: what the vault holds and the file does not is *)
(* queued or in conflict.                                                    *)
EditedSince(it) == it.etag \notin {0, it.text}
EditsTracked ==
  \A i \in Items :
    item[i] # NoItem /\ ~item[i].bin
      /\ (item[i].entry = 0 \/ EditedSince(item[i]))
      => queue[i] # 0 \/ conflict[i] # NoClash

(* A group operation with a receipt has had its effect: the group is in the  *)
(* working copy ("Reopen must not discard a native mutation whose checkpoint *)
(* failed", keepass-command-runtime.ts:230).                                 *)
ReceiptHasEffect == receipts \subseteq record.working.groups

(* A queued edit is not replaced by the file's copy unless a conflict says so. *)
EditsSurvive ==
  [][ApplyResult => \A i \in Items :
       queue[i] # 0 /\ ~item[i].bin /\ EditedSince(item[i]) /\ item'[i].text # item[i].text
         => conflict'[i] # NoClash]_vars
=============================================================================
