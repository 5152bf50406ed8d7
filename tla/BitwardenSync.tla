---------------------------- MODULE BitwardenSync ----------------------------
(* Durable synchronization of one Bitwarden account: local edits, the        *)
(* mutation queue and the receipts of the encrypted vault, the coordinator   *)
(* that prepares, marks, commits and clears receipts, the provider that      *)
(* recovers lost answers and writes Ciphers, and the merge of its result.    *)
(* Items are logins, one per Cipher. The worker may stop at any step, an     *)
(* answer may be lost, and the user and other devices act at any time.       *)
EXTENDS Naturals, FiniteSets

CONSTANTS
  LocalItems,  \* names of items created in this browser
  Ciphers,     \* Cipher names; the item decoded from a new Cipher has its name
  NoCipher,    \* no reference to a Cipher
  Held,        \* Ciphers that exist at first, synchronized
  MaxIds,      \* bound on mutation ids
  MaxEdits,    \* bound on actions of the user
  MaxRemote,   \* bound on actions of other devices
  MaxFaults,   \* bound on stops of the worker and on lost answers of writes
  Partial      \* may a synchronization leave queued mutations for later?

ASSUME NamesAssumption ==
  /\ LocalItems \cap Ciphers = {} /\ NoCipher \notin LocalItems \cup Ciphers
  /\ Held \subseteq Ciphers /\ IsFiniteSet(LocalItems \cup Ciphers)
ASSUME BoundsAssumption ==
  /\ MaxIds \in Nat /\ MaxEdits \in Nat /\ MaxRemote \in Nat /\ MaxFaults \in Nat
  /\ Partial \in BOOLEAN

VARIABLES
  local,      \* VaultState.items
  queue,      \* VaultState.mutationQueue, at most one entry per item
  receipt,    \* VaultState.providerMutationReceipts, by mutation id
  conflicts,  \* VaultState.providerConflicts
  remote,     \* the Ciphers on the server
  run,        \* memory of the running synchronization, lost when it stops
  nextId,     \* next mutation id
  now,        \* clock that stamps local and remote writes
  edits, others, faults, \* actions of the user, of other devices, and faults
  sent,       \* creates and deletes that took effect as what their receipt
              \* announces and are not settled
  reported    \* remote contents that a conflict has shown to the user

vault == <<local, queue, receipt, conflicts>>
ghosts == <<sent, reported>>
vars  == <<vault, remote, run, nextId, now, edits, others, faults, ghosts>>

Items == LocalItems \cup Ciphers
Ids   == 1..MaxIds
Verbs == {"create", "update", "delete"}

\* An item: its content (the time it was written), updatedAt, the Cipher it
\* refers to and the revision of that reference. basis is the content of the
\* remote version that the item, or a decision of the user, has taken in.
NoItem == [status |-> "none", text |-> 0, at |-> 0, cipher |-> NoCipher,
           rev |-> 0, basis |-> 0]
ItemRecords ==
  [status : {"none", "live", "trash"}, text : Nat, at : Nat,
   cipher : Ciphers \cup {NoCipher}, rev : Nat, basis : Nat]

NoEntry   == [id |-> 0, verb |-> "none"]
Entries   == [id : Ids, verb : Verbs]
NoReceipt == [stage |-> "none", item |-> NoCipher, verb |-> "none", text |-> 0,
              cipher |-> NoCipher]
Receipts ==
  [stage : {"prepared", "attempted", "committed"}, item : Items, verb : Verbs,
   text : Nat, cipher : Ciphers \cup {NoCipher}]

\* conflict.remote has an id of its own, under which use-remote stores it.
Conflicts == [item : Items, remote : ItemRecords, id : Items]
NoCopy    == [status |-> "none", text |-> 0, rev |-> 0, origin |-> NoCipher]
Copies ==
  [status : {"none", "live", "trash", "gone"}, text : Nat, rev : Nat,
   origin : Items \cup {NoCipher}]

\* acks: item -> acknowledgement; todo: items with a write left to do; item,
\* step, known: the write at hand and the revision it expects to replace.
NoAck == [id |-> 0, verb |-> "none", cipher |-> NoCipher, wrote |-> 0,
          followUp |-> FALSE]
Idle ==
  [phase |-> "idle", snap |-> [i \in Items |-> NoItem],
   batch |-> [i \in Items |-> NoEntry], deferred |-> {},
   recs |-> [d \in Ids |-> NoReceipt], seen |-> [c \in Ciphers |-> NoCopy],
   result |-> [i \in Items |-> NoItem], acks |-> [i \in Items |-> NoAck],
   found |-> {}, todo |-> {}, item |-> NoCipher, step |-> "none", known |-> 0]

Live(r) == r.status = "live"
Trash(r) == r.status = "trash"
Present(r) == r.status \in {"live", "trash"}
Bound(r) == r.cipher # NoCipher

TypeOK ==
  /\ local \in [Items -> ItemRecords]
  /\ queue \in [Items -> Entries \cup {NoEntry}]
  /\ receipt \in [Ids -> Receipts \cup {NoReceipt}]
  /\ conflicts \subseteq Conflicts
  /\ remote \in [Ciphers -> Copies]
  /\ run.phase \in {"idle", "read", "ready", "write", "commit", "apply", "clear"}
  /\ run.batch \in [Items -> Entries \cup {NoEntry}]
  /\ run.result \in [Items -> ItemRecords]
  /\ nextId \in 1..(MaxIds + 1)
  /\ sent \subseteq Ids \X {"create", "delete"} /\ reported \subseteq Nat

\* Decoding of a Cipher; updatedAt is the revision date.
Decoded(copy, c) ==
  IF copy.status \in {"none", "gone"} THEN NoItem
  ELSE [status |-> copy.status, text |-> copy.text, at |-> copy.rev,
        cipher |-> c, rev |-> copy.rev, basis |-> copy.text]
ItemChanged(r) == Trash(r) \/ r.at # r.rev

Init ==
  /\ remote = [c \in Ciphers |->
       IF c \in Held THEN [status |-> "live", text |-> 1, rev |-> 1, origin |-> NoCipher]
       ELSE NoCopy]
  /\ local = [i \in Items |-> IF i \in Held THEN Decoded(remote[i], i) ELSE NoItem]
  /\ queue = [i \in Items |-> NoEntry]
  /\ receipt = [d \in Ids |-> NoReceipt]
  /\ conflicts = {}
  /\ run = Idle
  /\ nextId = 1 /\ now = 1 /\ edits = 0 /\ others = 0 /\ faults = 0
  /\ sent = {} /\ reported = {}
-----------------------------------------------------------------------------
(* Edits of the user. Each is one exclusive transaction on the vault.        *)

\* A mutant: a new entry gets no id of its own.
BugNoNewId(old, item, verb) == [id |-> old.id, verb |-> verb]

\* queueProviderMutation: an entry keeps its id when its operation changes.
Queued(old, item, verb) ==
  IF verb = "delete" /\ old.verb = "create" /\ ~Bound(item) THEN NoEntry
  ELSE [id |-> IF old = NoEntry THEN nextId ELSE old.id,
        verb |-> IF verb = "delete" THEN verb
                 ELSE IF Bound(item) THEN "update" ELSE "create"]
Enqueue(i, item, verb) ==
  /\ queue' = [queue EXCEPT ![i] = Queued(@, item, verb)]
  /\ nextId' = IF queue[i] = NoEntry THEN nextId + 1 ELSE nextId

UserActs ==
  /\ edits < MaxEdits /\ nextId \in Ids
  /\ edits' = edits + 1
  /\ now' = now + 1

Put(i, item) == local' = [local EXCEPT ![i] = item]

\* upsertItem
Create(i) ==
  /\ UserActs /\ i \in LocalItems /\ local[i] = NoItem
  /\ Put(i, [NoItem EXCEPT !.status = "live", !.text = now', !.at = now'])
  /\ Enqueue(i, local'[i], "create")
  /\ UNCHANGED <<receipt, conflicts, remote, run, others, faults, ghosts>>

Edit(i) ==
  /\ UserActs /\ Live(local[i])
  /\ Put(i, [local[i] EXCEPT !.text = now', !.at = now'])
  /\ Enqueue(i, local[i], "update")
  /\ UNCHANGED <<receipt, conflicts, remote, run, others, faults, ghosts>>

\* deleteItem does not ask whether the item is in the trash already.
Delete(i) ==
  /\ UserActs /\ Present(local[i])
  /\ Put(i, [local[i] EXCEPT !.status = "trash", !.at = now'])
  /\ Enqueue(i, local[i], "delete")
  /\ UNCHANGED <<receipt, conflicts, remote, run, others, faults, ghosts>>

\* A pending delete that never reached the network is withdrawn, with its
\* receipt; one that may have stays queued until its outcome is known.
Unsent(d) == receipt[d] = NoReceipt \/ receipt[d].stage = "prepared"
Restore(i) ==
  /\ UserActs /\ Trash(local[i])
  /\ Put(i, [local[i] EXCEPT !.status = "live", !.at = now'])
  /\ IF queue[i].verb # "delete"
     THEN Enqueue(i, local[i], "update") /\ UNCHANGED receipt
     ELSE LET d == queue[i].id
          IN /\ queue' = IF Unsent(d) THEN [queue EXCEPT ![i] = NoEntry] ELSE queue
             /\ receipt' = IF Unsent(d) THEN [receipt EXCEPT ![d] = NoReceipt] ELSE receipt
             /\ UNCHANGED nextId
  /\ UNCHANGED <<conflicts, remote, run, others, faults, ghosts>>

\* resolveProviderConflict: the decision drops the receipts of the item.
Decide(k) ==
  /\ UserActs /\ k \in conflicts
  /\ conflicts' = conflicts \ {k}
  /\ receipt' = [d \in Ids |-> IF receipt[d].item = k.item THEN NoReceipt ELSE receipt[d]]
  /\ sent' = {s \in sent : receipt[s[1]].item # k.item}

KeepLocal(k) ==
  LET kept == [local[k.item] EXCEPT
                 !.cipher = k.remote.cipher, !.rev = k.remote.at, !.basis = k.remote.basis]
  IN /\ Decide(k) /\ Present(local[k.item])
     /\ Put(k.item, kept)
     /\ Enqueue(k.item, kept, IF Trash(kept) THEN "delete" ELSE "update")
     /\ UNCHANGED <<remote, run, others, faults, reported>>

UseRemote(k) ==
  /\ Decide(k)
  /\ local' = [local EXCEPT ![k.item] = NoItem, ![k.id] = k.remote]
  /\ queue' = [queue EXCEPT ![k.item] = NoEntry]
  /\ UNCHANGED <<remote, run, nextId, others, faults, reported>>
-----------------------------------------------------------------------------
(* Other devices of the account.                                             *)
OtherDevice(c) ==
  /\ others < MaxRemote
  /\ others' = others + 1
  /\ now' = now + 1
  /\ \/ /\ remote[c].status = "live"
        /\ \/ remote' = [remote EXCEPT ![c].text = now', ![c].rev = now']
           \/ remote' = [remote EXCEPT ![c].status = "trash", ![c].rev = now']
     \/ /\ remote[c].status = "trash"
        /\ \/ remote' = [remote EXCEPT ![c].status = "live", ![c].rev = now']
           \/ remote' = [remote EXCEPT ![c].status = "gone"]
  /\ UNCHANGED <<vault, run, nextId, edits, faults, ghosts>>
-----------------------------------------------------------------------------
(* BitwardenDurableSyncCoordinator.synchronize up to the provider.           *)
QueuedIds == {queue[i].id : i \in Items} \ {0}

\* The first read: the snapshot, the batch, and the receipts that no queued
\* mutation has any more, which are cleared unless they may have been sent.
Orphan(d) == receipt[d] # NoReceipt /\ d \notin QueuedIds
Read ==
  /\ run.phase = "idle"
  /\ \A d \in Ids : Orphan(d) => receipt[d].stage # "attempted"
  /\ receipt' = [d \in Ids |-> IF Orphan(d) THEN NoReceipt ELSE receipt[d]]
  /\ \E chosen \in (IF Partial THEN SUBSET Items ELSE {Items}) :
       run' = [Idle EXCEPT
         !.phase = "read", !.snap = local, !.recs = receipt',
         !.batch = [i \in Items |-> IF i \in chosen THEN queue[i] ELSE NoEntry],
         !.deferred = {queue[i].id : i \in Items \ chosen} \ {0}]
  /\ UNCHANGED <<local, queue, conflicts, remote, nextId, now, edits, others, faults, ghosts>>

Batched      == {i \in Items : run.batch[i] # NoEntry}
RecordOf(i)  == IF i \in Batched THEN run.recs[run.batch[i].id] ELSE NoReceipt
Agrees(i) ==
  RecordOf(i) # NoReceipt =>
    RecordOf(i).item = i /\ RecordOf(i).verb = run.batch[i].verb
\* A prepared receipt whose content is out of date is cleared and written anew.
NeedsReceipt(i) ==
  \/ RecordOf(i) = NoReceipt
  \/ RecordOf(i).stage = "prepared" /\ RecordOf(i).text # run.snap[i].text
Prepared(i) ==
  [stage |-> "prepared", item |-> i, verb |-> run.batch[i].verb,
   text |-> run.snap[i].text, cipher |-> run.snap[i].cipher]

\* A receipt that contradicts the queue, and an entry without an item, end the
\* synchronization before it writes anything.
Refuse ==
  /\ run.phase = "read"
  /\ \E i \in Batched : ~Agrees(i) \/ run.snap[i] = NoItem
  /\ run' = Idle
  /\ UNCHANGED <<vault, remote, nextId, now, edits, others, faults, ghosts>>

Prepare ==
  LET needed == {i \in Batched : NeedsReceipt(i)}
  IN /\ run.phase = "read"
     /\ \A i \in Batched : Agrees(i) /\ run.snap[i] # NoItem
     /\ receipt' = [d \in Ids |->
          IF \E i \in needed : run.batch[i].id = d
          THEN Prepared(CHOOSE i \in needed : run.batch[i].id = d) ELSE receipt[d]]
     /\ LET recs == IF needed = {} THEN run.recs ELSE receipt'
        IN run' = IF \A i \in Batched : recs[run.batch[i].id] # NoReceipt
                  THEN [run EXCEPT !.phase = "ready", !.recs = recs] ELSE Idle
     /\ UNCHANGED <<local, queue, conflicts, remote, nextId, now, edits, others, faults, ghosts>>
-----------------------------------------------------------------------------
(* BitwardenProvider.sync: what the read of the account settles by itself.   *)
(* The operators take the Ciphers seen, since run.seen is not yet assigned.  *)
Committed(i) == RecordOf(i).stage = "committed"
Attempted(i) == RecordOf(i).stage = "attempted"
Pending(i)   == i \in Batched /\ ~Committed(i)
Shown(copy)  == copy.status \in {"live", "trash"}
Claimed      == {run.snap[i].cipher : i \in Items}

\* Ciphers that answer an attempted create.
Matches(i, seen) ==
  {c \in Ciphers \ Claimed : Shown(seen[c]) /\ seen[c].text = RecordOf(i).text}

\* A receipt whose effect the read proves.
Proven(i, seen) ==
  LET r == RecordOf(i)
      bound == r.cipher # NoCipher
  IN \/ /\ Committed(i)
        /\ r.verb # "delete" => Shown(seen[r.cipher])
     \/ /\ Attempted(i) /\ r.verb = "delete"
        /\ bound /\ (Shown(seen[r.cipher]) => seen[r.cipher].status = "trash")
     \/ /\ Attempted(i) /\ r.verb = "update"
        /\ bound /\ Shown(seen[r.cipher]) /\ seen[r.cipher].text = r.text
     \/ /\ Attempted(i) /\ r.verb = "create"
        /\ Cardinality(Matches(i, seen)) = 1

ProvenCipher(i, seen) ==
  IF Attempted(i) /\ RecordOf(i).verb = "create"
  THEN CHOOSE c \in Matches(i, seen) : TRUE ELSE RecordOf(i).cipher

\* A mutant: what changed since the receipt is taken as acknowledged.
BugNoFollowUp(i) == FALSE

\* The item went on changing after the receipt was written.
FollowUp(i) ==
  /\ RecordOf(i) # NoReceipt
  /\ \/ RecordOf(i).verb = "delete" /\ Live(run.snap[i])
     \/ RecordOf(i).text # run.snap[i].text
Acknowledge(i, verb, c, wrote) ==
  [id |-> run.batch[i].id, verb |-> verb, cipher |-> c,
   wrote |-> IF verb = "delete" THEN 0 ELSE wrote, followUp |-> FollowUp(i)]

\* Mutants: an unsettled create, an unsettled delete, is sent again.
BugRepeatCreate(i, seen) == ~Proven(i, seen) /\ Committed(i)
BugRepeatDelete(i, seen) == FALSE

\* A create or a committed write whose outcome cannot be found is not repeated;
\* nor is a delete whose Cipher is live.
Blocked(i, seen) ==
  /\ ~Proven(i, seen)
  /\ Committed(i) \/ (Attempted(i) /\ RecordOf(i).verb = "create")
Uncertain(i, seen) ==
  Attempted(i) /\ RecordOf(i).verb = "delete" /\ ~Proven(i, seen)

\* A mutant: the reference that a receipt proved is left out of the merge.
BugForgetReference(i, seen) == run.snap[i]

\* The local item as the merge sees it: with the reference a receipt proved.
Scoped(i, seen) ==
  IF ~Proven(i, seen) THEN run.snap[i]
  ELSE LET c == ProvenCipher(i, seen)
           \* a delete is recovered without the content that is in the trash
           rev == IF Attempted(i) /\ RecordOf(i).verb = "delete" THEN 0
                  ELSE Decoded(seen[c], c).rev
       IN [run.snap[i] EXCEPT !.cipher = c, !.rev = rev]

Clash(i, seen) ==
  LET r == Scoped(i, seen)
  IN seen[r.cipher].rev # r.rev /\ seen[r.cipher].text # r.text
Open(i, seen) ==
  ~Proven(i, seen) /\ ~Blocked(i, seen) /\ ItemChanged(Scoped(i, seen))
Found(i, seen) == Bound(Scoped(i, seen)) /\ Shown(seen[Scoped(i, seen).cipher])

\* Items that are written: bound ones that changed, and new ones.
Writes(seen) ==
  {i \in Items : /\ Pending(i) /\ ~Proven(i, seen) /\ ~Blocked(i, seen)
                 /\ \/ /\ Found(i, seen) /\ ~Uncertain(i, seen)
                       /\ Open(i, seen) /\ ~Clash(i, seen)
                    \/ Live(run.snap[i]) /\ ~Bound(run.snap[i])}

\* The item in the result when nothing is written for it.
Settled(i, seen) ==
  LET r == Scoped(i, seen)
  IN IF ~Present(r) THEN
       IF i \in Ciphers /\ ~\E j \in Items : Scoped(j, seen).cipher = i
       THEN Decoded(seen[i], i) ELSE NoItem
     ELSE IF ~Bound(r) THEN IF Live(r) \/ Pending(i) THEN r ELSE NoItem
     ELSE IF Uncertain(i, seen) THEN r
     ELSE IF ~Found(i, seen) THEN IF ItemChanged(r) THEN r ELSE NoItem
     ELSE IF Open(i, seen) THEN
       IF Pending(i) THEN r ELSE [r EXCEPT !.rev = seen[r.cipher].rev]
     ELSE Decoded(seen[r.cipher], r.cipher)

\* A changed item whose Cipher is gone: a pending delete has nothing to do.
Vanished(i, seen) ==
  LET r == Scoped(i, seen)
  IN Present(r) /\ Bound(r) /\ ~Found(i, seen) /\ ~Uncertain(i, seen) /\ ItemChanged(r)
Moot(i, seen) == Vanished(i, seen) /\ Trash(run.snap[i]) /\ Pending(i)

Against(i, seen) ==
  LET c == Scoped(i, seen).cipher
  IN IF c # NoCipher /\ Shown(seen[c])
     THEN [item |-> i, remote |-> Decoded(seen[c], c), id |-> c]
     ELSE [item |-> i, remote |-> NoItem, id |-> i]
Disputed(seen) ==
  {i \in Items :
     \/ Blocked(i, seen)
     \/ Uncertain(i, seen)
     \/ Vanished(i, seen) /\ ~Moot(i, seen)
     \/ /\ Found(i, seen) /\ Open(i, seen) /\ Clash(i, seen)
        /\ Pending(i) \/ run.snap[i].rev # 0}

\* A committed receipt acknowledges its entry whether the read finds its Cipher
\* or not, and uniqueAcknowledgements keeps the coordinator's copy of that
\* acknowledgement, which says nothing of what changed since.
Recovered(i, seen) ==
  LET verb == run.batch[i].verb
  IN IF Committed(i)
     THEN [Acknowledge(i, verb, RecordOf(i).cipher, RecordOf(i).text) EXCEPT !.followUp = FALSE]
     ELSE IF Proven(i, seen)
     THEN Acknowledge(i, verb, ProvenCipher(i, seen), RecordOf(i).text)
     ELSE IF Moot(i, seen) THEN Acknowledge(i, "delete", run.snap[i].cipher, 0) ELSE NoAck

Fetch ==
  LET seen == remote
  IN /\ run.phase = "ready"
     /\ run' = [run EXCEPT
          !.phase = "write", !.seen = seen,
          !.acks = [i \in Items |-> Recovered(i, seen)],
          !.result = [i \in Items |-> Settled(i, seen)],
          !.found = {Against(i, seen) : i \in Disputed(seen)},
          !.todo = Writes(seen)]
     /\ UNCHANGED <<vault, remote, nextId, now, edits, others, faults, ghosts>>
-----------------------------------------------------------------------------
(* The writes. Each is marked in its receipt before it is sent; its answer   *)
(* may be lost, and an error leaves the item as it is, with a conflict.      *)
Base == run.result[run.item]
At(step) == run.phase = "write" /\ run.step = step

\* Bound items first, then new ones.
Take ==
  /\ At("none")
  /\ \E i \in run.todo :
       /\ ~Bound(run.result[i]) => \A j \in run.todo : ~Bound(run.result[j])
       /\ LET c == run.result[i].cipher
              revive == Live(run.result[i]) /\ Bound(run.result[i])
                        /\ run.seen[c].status = "trash"
          IN run' = [run EXCEPT
               !.item = i, !.step = IF revive THEN "revive" ELSE "mark",
               !.known = IF c = NoCipher THEN 0 ELSE run.seen[c].rev,
               !.todo = @ \ {i}]
  /\ UNCHANGED <<vault, remote, nextId, now, edits, others, faults, ghosts>>

GiveUp ==
  run' = [run EXCEPT
    !.item = NoCipher, !.step = "none", !.found = @ \cup {Against(run.item, run.seen)}]
\* The request is refused or never arrives; or it takes effect and its answer
\* is lost.
Failed == GiveUp /\ UNCHANGED faults
Lost   == GiveUp /\ faults < MaxFaults /\ faults' = faults + 1
Given(next) == run' = [run EXCEPT !.step = next] /\ UNCHANGED faults
Written(verb, c, copy) ==
  /\ run' = [run EXCEPT
       !.item = NoCipher, !.step = "none", !.result[run.item] = Decoded(copy, c),
       !.acks[run.item] = Acknowledge(run.item, verb, c, copy.text)]
  /\ UNCHANGED faults

\* A live item over a trashed Cipher: the Cipher is restored first.
Revive ==
  LET c == Base.cipher
  IN /\ At("revive")
     /\ \/ /\ remote[c].status = "trash"
           /\ now' = now + 1
           /\ remote' = [remote EXCEPT ![c].status = "live", ![c].rev = now']
           /\ \/ run' = [run EXCEPT !.step = "mark", !.known = now'] /\ UNCHANGED faults
              \/ Lost
        \/ Failed /\ UNCHANGED <<remote, now>>
     /\ UNCHANGED <<vault, nextId, edits, others, ghosts>>

\* markProviderMutationReceiptsAttempted: no receipt, no request.
Marked(r) == IF r.stage = "committed" THEN r ELSE [r EXCEPT !.stage = "attempted"]
Mark ==
  LET d == run.batch[run.item].id
  IN /\ At("mark")
     /\ \/ /\ receipt[d] = NoReceipt
           /\ Failed
           /\ UNCHANGED receipt
        \/ /\ receipt[d] # NoReceipt
           /\ receipt' = [receipt EXCEPT ![d] = Marked(@)]
           /\ Given(IF ~Bound(Base) THEN "post"
                    ELSE IF Live(Base) THEN "put"
                    ELSE IF run.seen[Base.cipher].status = "trash" THEN "confirmed"
                    ELSE "trash")
     /\ UNCHANGED <<local, queue, conflicts, remote, nextId, now, edits, others, ghosts>>

\* The server takes an update only over the revision it names, and only of a
\* live Cipher.
SendPut ==
  LET c == Base.cipher
      copy == [remote[c] EXCEPT !.text = Base.text, !.rev = now + 1]
  IN /\ At("put")
     /\ \/ /\ remote[c].status = "live" /\ remote[c].rev = run.known
           /\ remote' = [remote EXCEPT ![c] = copy]
           /\ now' = now + 1
           /\ Written(run.batch[run.item].verb, c, copy) \/ Lost
        \/ Failed /\ UNCHANGED <<remote, now>>
     /\ UNCHANGED <<vault, nextId, edits, others, ghosts>>

\* A write whose receipt a decision of the user has dropped is not counted, nor
\* is one that its receipt does not announce: an entry to update an item that
\* was put into the trash by use-remote deletes its Cipher.
Unsettled(d, verb) == IF receipt[d].verb = verb THEN {<<d, verb>>} ELSE {}

SendPost ==
  LET d == run.batch[run.item].id
  IN /\ At("post")
     /\ \/ \E c \in Ciphers :
             LET copy == [status |-> "live", text |-> Base.text, rev |-> now + 1,
                          origin |-> run.item]
             IN /\ remote[c] = NoCopy
                /\ remote' = [remote EXCEPT ![c] = copy]
                /\ now' = now + 1
                /\ sent' = sent \cup Unsettled(d, "create")
                /\ Written(run.batch[run.item].verb, c, copy) \/ Lost
        \/ Failed /\ UNCHANGED <<remote, now, sent>>
     /\ UNCHANGED <<vault, nextId, edits, others, reported>>

\* The recycle bin has no revision precondition.
SendTrash ==
  LET c == Base.cipher
      d == run.batch[run.item].id
  IN /\ At("trash")
     /\ \/ /\ remote[c].status = "live"
           /\ remote' = [remote EXCEPT ![c].status = "trash", ![c].rev = now + 1]
           /\ now' = now + 1
           /\ sent' = sent \cup Unsettled(d, "delete")
           /\ Given("confirm") \/ Lost
        \/ /\ Given("confirm") /\ remote[c].status = "trash"
           /\ UNCHANGED <<remote, now, sent>>
        \/ Failed /\ UNCHANGED <<remote, now, sent>>
     /\ UNCHANGED <<vault, nextId, edits, others, reported>>

\* The Cipher is read back: only what is in the recycle bin is acknowledged.
\* A Cipher that was there already is taken as it was read.
Confirm ==
  LET c == Base.cipher
      copy == IF run.step = "confirmed" THEN run.seen[c] ELSE remote[c]
  IN /\ At("confirm") \/ At("confirmed")
     /\ \/ copy.status = "trash" /\ Written("delete", c, copy)
        \/ (copy.status # "trash" \/ run.step = "confirm") /\ Failed
     /\ UNCHANGED <<vault, remote, nextId, now, edits, others, ghosts>>

\* The provider returns its result.
Return ==
  /\ At("none") /\ run.todo = {}
  /\ run' = [run EXCEPT !.phase = "commit"]
  /\ UNCHANGED <<vault, remote, nextId, now, edits, others, faults, ghosts>>
-----------------------------------------------------------------------------
(* The coordinator and the vault take the result in: receipts are committed, *)
(* the result is merged and the receipts are cleared, one transaction each.  *)
Acked     == {i \in Items : run.acks[i] # NoAck}
AckOf(d)  == CHOOSE i \in Acked : run.acks[i].id = d
AckedIds  == {run.acks[i].id : i \in Acked}

Commit ==
  /\ run.phase = "commit"
  /\ IF \A i \in Acked : LET r == receipt[run.acks[i].id]
                        IN r.item = i /\ r.verb = run.acks[i].verb
     THEN /\ receipt' = [d \in Ids |->
               IF d \in AckedIds
               THEN [receipt[d] EXCEPT !.stage = "committed",
                                       !.cipher = run.acks[AckOf(d)].cipher]
               ELSE receipt[d]]
          /\ run' = [run EXCEPT !.phase = "apply"]
     ELSE run' = Idle /\ UNCHANGED receipt
  /\ UNCHANGED <<local, queue, conflicts, remote, nextId, now, edits, others, faults, ghosts>>

\* mergeProviderSyncItems, for one item: what was read at the start, what the
\* vault holds now and what the provider returned.
SameItem(a, b) == [a EXCEPT !.basis = 0] = [b EXCEPT !.basis = 0]
LocallyChanged(i) == ~SameItem(local[i], run.snap[i])
RemoteChanged(i)  == ~SameItem(run.result[i], run.snap[i])
WithReference(i) ==
  LET incoming == run.result[i]
  IN [local[i] EXCEPT
       !.cipher = IF Bound(incoming) THEN incoming.cipher ELSE run.acks[i].cipher,
       !.rev = IF incoming.rev # 0 THEN incoming.rev ELSE @,
       !.basis = IF run.acks[i].wrote # 0 THEN run.acks[i].wrote ELSE @]

\* How the merge settles an item.
Verdict(i) ==
  LET before == run.snap[i]
      mine == local[i]
      incoming == run.result[i]
  IN IF before = NoItem
     THEN IF mine = NoItem THEN "theirs"
          ELSE IF incoming # NoItem /\ ~SameItem(mine, incoming) THEN "conflict" ELSE "mine"
     ELSE IF Present(mine) /\ run.acks[i] # NoAck
             /\ (run.acks[i].followUp \/ LocallyChanged(i)) THEN "reference"
     ELSE IF Trash(mine) /\ incoming = NoItem THEN "removed"
     ELSE IF Present(mine) /\ ~Bound(before) /\ Bound(incoming) THEN "reference"
     ELSE IF Live(mine) /\ incoming = NoItem THEN "conflict"
     ELSE IF ~LocallyChanged(i) THEN "theirs"
     ELSE IF RemoteChanged(i) /\ ~SameItem(mine, incoming) THEN "conflict" ELSE "mine"
Merged(i) ==
  IF Verdict(i) = "theirs" THEN run.result[i]
  ELSE IF Verdict(i) = "reference" THEN WithReference(i)
  ELSE IF Verdict(i) = "removed" THEN NoItem ELSE local[i]

Disagreements ==
  run.found \cup {[item |-> i, remote |-> run.result[i], id |-> i] :
                  i \in {j \in Items : Verdict(j) = "conflict"}}
InConflict(i)  == \E k \in Disagreements : k.item = i
Changed(i)     == LocallyChanged(i) /\ Verdict(i) # "removed"

\* An acknowledgement settles the entry it names, if the entry is neither in
\* conflict nor deferred; it must name the operation that is queued.
Settles(i) ==
  /\ queue[i].id \in AckedIds
  /\ ~InConflict(i) /\ queue[i].id \notin run.deferred
Contradicted(i) ==
  /\ Settles(i)
  /\ \/ AckOf(queue[i].id) # i \/ run.acks[i].verb # queue[i].verb
     \/ /\ run.acks[i].followUp \/ Changed(i)
        /\ ~Bound(Merged(i)) \/ Merged(i).cipher # run.acks[i].cipher

\* The operation of an entry that stays.
VerbOf(i) ==
  IF Trash(Merged(i)) /\ Bound(Merged(i)) THEN "delete"
  ELSE IF queue[i].verb = "create" /\ Bound(Merged(i)) THEN "update"
  ELSE queue[i].verb
NextEntry(i) ==
  IF queue[i] = NoEntry \/ InConflict(i) \/ queue[i].id \in run.deferred THEN queue[i]
  ELSE IF Settles(i)
  THEN IF run.acks[i].followUp \/ Changed(i)
       THEN [queue[i] EXCEPT !.verb = IF Trash(Merged(i)) THEN "delete" ELSE "update"]
       ELSE NoEntry
  ELSE IF ~Changed(i) THEN NoEntry
  ELSE [queue[i] EXCEPT !.verb = VerbOf(i)]

\* A tombstone that got its reference while its entry is gone is queued again.
Requeued ==
  {i \in Items : NextEntry(i) = NoEntry /\ Trash(Merged(i)) /\ Bound(Merged(i)) /\ Changed(i)}

Applicable ==
  /\ \A i \in Items : ~Contradicted(i)
  /\ AckedIds \subseteq {queue[i].id : i \in {j \in Items : Settles(j)}}

Apply ==
  /\ run.phase = "apply"
  /\ IF Applicable
     THEN /\ nextId + Cardinality(Requeued) <= MaxIds + 1
          /\ local' = [i \in Items |-> Merged(i)]
          /\ conflicts' = Disagreements
          /\ \E fresh \in [Requeued -> nextId..(nextId + Cardinality(Requeued) - 1)] :
               /\ \A i, j \in Requeued : i # j => fresh[i] # fresh[j]
               /\ queue' = [i \in Items |->
                    IF i \in Requeued THEN [id |-> fresh[i], verb |-> "delete"]
                    ELSE NextEntry(i)]
          /\ nextId' = nextId + Cardinality(Requeued)
          /\ sent' = {s \in sent : s[1] \notin AckedIds}
          /\ reported' = reported \cup {k.remote.text : k \in Disagreements}
          /\ run' = [run EXCEPT !.phase = "clear"]
     ELSE run' = Idle /\ UNCHANGED <<local, conflicts, queue, nextId, ghosts>>
  /\ UNCHANGED <<receipt, remote, now, edits, others, faults>>

Clear ==
  /\ run.phase = "clear"
  /\ receipt' = [d \in Ids |-> IF d \in AckedIds THEN NoReceipt ELSE receipt[d]]
  /\ run' = Idle
  /\ UNCHANGED <<local, queue, conflicts, remote, nextId, now, edits, others, faults, ghosts>>

\* The worker stops, the vault is locked, the synchronization is aborted or a
\* call throws: what is not in the vault is lost.
Stop ==
  /\ run # Idle /\ faults < MaxFaults
  /\ faults' = faults + 1
  /\ run' = Idle
  /\ UNCHANGED <<vault, remote, nextId, now, edits, others, ghosts>>

User ==
  \/ \E i \in Items : Create(i) \/ Edit(i) \/ Delete(i) \/ Restore(i)
  \/ \E k \in conflicts : KeepLocal(k) \/ UseRemote(k)
Sync ==
  \/ Read \/ Refuse \/ Prepare \/ Fetch
  \/ Take \/ Revive \/ Mark \/ SendPut \/ SendPost \/ SendTrash \/ Confirm \/ Return
  \/ Commit \/ Apply \/ Clear
Next == User \/ (\E c \in Ciphers : OtherDevice(c)) \/ Sync \/ Stop

Spec == Init /\ [][Next]_vars
-----------------------------------------------------------------------------
(* A create or a soft delete that took effect on the server is not sent      *)
(* again, whatever answers are lost and wherever the worker stops, until its  *)
(* outcome is taken in or the user decides.                                  *)
NoRepeatedWrite ==
  [][/\ run.step = "post" /\ remote' # remote /\ run' # run
       => <<run.batch[run.item].id, "create">> \notin sent
     /\ run.step = "trash" /\ remote' # remote /\ run' # run
       => <<run.batch[run.item].id, "delete">> \notin sent]_vars

(* An update replaces a version of the Cipher only if the item it comes from *)
(* has taken that version in, the user decided over it, or a conflict has    *)
(* shown it: an edit made on another device is never overwritten unseen.     *)
NoSilentOverwrite ==
  [][run.step = "put" /\ remote' # remote /\ run' # run =>
       remote[Base.cipher].text \in {Base.basis, Base.text} \cup reported]_vars

(* An item that nobody here touched during a synchronization, with nothing   *)
(* queued and no conflict, shows afterwards what the account holds.          *)
QuietItemsAreCurrent ==
  run.phase = "clear" =>
    \A i \in Items :
      LET mine == local[i]
          copy == run.seen[mine.cipher]
      IN /\ Bound(mine) /\ Shown(copy)
         /\ mine.text = run.snap[i].text /\ mine.status = run.snap[i].status
         /\ queue[i] = NoEntry /\ run.batch[i] = NoEntry
         /\ ~\E k \in conflicts : k.item = i
         => mine.text = copy.text /\ mine.status = copy.status

(* An item with content that no Cipher is known to hold is queued or in      *)
(* conflict.                                                                 *)
Tracked(i) ==
  Live(local[i]) /\ local[i].text # local[i].basis =>
    queue[i] # NoEntry \/ \E k \in conflicts : k.item = i
EditsTracked == \A i \in Items : Tracked(i)

(* As long as the content of a live item that counts as changed has not been *)
(* acknowledged, synchronization does not replace it, and does not drop its  *)
(* entry from the queue when it was given the entry or the item was edited   *)
(* since. An entry whose receipt an earlier round committed is excepted: see *)
(* InterruptionKeepsEdits.                                                   *)
Unacknowledged(i) ==
  Live(local[i]) /\ ItemChanged(local[i]) /\ local[i].text # run.acks[i].wrote
Kept(i) ==
  /\ local'[i].text = local[i].text
  /\ queue[i] # NoEntry /\ (run.batch[i] # NoEntry \/ local[i].text # run.snap[i].text)
       => queue'[i] # NoEntry
SyncKeepsEdits ==
  [][run' # run => \A i \in Items : Unacknowledged(i) /\ ~Committed(i) => Kept(i)]_vars

(* The same without the exception, which the code does not keep: a round     *)
(* that ended between commit and merge is taken up by one that acknowledges  *)
(* the entry as it was sent. The entry of the edit made since is dropped,    *)
(* and after an update the uploaded content replaces the edit; after a       *)
(* create the text stays in the item, unsent.                                *)
InterruptionKeepsEdits ==
  [][run' # run => \A i \in Items : Unacknowledged(i) => Kept(i)]_vars

(* An entry that was queued after synchronization took its snapshot stays,   *)
(* whatever the account answered.                                            *)
LaterEntriesStay ==
  [][run' # run => \A i \in Items :
       queue[i] # NoEntry /\ run.batch[i] = NoEntry /\ Live(local[i])
         => queue'[i] # NoEntry]_vars

(* Synchronization forgets the tombstone of an item that was created here    *)
(* only when no Cipher created from it is live.                              *)
TombstonesOutliveCiphers ==
  [][run' # run => \A i \in LocalItems : Trash(local[i]) /\ local'[i] = NoItem =>
       \A c \in Ciphers : remote[c].origin = i => remote[c].status # "live"]_vars

(* A synchronization finds no receipt that contradicts the queue.            *)
ReceiptsMatchQueue ==
  run.phase = "read" => \A i \in Batched : Agrees(i)

(* Synchronization never makes two items of the vault stand for one Cipher.  *)
OneItemPerCipher ==
  \A i, j \in Items : Bound(local[i]) /\ local[i].cipher = local[j].cipher => i = j
SyncMakesNoTwins == [][run' # run /\ OneItemPerCipher => OneItemPerCipher']_vars
=============================================================================
