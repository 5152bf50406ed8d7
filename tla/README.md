# Formal model of Monica for Extension

TLA+ specifications of the parts of Monica for Extension (a Manifest V3 password
manager that keeps several password sources in one encrypted vault) where order,
failure and concurrency decide whether a user's data is right. The modules are
translated from the TypeScript under `src/src/`; TLC checks them on small
instances, and TLAPS proves the main results of every module for every
instance. Paths of source files below are relative to
`src/src/`, and a file named without its directory is the only one of that name.

| Module | Models | Checked | Proved |
| --- | --- | --- | --- |
| `ProviderSync` | `provider-sync-runtime.ts`, `provider-sync-activity.ts`, `provider-operation-queue.ts` and their callers | `ProviderSync.cfg`, `ProviderSyncLiveness.cfg` | `ProviderSyncProofs` |
| `SourceLease` | what the runtime promises about a source, abstractly | as `ImplementsLease` of `ProviderSync.cfg` | `ProviderSyncProofs` |
| `AutomaticSync` | `automatic-sync.ts` | `AutomaticSync.cfg` | `AutomaticSyncProofs` |
| `BitwardenSync` | `bitwarden-durable-sync.ts`, the write path of `bitwarden-provider.ts`, queue, receipts and merge of `secure-vault-service.ts` | `BitwardenSync.cfg`, `BitwardenDeferral.cfg`, `BitwardenLostEdit.cfg` | `BitwardenSyncProofs` |
| `BitwardenReads` | `bitwarden-sync-cache.ts`, the hints of `bitwarden-notifications.ts`, the reading part of `bitwarden-provider.ts` | `BitwardenReads.cfg` | `BitwardenReadsProofs` |
| `KeePassSync` | `keepass-durable-sync.ts`, `keepass-remote-session.ts`, `keepass-remote-rebase.ts`, `keepass-provider.ts` (`sync`), durable mutations of `keepass-runtime.ts` | `KeePassSync.cfg`, `KeePassLostOperation.cfg` | `KeePassSyncProofs` |
| `PasskeyCounter` | `bitwarden-assertion.ts`, `file-assertion.ts`, `ownership-policy.ts`, counters in `secure-vault-service.ts` | `PasskeyCounter.cfg` | `PasskeyCounterProofs` |
| `PasskeyRequest` | `passkey-runtime.ts`, `passkey-journal.ts`, the Passkey part of `content/index.ts` | `PasskeyRequest.cfg` | `PasskeyRequestProofs` |
| `VaultSession` | setup, unlock, lock, protection, persistence, snapshot and grants of `secure-vault-service.ts`; `vault-session.ts`, `vault-device-key.ts`, `locked-autofill.ts` | `VaultSession.cfg` | `VaultSessionProofs` |

Each `MC<module>` instantiates its module for TLC. `PROJECT.json` holds, for
every definition, the lines it stands for; for every property, a slip in the code
that breaks it (the operators whose name begins with `Bug`); and the list of
hazards with the property that watches each.

## 1. Inventory

### State, operations and interaction

The service worker is one JavaScript thread. Everything below interleaves at
`await`, and the worker may be stopped by the browser at any of them; what
survives is the encrypted vault envelope, IndexedDB stores and, until the browser
closes, `chrome.storage.session`.

| Component | State | Operations | What is hard |
| --- | --- | --- | --- |
| Synchronization runtime (`background/provider-sync-runtime.ts`, `-activity.ts`, `provider-operation-queue.ts`) | promise per running source, owner and `AbortController` per source, promise tail per source, paused set, automatic controllers | synchronize, cancel, pause, resume, lock, refresh for a Passkey login, exclusive turn of a transfer or removal | several actors want one source; each decides after an await; late settlement of an aborted operation |
| Scheduler (`background/automatic-sync.ts`) | job per source (due, retry, floor, next poll, pending hint, running), one timer, counter of runs | configure, request, reconnect, complete, remove, stop, drain, end of a run | jobs dropped while their run goes on, missed timers, forgotten hints, starvation |
| Bitwarden durable sync (`providers/bitwarden/bitwarden-durable-sync.ts`, `bitwarden-provider.ts`) | nothing of its own: receipts in the vault, one result in memory | read, prepare receipts, mark attempted, write Ciphers, commit, apply, clear | lost answers, stops between any two steps, another device writing to the account |
| Vault service (`security/secure-vault-service.ts`) | items, `mutationQueue`, `providerMutationReceipts`, `providerConflicts`, in one encrypted envelope | item commands, conflict decisions, receipt transactions, `applyProviderSync` | user actions between the adapter's snapshot and the merge |
| Vault session and envelope (`security/vault-session.ts`, `vault-storage.ts`, `locked-autofill.ts`) | session id and expiry, envelope with a revision, encrypted candidate cache | unlock, lock, expire, restore, rewrite | a write that races a lock; a stale cache; an interrupted restore |
| Bitwarden reads (`bitwarden-sync-cache.ts`, `bitwarden-notifications.ts`) | snapshot per account with the revision it stands for | full read, check, read of named Ciphers, commit of a snapshot | a revision that acknowledges a change nobody read |
| KeePass (`background/keepass-runtime.ts`, `providers/keepass/keepass-durable-sync.ts`, `keepass-remote-session.ts`) | open databases, mutation queue and pending-persistence table, working copy, item-sync receipt | exclusive mutation, publish by ETag, rebase, recover | four stores written one after the other; a queue deleted while tasks wait |
| MDBX (`background/mdbx-*.ts`, `providers/mdbx2/`) | handles, restore and move journals; the store itself is in the native host | open, synchronize, restore, move | journals replayed after a restart |
| WebDAV (`providers/webdav/`) | last file name, ETag, revision per item | three-way comparison, snapshot upload | two devices between the check and the `PUT` |
| Passkeys (`background/passkey-runtime.ts`, `passkey-journal.ts`) | pending requests, prepared and committed completion receipts | accept, sign, complete, cancel, expire, reconcile | a restart between the signature and its receipt |
| Save candidates, autofill, attachments, transfers, password projects, nearby sync | candidates and journals of their own | see `docs/architecture/background-runtime.md` | expiry and navigation; multi-step writes over several sources |

How they meet: an item command changes the vault and queues a mutation in one
transaction, then asks the scheduler for a run. The scheduler starts a
synchronization, unless the source is busy. The runtime queues it, reserves the source, and calls
the adapter with a snapshot of the vault; the adapter talks to the server and
returns items, conflicts and acknowledgements; the vault merges these with
whatever the user has done since. Locks, pauses, logouts and transfers cut in.

### What makes each component correct

- Runtime: one unaborted owner per source; nobody's entry is removed by someone
  else; what was told to stop is never merged; every request ends.
- Scheduler: slots are counted, work always has a timer, hints are served, the
  server's waits are kept as long as the job is, requests run.
- Bitwarden and vault: a write is not repeated; one Cipher is one item; no edit is
  lost or left unsent; no edit of another device is overwritten unseen; what is
  trashed stays trashed and what is restored comes back.
- Reads: "unchanged" never hides an unread change, a partial reading removes
  nothing, every change is shown in the end, and a locked worker keeps no baseline.
- KeePass: one entry per created item, no text overwritten that the vault never
  read, no newer edit rolled back by a recovery, no receipt without its effect.
- Passkeys: what a page is given is stored, what was cancelled is not; counts
  grow, are stored first and are not used twice.
- Vault session: the stored vault keeps its key; nobody works on a replaced state;
  an ended session does not return; what leaves the vault is still granted.

The hazards, each at its line, are listed in `PROJECT.json` with the property
that covers it, or why none does yet.

## 2. The modules

### ProviderSync

Every operation (automatic or manual synchronization, Passkey refresh, Passkey
login, manager project removal, transfer) is a process that is requested once;
`Kind` and `Targets` are constants. `pc` is the place in the code between two
awaits:

| `pc` | Code |
| --- | --- |
| `queued` → `checking` | `ProviderOperationQueue.runMany`: the tails found (`ahead`) have settled |
| `checking` → `gate` | `getProvider`, then `readPausedSyncProviders` for automatic work (lines 99-105) |
| `working` | reserved, `recoverProvider` under way (106-113) |
| `reading` | snapshot taken, adapter runs (114-136) |
| `applied` | `throwIfAborted`, then the merge (137-139) |
| `failing`, `failed`, `done` | the `catch` and `finally` blocks (140-190) |
| `joined`, `waiting` | `synchronizeProvider` found a running promise (87-90); a login waits likewise |

`Settle` is the whole end of an operation: its tails and its promise are deleted
if they are still its own, its owner is released if it still owns the source.
`AbortAll` aborts every owner and all automatic work and forgets the owners at once,
while the operations settle later; this is what makes a late release possible. It is
not the lock: `VAULT_LOCK` awaits twice between `abortAll` (`vault-runtime.ts:147`) and
`service.lock` (160), and a session that runs out is noticed by an alarm of once a minute
(`events.ts:115-127`), so `EndSession` is a step of its own, comes at any time, and aborts
nobody. Whoever reserves between the two, or works when the session runs out, goes
on; awaited reads of the vault fail while it is locked and succeed after `UnlockVault`.
`StopAutomatic` is `stopAutomaticSync` alone, `AbortLogins` the controllers that
`clearPendingPasskeyRequests` and dismissals fire; a login that still waits for its
source gives up in `ReserveAssert`.
The merge is called in the same turn of the event loop as `throwIfAborted`, so
the check and the merge are one step; what a transaction that waits in the vault's
own queue finds after a lock is the subject of `VaultSession`. For Bitwarden, where
the adapter's wrapper merges, `Apply` stands for everything after the last
`throwIfAborted`. `asked` and `snapshot` (the edits seen) and `told` (the operations
that worked when an abort was called for their source or for everything) only record
history for the properties; `told` is about calls, `aborted` about controllers, and that
the first reach the second is what `AbortsDiscard` needs.

Callers outside the runtime are modelled where they take the queue or the
registry: `passkey-runtime.ts` 160-184 (refresh) and 420-442, 490-493 (login),
`bitwarden-project-removal-runtime.ts` 12-35, `transfer-runtime.ts` 143-152.

### SourceLease

The abstract specification: users take a source one at a time, may merge once
while they hold it, leave, and may be revoked at any moment. `ProviderSync` implements
it under the mapping `Stage`, from `pc` and `aborted` of each owning operation to
the stage of its lease: reserved and not aborted is `holds`, aborted is `revoked`,
and so on. The registry, the tails and the promises have no counterpart; the
refinement says that together they add up to a lease.

### BitwardenSync

One account, one login per Cipher. The content of an item or Cipher is the time
it was written, so that two versions are equal exactly when the code would
compare them equal. `local`, `queue`, `receipt` and `conflicts` are the parts of
`VaultState` that belong to the source; each vault transaction is one action,
because `runExclusive` serialises them. `run` is the memory of the running
synchronization: `Stop` throws it away at any point (worker stopped, vault
locked, synchronization aborted, call failed), and a write may take effect with
its answer lost (`faults` bounds both). `remote` is the server; `OtherDevice`
creates, edits, trashes, restores or purges Ciphers at any time.

The phases follow the coordinator: `Read` (orphaned receipts are cleared),
`Prepare` or `Refuse` (the batch gets receipts, or a receipt contradicts the
queue), `Fetch` (`/sync`, proof of uncertain writes by readback, conflicts), one
`Take`/`Revive`/`Mark`/`SendPut`/`SendPost`/`SendTrash`/`Confirm` sequence per
write, `Return`, `Commit`, `Apply` (the three-way merge with the current vault,
the fate of every queue entry, re-queued deletions) and `Clear`. A receipt that an
earlier round committed acknowledges its entry whatever `/sync` says, and without
telling the merge what changed since (`Recovered`): the coordinator's own copy of
that acknowledgement comes first.

`sent` remembers the creates and soft deletes that took effect as what their receipt
announces and whose outcome was neither taken in nor decided. A write that its receipt
does not announce is not counted (`Unsettled`): an entry to update an item that a
"use remote" decision put into the trash deletes its Cipher.

Abstractions: an item decoded from a new Cipher is named after it, as the codec
derives its id; a `PUT` is accepted only over the last known revision of a Cipher
in the account; a soft delete has no precondition. `Partial` lets a round leave
any queued mutation for later, which stands for the batch limit, single-item
refreshes and read-only refreshes. Other Ciphers are assumed to exist, so that
the guard against an empty account never triggers. "Keep local" takes the item of the
vault, not the conflict's copy of one that is gone; receipts that no entry has any more
are cleared in the step that reads them.

### AutomaticSync

One job per source. Times are the delays that remain; a due timer fires before
time passes further (`Tick`), since delays are long beside the lateness of a
timer. `line` is the order of `dueAt`, as a set of pairs; jobs that came due together
keep the order in which they did. Hints are levels, `none < check < ciphers
< full`, merged as `mergeHints` does. A run whose job was dropped stays in its
slot as stale until it ends. The exponential backoff is any length up to
`MaxBackoff`, which includes every value the code computes. `owed` records the
strongest hint a source was given, for `HintsHonoured`; `wait` what remains of the
wait that the last failed run of a source came back with, whatever becomes of the job, and
`forgotten` the sources whose job was dropped while it lasted, for `ServerWaitKept`
and `RetryAfterHeeded`.

### BitwardenReads

The server is a revision per Cipher and one of the account; `vault` is what is
shown. A notification may be lost or arrive late (`ChannelSpeaks` names any
Ciphers, at any time), and the scheduler's job keeps the merged hint. `run` is one
`BitwardenSyncCache.read` with what follows: `ReadCipher`/`DeltaRead` for single
Ciphers over the cached baseline, `CheckRevision` and `Answered` for the revision
check, `ReadAll` for `/sync` with the revision captured before it, `Commit` of the
baseline with its generation check, `Apply` of the merge. A manual run may be
shared by the job, a run fails anywhere (its hint becomes `full`), and a lock or
the preference for automatic work clears job and baseline while a run goes on.
`absent` records what the server lacked at some time of the run. The write path
is one step here. `mode` "off" is the global preference
(`background/events.ts:92-95`), not the pause of one source, which is in
`ProviderSync`.

### KeePassSync

A text is a number; an entry of the file has a text and may be in the recycle bin.
An item also remembers the group it was read in and the group of its baseline
(`place` and `from`, the recycle bin or not), because the fingerprint that decides
whether it was edited covers both.
The four places a batch passes through are separate variables: the database in
memory (`session`), the working copy and its receipts on disk (`record`,
`receipt`, `receipts`), the file on the server (`remote`) and the vault (`item`,
`queue`, `conflict`). `ReadAndWrite` is `KeePassProvider.sync`, `SaveBatch` stores
working copy and receipt in one transaction, `Publish` is `publishWorkingCopy`
(unchanged, refreshed, uploaded by ETag, or rebased), `ApplyResult` the
acknowledgement and merge, `DeleteReceipt` the end; `RecoverRead` and
`ApplyRecovered` are `recoverPending`. `BeginMutation`/`SaveMutation` are
`executeKeePassDurableMutation` for a group that is created. Any step may fail or
be stopped in between (`SyncFails`, `SaveFails`, `AnswerLost`, `WorkerStops`).

Abstractions: password projects do not tie items together; the shortcut for an
unchanged file goes through the projection; receipts are not limited to 256; the
record's own revision check and checksums are left out; other devices edit, bin
and restore entries but create none; an entry whose item lost its link is not shown
as a second item; identifiers are reused when nothing refers to them any more.

### PasskeyCounter

One Passkey on several installations, from a source of one of three kinds (`kind`
is chosen initially). A login begins (`Begin`), reserves a count (`ReserveLocal`,
or `Reserve` and a synchronization that stores it), and is delivered or abandoned.
`sync` runs the synchronizations a login or the background asks for: for
Bitwarden with attempted receipt, revision check and readback, for KeePass with
working copy, ETag and rebase. `late` holds writes whose caller gave up.
`signed`, `held`, `spent` and `regressed` record history for the properties;
`regressed` says that another client has once written a count below the one the
source had.
`MaxCount` is the largest counter value, so that the limit is reached.

### PasskeyRequest

One request of a page. `page` is the content script, `pending` and `receipt` are
each in memory and in session storage, `accept` and `cancel` are the handlers of
the messages with one action between any two awaits, `locker` is
`clearPendingPasskeyRequests` followed by the lock. The sets
`processingPasskeyRequests`, `committingPasskeyRequests`,
`cancelledPasskeyRequests` and the map of running cancellations are the flags. A
worker stop keeps session storage only, and the content script sends its
call again. `saved` is what the vault holds for the request; `dropped` records
that a lock has deleted the only record of a credential that was already stored.

Abstractions: one candidate; dismissals that are under way share one answer;
continuation after unlock (`PASSKEY_UNLOCK_CONTINUE`), excluded credentials and
the two-minute life of receipts are left out; the user does not delete the new item;
storage writes take effect where they are issued.

### VaultSession

The vault service runs one operation at a time (`runExclusive`); `Script` lists
the awaits of each in the order of the code, and `op` is the operation at the head
with its place. Between any two steps time may pass, the event of a changed
session may arrive (`Notice`), a write may be refused, the worker stop or the
browser restart. An envelope is its version, its key, whether that key is a device
key, the mark of Windows Hello and the logins granted to a locked fill. `fill`
and `export` span two operations and are checked again at their end, which is
what the properties are about. `shut` records that the user has locked the vault
and not asked for anything since; `export.moved` that something changed after the
proof of identity.

Left out: cryptography, upgrades of old key derivations and of old Hello marks,
recovery copies, and a wrong password, which changes nothing.

## 3. The runs

| Run | Instance | States | Shows |
| --- | --- | --- | --- |
| `ProviderSync` | 4 operations, 2 sources, 1 edit, 1 pause, any number of aborts and sessions | 361 thousand | registry, turns, reads, pauses, aborts, and the abstract lease |
| `ProviderSyncLiveness` | two synchronizations, a login and a removal on one source | 16 thousand | every request settles |
| `AutomaticSync` | 2 sources, 1 slot, interval and backoff 2 | 51 thousand | slots, hints, server waits, every request runs |
| `BitwardenSync` | 1 created item, 2 Ciphers, 2 edits, 2 remote actions, 2 faults | 198 thousand | no twins, no repeated write, no lost edit |
| `BitwardenDeferral` | 1 Cipher in the account, 2 edits, 1 remote action, 2 faults, deferral | 383 thousand | no repeated write, no lost edit |
| `BitwardenReads` | 2 Ciphers, 2 changes, 2 acts, 1 fault | 948 thousand | nothing unread, nothing removed, all shown in the end, no baseline while locked |
| `KeePassSync` | 1 linked and 1 created item, 1 group operation, 2 edits, 1 remote edit, 2 faults | 437 thousand | no twins, no blind overwrite, recovery keeps edits |
| `PasskeyCounter` | 2 installations, 3 requests, 3 kinds, counts to 3, 2 writes of another client, 1 poll, 1 fault | 1.6 million | counts grow, are stored, are not used twice |
| `PasskeyRequest` | create and get, 2 attempts, 3 asks, 1 lock, 2 faults | 485 thousand | results are saved, cancelled requests are not, once |
| `VaultSession` | 2 keys, 3 envelopes, 2 sessions, 1 login, 1 fault | 1.8 million | the key stays, no stale work, no revival, no ungranted fill or export |
| `BitwardenLostEdit`, `KeePassLostOperation` | as small as shows it | to the first counterexample | section 5 |

**Bounds.** Two sources and four operations contain every pair of kinds that can
meet on a source, a turn over two sources, and a third operation that arrives
after an abort, which is what a late release needs; the proofs lift the bound for
everything but liveness. In `BitwardenSync` a lost write followed by its recovery
takes one edit and one fault, the second of each lets the recovery itself be
disturbed; one action of the other device, between any two steps, is what a
repeated soft delete would undo. `SyncKeepsEdits` and `NoRepeatedWrite` are proved
for any bounds; the conjuncts of their invariant were checked first, one created and one
linked item apart.
`MaxIds` bounds mutation ids: an action that would need one beyond it is not
taken. `MaxFaults` is needed because an unanswered `PUT` may be repeated without
end. One slot for two sources is the smallest instance in which a source can wait
for another's run.

In `KeePassSync` one fault leaves a receipt to recover and a second one disturbs
the recovery; one edit of another device falls between any two of the stores; a
batch of two holds both items. Its three properties were also checked once with one
linked item and three edits, remote edits and faults (12.6 million states). In `BitwardenReads` two changes let one fall before
and one after each of the two reads that must not be confused. In `PasskeyCounter`
two requests on one installation and one on another give every order of
reservation, publication and delivery, three counts let one be lost and two
collide, and a second write of another client is what taking a counter back to a
number it had takes. In `PasskeyRequest` a second attempt is what a repeated call would store,
and two faults stop two workers in a row. In `VaultSession` three envelopes are a
setup, a change and a write after it; a second session follows a lock and an unlock
(three sessions, 4.3 million states, gave the same result).

**Deadlock** is checked for `AutomaticSync`, `BitwardenReads`, `KeePassSync` and
`VaultSession`. In the other modules the system may stop: all operations are over,
or the user, the other device and the bounds have nothing left to do.

**Fairness.** `ProviderSync`: weak fairness of what an operation does once it was
requested. Every awaited call ends, because `provider-transport.ts` gives every
request a deadline (15 s by default), the native client has its own, and vault
transactions are local; no fairness for users, timers or requests.
`AutomaticSync`: time passes, an armed timer fires, a run ends (automatic work is
aborted after 120 s, `provider-sync-runtime.ts:113`). `BitwardenReads`: a step of
a run that can be taken is taken, and the scheduler starts a job that waits (this
is what `RequestsRun` establishes); nothing is assumed of notifications, users or
the server, so `EventuallyShown` rests on the poll alone. The other modules state
no liveness property.

**Action properties** such as `NoRepeatedWrite`, `NoUnknownOverwrite`, `SavedOnce`
or `NotRevived` say what no step may do; `ImplementsLease` is checked as a
property of the run and proved.

## 4. What is proved

Each theorem holds for every value of the constants that meets the named assumptions
of its module: sets of sources, operations, Ciphers, logins, installations or
requests may be of any size, bounds any number. The assumptions are those TLC
evaluates in the runs: an operation has targets, an owning one exactly one
(`OpsAssumption`); delays are positive (`DelaysAssumption`) and the sources finite
(`SourcesAssumption`); `Ciphers` is finite
(in `BoundsAssumption` of `BitwardenReads`); the items and Ciphers of `BitwardenSync` are
finitely many and have different names (`NamesAssumption`); the items of a KeePass source are finite, those
in the file no more than the entries (`ItemsAssumption`), and no item or group operation
is `none` (`NamesAssumption`); a login is asked at an installation
(`DevicesAssumption`) and is no request by the name of `none` or `poll`
(`NamesAssumption`); and bounds are numbers.

| Theorem | Module | Says |
| --- | --- | --- |
| `TypeCorrect` | `ProviderSyncProofs` | `[]TypeOK` |
| `Ownership` | | `[]OwnershipExact` |
| `MutualExclusion` | | `[]OneLiveOwner` |
| `PauseStopsWork` | | `[]PausedWorkAborted` |
| `ManualCoversEdits` | | `[]ManualReadsEdits` |
| `AbortsDiscardResults` | | `AbortsDiscard` |
| `QueueOrders` | | `[]QueueExclusion` |
| `LeaseImplemented` | | `Spec => ImplementsLease` |
| `TypeCorrect` | `AutomaticSyncProofs` | `[]TypeOK` |
| `SlotsExact` | | `[]SlotsCounted` |
| `HintsServed` | | `[]HintsHonoured` |
| `WaitsKept` | | `ServerWaitKept` |
| `TypeCorrect` | `BitwardenReadsProofs` | `[]TypeOK` |
| `LockKeepsNothing` | | `[]NothingKept` |
| `UnchangedMeansShown` | | `UnchangedIsTrue` |
| `RemovedWasAbsent` | | `NoFalseRemoval` |
| `TypeCorrect` | `BitwardenSyncProofs` | `[]TypeOK` |
| `WritesAreNotRepeated` | | `NoRepeatedWrite` |
| `EditsAreKept` | | `SyncKeepsEdits` |
| `TypeCorrect` | `VaultSessionProofs` | `[]TypeOK` |
| `AlwaysOpenable` | | `[]Openable` |
| `NoStaleSnapshot` | | `[]WorksOnStored` |
| `EndedStaysEnded` | | `NotRevived` |
| `OnlyGrantedLeaves` | | `LeavesGranted` |
| `TypeCorrect` | `PasskeyRequestProofs` | `[]TypeOK` |
| `ResultsAreStored` | | `[]ResultIsSaved` |
| `CancelledStoresNothing` | | `[]CancelledIsNotSaved` |
| `StoredOnce` | | `SavedOnce` |
| `TypeCorrect` | `PasskeyCounterProofs` | `[]TypeOK` |
| `CountsGrow` | | `[]DeliveredGrows` |
| `DeliveredAreStored` | | `[]DeliveredIsStored` |
| `FileCountsUnique` | | `[]FileSignsOnce` |
| `Inductive` | `KeePassSyncProofs` | `[]Ind` |
| `TypeCorrect` | | `[]TypeOK` |
| `CreatedOnce` | | `[]NoTwins` |
| `NoBlindOverwrite` | | `NoUnknownOverwrite` |
| `RecoveryIsSafe` | | `RecoveryKeepsEdits` |

**The runtime** (`ProviderSyncProofs`). The first six rest on `Inductive`, `Spec => []Ind`, where `Ind` is the conjunction
of

- `TypeOK` and `Shape`, which kinds can be in which phase;
- `OwnershipExact`: `OneLiveOwner` is not inductive alone, since it does not say
  that an unaborted operation is the one registered, and the reservation of the
  next one looks at the registry only;
- `PausedWorkAborted`, which needs `OwnershipExact` because a pause aborts
  whoever is registered;
- `ToldAborted`, an operation that worked when an abort was called for it has a
  controller that fired, which needs `OwnershipExact` for the same reason: an abort
  reaches the registered owner, and an earlier one may have emptied the registry;
- `ReadsCurrent`, a manual synchronization keeps a snapshot no older than its
  request.

`MutualExclusion` follows from `OwnershipExact` (two unaborted operations on one
source would both be its owner); `AbortsDiscardResults` from `ToldAborted` and
the guard of `Apply`. The run does not check these two by themselves: TLC agreed with both before the proof, the
lease implies the first, and the second follows from it and `ToldAborted`. Nothing
is proved of an operation that no abort reached (section 5). The proof has one step per action; actions that leave the
registry alone, enter it, move inside it or leave it share a lemma each
(`OutsideRegistry`, `ReserveStep`, `InsideRegistry`, `SettleStep`).

**The queue.** `QueueOrders` needs an order the state does not hold. `QueueInv` says that a rank
exists: everybody waiting on a source or having its turn is ranked by arrival, one
rank for all the sources of an operation; whoever is not the first in a line waits
for somebody still in it who is not behind the others before him; and the tail
of a source is its last. An operation that joins gets the largest rank
(`EnqueueStep`); one that settles takes itself out of everybody's wait and keeps
the ranks of the rest (`SettleQueue`); one whose wait is empty is the first in each
of its lines (`FirstInLine`), hence alone with its turn.

**The lease.** `LeaseImplemented` maps each step: `Reserve` to `Take` (from `OwnershipExact`, the
source is free in the registry, so nobody on it is unaborted), `Apply` to `Merge`,
`Fail` to `Leave`, a settling step to `End`, aborts to `Revoke`, and all
others to stuttering. It needs one more invariant, `AbortedWork`: only an operation
that works has a controller that fired, so a lease that ended is not revoked.

**The scheduler.** `HintsServed` and `WaitsKept` (`AutomaticSyncProofs`: `[]HintsHonoured` and
`ServerWaitKept`) hold for any sources, slots and delays (`DelaysAssumption`: all
positive). Their invariant adds to the types of the jobs, runs and hints that a
job waits with a hint at least as strong as what its source is owed (`Owing`;
without it `drain` could begin a weaker run), that the server's wait is part of
the job's wait (`Waits`; this is why `reconnected` may shorten the latter to the
former) and that a run that is not stale is the run of a job (`Owned`). Only `drain`
sets `running` (`OnlyDrainBegins`), and it takes jobs whose wait is over.
`WaitsKept` needs besides that what remains of a source's wait is no more than its job's
floor, unless the job it was told to was dropped, and that a running job has no floor
(`Kept`; for a run that found its source busy this uses that the run is the job's own).
`SlotsExact` needs one run of its own per source at most (`Counted`): then the end
of a run empties `RunsOf` its source, and a dropped job leaves its run counted but
stale. For `drain` it has to be shown that the runs that begin together find slots
of their own, a bijection of the new sources with the slots they take, and that
these are no more than the limit leaves. `TypeCorrect` needs that the line stays a
total order of the jobs by `dueAt` (`Lined`): a job that moves is put after those
that are due no later, and one lemma (`WovenIsOrder`) does it for the job of a request
and for all the jobs that `configure` adds; the timer is a number because a set of
delays has a least one (`LeastIsIn`).

**Bitwarden reads.** The question is what may be concluded from a revision. `Ind`
says: no noted revision is ahead of the account (`Behind`); a payload that bears the
account's revision is the account (`Reads`; this is why the revision is read before
`/sync`, and why a delta keeps the revision of its baseline); the baseline is the
reading that is about to be merged (`Taken`); and a baseline that is current is shown by
the vault, apart from logins with an edit of the user, unless something that does
not trust the baseline is under way or asked for (`Merged` with `Debt`). The last
is what `UnchangedIsTrue` needs and what no single state shows: between the commit
of a baseline and its merge the two disagree, and a failure there is repaid by a
`full` hint. `Serving` ties a run to its job, so that a stopped one leaves no
baseline; `Counted` bounds the revisions by the changes made, for the types.
`RemovedWasAbsent` follows from `Seen`, which follows what the server lacked during
a run.

**Bitwarden synchronization.** Both results rest on one invariant, `Careful`, in three
parts. `Ind` is about identity and order. Mutation ids are unique and older than the next
one (`Numbered`); the round works on entries of its batch, and an acknowledgement bears
the id of its item's entry (`OneWrite`); a committed receipt names a Cipher (`Recorded`);
from `ready` on every entry of the batch has a receipt that agrees with it (`Agreed`). Then
the two facts that `NoRepeatedWrite` needs: until its entry is marked, a receipt is what the
round read or was dropped by a decision, and afterwards it is at least "attempted"
(`Followed`); and a write that is not settled keeps such a receipt, with the verb it was sent
under, unless nothing refers to its id any more (`SentKept`). With `Agreed` this gives that
what is left to write was not sent (`NotYetSent`): a round that reads an attempted create
or delete blocks it or proves it, and `NotWrittenTwice` says so of `Fetch`. It also shows
why marking comes before sending: `Mark` drops the write when the user's decision has
removed its receipt.

`Sane` keeps out what would make "counts as changed" meaningless: a version decoded from
the account is never a changed one (`Foreign`), and an edited item that waits to be created
has no reference (`CreateUnbound`), so the merge cannot take its first reference for a
concurrent change. `Provided` says what the provider returns, which is all the merge can
rely on. `Carried`: an edited item that was not acknowledged comes back as it was read, and
an acknowledgement without `followUp` tells what the item held when it was read. `Covered`:
an edited item of the batch is acknowledged, in conflict or still to be written, so nobody
is forgotten when the provider returns. `MergeKeeps` then goes through the cases of
`Verdict` and `NextEntry`: an item edited since the snapshot is never "theirs", and an
entry leaves the queue only when its acknowledgement covers the text the item still has.
The lemmas follow the operators: what preparation writes (`Prepares`, `ReceiptAfter`), what
the read settles (`FetchCarried`, `FetchCovered`, `FetchWrites`), what each write may change
(`WritingAfter`, `WriteKinds`, `AckSettles`), which ids the merge gives out (`NextIds`,
`KeepIds`, `NextNumbered`).

The proof corrected the model and the properties. That a receipt committed by an earlier
round acknowledges its entry without `followUp` was missing from `Fetch`; with it
`SyncKeepsEdits` is false of such entries, which is `InterruptionKeepsEdits` of section 5 and
the reason for the exception. `NoRepeatedWrite` is false of a soft delete that an update entry
sends, hence the condition in `Unsettled`. `Unacknowledged` now compares the item with
what was acknowledged for it in this round, in place of asking whether anything was.

**The vault session.** What makes `Openable` inductive is an order on numbers: an
envelope that is being made is newer than everything kept of the stored one, and its
device key is stored before it (`Making`); the key that is dropped afterwards is older
than the one that replaced it (`Replaced`), so no interruption drops the key in use.
`Worked` and `Decoded` say that what an operation decoded is what is stored until it
stores the next; with `Making` a snapshot cannot be taken for an envelope of equal
number. `Offered` and `Exported` do the same for logins offered and for exports under
way, `Shut` and `Held` say which operations may run without a session or after
a lock, and `Roomy` that the bounds leave room for what an operation still makes. The
theorem about `NotRevived` splits the steps that touch a session (`SessionSteps`), that
about `LeavesGranted` those that dispatch (`FillSteps`) and return (`ExportSteps`).

**A Passkey request.** `Accepting` says where the accepting handler is from the sets
of the runtime, `Cancelling` that one cancellation judges and nothing is accepted
meanwhile. The core is that a stored credential is recorded (`Recorded`): either the
worker that stored it still runs and knows it (`Fresh`), or a later one runs, in which
nobody thinks of cancelling (`Careful`). From this, whoever reports a result tells the
truth (`Truthful`), and a request that is over stores nothing any more (`Ended` with
`Over`). These parts are stated for `Counts`: a registration, where no lock has dropped
the only record of a stored credential. That exception is the one the properties make
(section 5).

**Passkey counters.** `Marked` and `Grown` say that the high-water mark of an
installation covers what it has delivered and what it is about to deliver, that a
count being stored lies above all of that, and that two logins at one installation
never await delivery with the same positive count; `CountsGrow` follows, because
`recordPasskeyUse` admits only a count at the mark. `Turns` gives a login that is
being prepared the turn of its source and the run of its own. `Known` says that what an
installation knows of the source was once in it (`DeliveredAreStored`). For KeePass,
`Copies` relates vault, working copy, receipt and file: a reservation is the count after
the baseline, a saved copy has its receipt, a copy with the current ETag has the file's
count as its base. `Prepared` says that the count a login stages is the one its run
saves, `Rising` that the file has the largest count as long as nobody set it back, and
`Claimed` that a count signed with, about to be, or published for a login without a rebase
is in the file and is claimed by nobody else. `FileCountsUnique` follows.

The first attempt at this proof failed for a reason the run had not shown: "set the
counter back" had meant a write of a number the file has had, and with two writes another
client can jump ahead and return to a number nobody has used. Such a write is now what it
says, one below the current count, and the run allows two of them.

**The KeePass file.** That an item is created once is decided in four stores that are
written one after the other, so `Ind` follows the identity of an entry through all of
them. `Owned`: whatever an item, a conflict, a receipt or the running round remembers of
an item is an entry made for that item. `Staged`: which phase goes with a receipt, an open
database or a running group operation. `Copied`: outside a round that has just written its
batch the open database is the working copy, and neither the server nor the base has
an entry that the working copy lacks. `Singles`: the working copy, and the database with
the batch just written, hold at most one entry of an item. `Named`: an item that the vault
holds and that has an entry in the working copy names that entry, unless the receipt
still carries the link; hence an item whose creation was saved but never merged is not
created again, since a synchronization that finds a receipt recovers it first. `Wrote`
says the same of the batch that was just written, and that what it confirms is an item
that was queued: without that, the proof of `SaveBatch` fails. `CreatedOnce` follows
from `Singles` and `Copied`. The lemmas say what the parts of a round keep: what a batch
writes (`WrittenAs`, `OutcomeFile`, `OutcomeResult`), what is projected from the file
(`ProjectedFacts`), what a publication (`PublishKeeps`) or the merge (`MergingFacts`,
`ApplyKeeps`) may change, and what a fault forgets (`ForgetKeeps`).

`NoBlindOverwrite` follows the texts of other devices through the same stores, with a
second invariant, `Text`. A publication replaces a text of the server only where the
working copy differs from the base and the base has the server's text (`ToWriteTexts`:
the ETag is the known one, or the rebase found no difference on both sides). So `Written`
has to say that a batch replaces a text that was not shown only if it is the baseline of
an item. That needs more than the step itself. `Level`: without a receipt the working copy
is the base, or it is about to be published. `Placing`: a text that was not shown is at one
place, the same on the server as in the base, and is the baseline of no item of another
entry. `Shown`: what the vault holds, and the baseline that a decision would take from a
conflict, has been shown. `Leaving`: an item in conflict whose baseline was not shown is in
conflict with that very text, or the text has left the base; without this the user's
decision between a batch and its publication could take away the item that `Written` relies
on. `Clashing` and `Reporting` say how a round's conflicts and results come from the file,
and `Dated` that a new text is new. The invariant only speaks of baselines: that such a
text was put before the user does not follow and is not true (section 5).

`RecoveryIsSafe` is about the merge at the end of a recovery, which takes what the recovery
brings wherever the item is what it goes by: the copy in the receipt for an item of the batch,
else the reading. What it brings of an item that the receipt does not confirm is the reading. So
an edit could only be lost where an item of the batch, edited before the reading, has become
equal again to its copy in the receipt. The third invariant, `Stamps`, excludes that: while the
receipt is published, an item that is queued or in conflict has the content that was read, or
was edited later than the receipt was made (`Followed`), since no stamp that is remembered is
later than the last edit (`Stamped`) and a decision for the local side changes no content. A
decision for the other side takes the item out of the queue and out of conflict, and the next
edit gives it a new stamp. The theorem leaves out a confirmed or unqueued item that equals what
the recovery goes by, whose content the file has or may replace.

Before a proof, TLC checked the conjuncts of each invariant on the run's instance. Three
things were restated so that they could be reasoned about: the delivered counts of an
installation as the set of the elements of the sequence, the handler's places in
`PasskeyRequest` as named sets, and the scheduler's line as a relation in place of a
sequence, whose filtering is defined by recursion.

**Only model-checked:** liveness (`RequestsSettle`, `RequestsRun`, `EventuallyShown`;
liveness and `ENABLED` are beyond the prover); `SyncMakesNoTwins` of `BitwardenSync`, which holds of the
run's instance but not of all: with read-only refreshes it fails (section 5), and without them
two attempted creates of equal content may both be proved by one Cipher. Induction over
data and `RECURSIVE` operators are beyond the prover too; no module uses the latter.

## 5. Where the code disagrees with what it says

Two of these have a run that ends in the counterexample; `PROJECT.json` quotes the
sentence each contradicts.

| Run | What happens |
| --- | --- |
| `BitwardenLostEdit` | An edit to a login that the account holds is uploaded, the login is edited again, and the worker stops between the commit of the receipt and the merge. The next round acknowledges the entry from the committed receipt without `followUp` (`uniqueAcknowledgements` keeps the coordinator's copy, not the provider's), the merge takes the uploaded content, and the second edit is gone: not sent, not queued, not in conflict. (When a create is interrupted so, the merge attaches the Cipher's identity and leaves the item its text; only the queue entry of the edit is lost.) |
| `KeePassLostOperation` | A group operation whose save failed is repeated after a synchronization reloaded the database: it gets its receipt without its effect. |

The modules state the following properties too; TLC refutes each in a small
configuration of the module that names the property alone.

| Property | What happens |
| --- | --- |
| `ProviderSync!LateResultsDiscarded` | A synchronization reads, the session ends without an abort that reaches it (it runs out and is unlocked before the alarm, or the operation reserves between `abortAll` and `service.lock`), and the vault is unlocked: nothing keeps the result from being merged, since `applyProviderSync` (`provider-sync-runtime.ts:138`) does not name the session it was read in. The test "rejects late sync results after lock and does not apply them" (`provider-sync-runtime.test.ts:65`) covers an abort that finds the operation registered, which is what `AbortsDiscard` says. |
| `AutomaticSync!RetryAfterHeeded` | A run fails with a `Retry-After`; the source is paused, or the vault locked, and the job goes with its wait; the new job runs half a second later, inside the wait (`automatic-sync.ts:43`), although `docs/SYNC_COMPATIBILITY.md:9` says that retries heed it (遵守服务器的 Retry-After). |
| `BitwardenSync!SyncMakesNoTwins` (with `Partial`) | A create is uploaded and its receipt committed, the worker stops before the merge, and a read-only refresh (`passkey-runtime.ts:173`), whose batch is empty (`bitwarden-durable-sync.ts:109`), imports the Cipher as a new item; the next complete round gives the first item the same Cipher. |
| `BitwardenSync!TombstonesOutliveCiphers` | An item deleted while its creation is in flight: the acknowledgement meets no entry, the merge throws, and the next round brings the item back. |
| `BitwardenSync!ReceiptsMatchQueue` | An item deleted while its update is in flight: receipt and queue disagree, and every later synchronization of the account is refused. |
| `BitwardenSync!QuietItemsAreCurrent` | A login trashed and restored on another device stays in the trash here, with nothing queued and no conflict. |
| `BitwardenSync!NoSilentOverwrite` | A deletion withdrawn while it is in flight is followed by a write over an edit of another device, without a conflict. |
| `BitwardenSync!LaterEntriesStay` | A "keep local" decision made during a synchronization loses its queue entry when the item record did not change. |
| `BitwardenSync!EditsTracked` | Edit, delete and restore before anything is sent: the edit is no longer queued. |
| `KeePassSync!EditsSurvive` | The refresh after a rebased publication replaces the edits kept for the next batch (with a batch of one) and those the adapter found in conflict by the file's copies, without a conflict, although `keepass-durable-sync.ts:94` promises to continue with the former. |
| `KeePassSync!NoUnseenOverwrite` | An item deleted here and edited on another device is restored by the user while the round that rebased the two runs: it takes the ETag of the other text without showing it, and the next round overwrites that text without a conflict. |
| `KeePassSync!EditsTracked` | A creation is published, edited on another device and only then recovered: the item keeps its text with the ETag of the newer one, neither queued nor in conflict. |
| `PasskeyCounter!BitwardenSignsOnce` | Two installations write the same count; the loser's lost answer is proved by reading back the winner's (`bitwarden-provider.ts:462` enforces the revision, the readback does not). It also fails with no fault: a count equal to the local one under a new revision is no difference (`Differs`), so both installations sign the same number. |
| `PasskeyRequest!LockedIsNotSaved` | The worker stops after a registration was stored and before its receipt is promoted; a lock then drops the prepared receipt and tells the page that nothing happened. |
| `VaultSession!HelloUsable` | Windows Hello is revoked natively, and the write that would remove its mark from the vault never happens: the mark stays. |

These properties are not claimed of the code. Because of them `SyncKeepsEdits` is
stated for an entry that was in the batch or belongs to an item edited since, and excepts
entries whose receipt an earlier round committed,
`SyncMakesNoTwins` is checked without read-only refreshes, `NoRepeatedWrite` for
writes whose outcome was neither taken in nor decided, and the properties of
`PasskeyRequest` make an exception where a lock has dropped the only record.

Noticed while modelling, and not stated as a property: a "keep local" decision over a
version that came out of the merge takes the revision of that version, which may be the
item's own `updatedAt` (`secure-vault-service.ts:1527-1540`); the item then counts as
unchanged and the next round replaces what the user chose to keep, although the comment at
1566-1568 speaks of the "newly selected local version" (hence `ItemChanged` in `Unacknowledged`);
a committed receipt whose Cipher has gone is acknowledged and in conflict at once, which makes
every merge throw before the conflict is shown; a KeePass "keep local"
decision has no effect for an entry decoded without an ETag
(`keepass-vault.ts:330`, `secure-vault-service.ts:1529-1537`); a KeePass batch with a
restored item whose entry was purged fails in every round
(`keepass-durable-sync.ts:188`; `Rejected` models it); a master password change
interrupted between the new envelope and the new session leaves a live session
whose key no longer opens the vault; a session event that arrives during a read
makes it fail as locked.

## 6. What is not modelled

Left out of the modelled components: notification connections and their retries,
the reconciliation of automatic work with its generation counter, and the writing
of pauses to session storage; folders, custom-field migration, the guard against an
empty account, Ciphers that cannot be decoded; two items on one Cipher of equal
content; local-only items and other adapters in the merge; more than four slow
sources that poll in front of a fifth; the cap of the KeePass pending table and the
queue entry that is deleted while tasks wait; what the module sections above name.

Left out altogether: the components marked `not_modelled` in `PROJECT.json`. The
WebDAV snapshots, attachment writes, nearby journal, save candidates, password
projects and transfer journals are sequential or journalled protocols of their own
that none of the modules here needs; the rest are I/O, codecs, user interface or
the native Rust store, where order and failure decide little. The user interface,
codecs and native client are most of the implementation's lines, so the map covers a
small share of them.

## 7. Plan

1. `WebDavSnapshots` (three-way comparison and the last-file check), the journals of
   attachments, transfers and nearby batches, save candidates.
2. Two items of equal content in `BitwardenSync`; the continuation after unlock in
   `PasskeyRequest`; the identity of the queue's promises in `KeePassSync`.
3. An account replica that applies each mutation at most once, implemented by
   `BitwardenSync` and by `KeePassSync`.
4. Proofs: `SyncMakesNoTwins` of `BitwardenSync` once
   claims on one Cipher by equal contents are told apart.
