---------------------------- MODULE ProviderSync ----------------------------
(* The background runtime that decides which operation may work on a        *)
(* password source, and when: the operation queue (one promise tail per     *)
(* source), the activity registry (one owner per source, abortable), the    *)
(* shared promise of a running synchronization, pauses, aborts and sessions *)
(* of the vault.                                                            *)
(* Every operation is a process that is requested once; what an adapter     *)
(* does with the source is left to the modules of the adapters.             *)
EXTENDS Naturals, FiniteSets

CONSTANTS
  Providers,   \* password sources
  Ops,         \* operations, each requested at most once
  NoOp,        \* no operation
  Kind,        \* [Ops -> Kinds]
  Targets,     \* [Ops -> SUBSET Providers], the sources an operation works on
  MaxEdits,    \* bound on local edits
  MaxPauses    \* bound on pause commands

Kinds == {"auto", "manual", "refresh", "assert", "removal", "transfer"}

\* Kinds that synchronizeProvider starts, that wait for their turn in the
\* operation queue, and that reserve the source in the activity registry.
Sync    == {"auto", "manual"}
Queued  == Sync \cup {"removal", "transfer"}
Owning  == Kinds \ {"transfer"}

ASSUME OpsAssumption ==
  /\ NoOp \notin Ops
  /\ Kind \in [Ops -> Kinds]
  /\ Targets \in [Ops -> SUBSET Providers]
  /\ \A o \in Ops : Targets[o] # {}
  /\ \A o \in Ops : Kind[o] \in Owning => \E p \in Providers : Targets[o] = {p}
ASSUME BoundsAssumption ==
  MaxEdits \in Nat /\ MaxPauses \in Nat

VARIABLES
  pc,        \* phase of each operation
  owner,     \* ProviderSyncActivity.owners
  aborted,   \* operations whose AbortController has fired
  tail,      \* ProviderOperationQueue.tails
  ahead,     \* the tails an operation found when it was queued
  promise,   \* providerSyncPromises
  behind,    \* the synchronization a caller waits for
  paused,    \* pausedSyncOverrides that are true
  locked,    \* the vault is locked
  version,   \* local edits so far
  pauses,    \* pause commands so far
  asked,     \* version when the operation was requested
  snapshot,  \* version the operation read
  told       \* operations that worked on a source when an abort was called for it

vars == <<pc, owner, aborted, tail, ahead, promise, behind, paused, locked,
          version, pauses, asked, snapshot, told>>
queueVars   == <<tail, ahead>>
promiseVars == <<promise, behind>>
worldVars   == <<paused, locked, version, pauses>>
ghostVars   == <<asked, snapshot, told>>

\* "idle"     not requested            "joined"   shares a running promise
\* "waiting"  behind a running sync    "queued"   behind the tails found
\* "checking" awaiting getProvider     "gate"     awaiting the paused set
\* "holding"  queue turn, no owner     "working"  owner, before its snapshot
\* "reading"  adapter runs             "applied"  result merged in the vault
\* "failing"  the catch block          "done", "failed"  settled
Holding == {"working", "reading", "applied", "failing"}
Turn    == {"checking", "gate", "holding"} \cup Holding
Settled == {"done", "failed"}
Phases  == {"idle", "joined", "waiting", "queued"} \cup Turn \cup Settled

Reserves(o) == Kind[o] \in Owning
Target(o)   == CHOOSE p \in Targets[o] : TRUE
Over(o)     == pc[o] \in Settled

TypeOK ==
  /\ pc \in [Ops -> Phases]
  /\ owner \in [Providers -> Ops \cup {NoOp}]
  /\ aborted \subseteq Ops
  /\ tail \in [Providers -> Ops \cup {NoOp}]
  /\ ahead \in [Ops -> SUBSET Ops]
  /\ promise \in [Providers -> Ops \cup {NoOp}]
  /\ behind \in [Ops -> Ops \cup {NoOp}]
  /\ paused \subseteq Providers
  /\ locked \in BOOLEAN
  /\ version \in Nat
  /\ pauses \in Nat
  /\ asked \in [Ops -> Nat]
  /\ snapshot \in [Ops -> Nat]
  /\ told \subseteq Ops

Init ==
  /\ pc = [o \in Ops |-> "idle"]
  /\ owner = [p \in Providers |-> NoOp]
  /\ aborted = {}
  /\ tail = [p \in Providers |-> NoOp]
  /\ ahead = [o \in Ops |-> {}]
  /\ promise = [p \in Providers |-> NoOp]
  /\ behind = [o \in Ops |-> NoOp]
  /\ paused = {}
  /\ locked = FALSE
  /\ version = 0 /\ pauses = 0
  /\ asked = [o \in Ops |-> 0]
  /\ snapshot = [o \in Ops |-> 0]
  /\ told = {}
-----------------------------------------------------------------------------
(* ProviderSyncActivity: the effects of its operations on owner and aborted. *)
(* A definition whose name begins with Bug is a plausible slip in the code   *)
(* of the definition it precedes; nothing else refers to it.                 *)
IsBusy(p)    == owner[p] # NoOp
ReserveBy(o) == owner' = [owner EXCEPT ![Target(o)] = o]
BugReleaseAnyOwner(o) ==
  [p \in Providers |-> IF p \in Targets[o] THEN NoOp ELSE owner[p]]
OwnersAfterRelease(o) ==
  [p \in Providers |-> IF owner[p] = o THEN NoOp ELSE owner[p]]
BugAbortNobody(p) == aborted' = aborted \cup {owner[p]}
AbortOwner(p) == aborted' = aborted \cup ({owner[p]} \ {NoOp})

\* The controllers of automatic work are also kept in a set of their own.
Automatic == {o \in Ops : Kind[o] = "auto" /\ pc[o] \in Holding}
AbortAllOwners ==
  /\ aborted' = aborted \cup Automatic \cup ({owner[p] : p \in Providers} \ {NoOp})
  /\ owner' = [p \in Providers |-> NoOp]

\* Who works on one of these sources as its owner.
WorkOn(sources) ==
  {o \in Ops : pc[o] \in Holding /\ Reserves(o) /\ Target(o) \in sources}

(* ProviderOperationQueue.runMany: every tail is taken in one step. *)
Enqueue(o) ==
  /\ pc' = [pc EXCEPT ![o] = "queued"]
  /\ ahead' = [ahead EXCEPT ![o] = {tail[p] : p \in Targets[o]} \ {NoOp}]
  /\ tail' = [p \in Providers |-> IF p \in Targets[o] THEN o ELSE tail[p]]
BugDropSuccessorsTail(o) ==
  [p \in Providers |-> IF p \in Targets[o] THEN NoOp ELSE tail[p]]
TailsAfter(o) == [p \in Providers |-> IF tail[p] = o THEN NoOp ELSE tail[p]]

\* May this caller take the promise that is already running?
BugManualShares(o) == TRUE
SharesRunning(o) == Kind[o] = "auto"

Synchronize(o) ==
  LET running == promise[Target(o)]
  IN \/ /\ running # NoOp
        /\ pc' = [pc EXCEPT ![o] = IF SharesRunning(o) THEN "joined" ELSE "waiting"]
        /\ behind' = [behind EXCEPT ![o] = running]
        /\ UNCHANGED <<promise, queueVars>>
     \/ /\ running = NoOp
        /\ Enqueue(o)
        /\ promise' = [promise EXCEPT ![Target(o)] = o]
        /\ behind' = [behind EXCEPT ![o] = NoOp]

Ask(o) ==
  /\ pc[o] = "idle"
  /\ asked' = [asked EXCEPT ![o] = IF Kind[o] = "manual" THEN version ELSE @]

\* PROVIDER_SYNC, or the automatic scheduler, which tries a busy source later.
RequestSync(o) ==
  /\ Ask(o) /\ Kind[o] \in Sync
  /\ Kind[o] = "auto" => ~IsBusy(Target(o))
  /\ Synchronize(o)
  /\ UNCHANGED <<owner, aborted, worldVars, snapshot, told>>

\* A transfer over several sources, or a project removal of the manager.
RequestQueued(o) ==
  /\ Ask(o) /\ Kind[o] \in Queued \ Sync
  /\ Enqueue(o)
  /\ UNCHANGED <<owner, aborted, promiseVars, worldVars, snapshot, told>>

\* The Passkey picker refreshes the sources of its candidates one after the
\* other and skips one that is busy. It looks at the lock before the first only.
RequestRefresh(o) ==
  /\ Ask(o) /\ Kind[o] = "refresh"
  /\ \/ /\ IsBusy(Target(o))
        /\ pc' = [pc EXCEPT ![o] = "failed"]
        /\ UNCHANGED owner
     \/ /\ ~IsBusy(Target(o))
        /\ ReserveBy(o)
        /\ pc' = [pc EXCEPT ![o] = "working"]
  /\ UNCHANGED <<aborted, queueVars, promiseVars, worldVars, snapshot, told>>

\* A Passkey login with a positive counter waits for running synchronizations.
RequestAssert(o) ==
  /\ Ask(o) /\ Kind[o] = "assert" /\ ~locked
  /\ pc' = [pc EXCEPT ![o] = "waiting"]
  /\ behind' = [behind EXCEPT ![o] = promise[Target(o)]]
  /\ UNCHANGED <<owner, aborted, queueVars, promise, worldVars, snapshot, told>>

BehindIsOver(o) == behind[o] # NoOp => Over(behind[o])

\* A manual caller starts over once the synchronization it waited for ends.
Retry(o) ==
  /\ pc[o] = "waiting" /\ Kind[o] \in Sync /\ BehindIsOver(o)
  /\ Synchronize(o)
  /\ UNCHANGED <<owner, aborted, worldVars, ghostVars>>

\* A caller that shares a promise gets its outcome.
Share(o) ==
  /\ pc[o] = "joined" /\ BehindIsOver(o)
  /\ pc' = [pc EXCEPT ![o] = pc[behind[o]]]
  /\ snapshot' = [snapshot EXCEPT ![o] = snapshot[behind[o]]]
  /\ behind' = [behind EXCEPT ![o] = NoOp]
  /\ UNCHANGED <<owner, aborted, queueVars, promise, worldVars, asked, told>>

\* The login loops until no synchronization is running, then reserves, without
\* another look at the lock. It gives up when its document is gone, its request
\* was cancelled, or the source is busy.
ReserveAssert(o) ==
  /\ pc[o] = "waiting" /\ Kind[o] = "assert" /\ BehindIsOver(o)
  /\ \/ /\ pc' = [pc EXCEPT ![o] = "failed"]
        /\ behind' = [behind EXCEPT ![o] = NoOp]
        /\ UNCHANGED owner
     \/ /\ promise[Target(o)] # NoOp
        /\ behind' = [behind EXCEPT ![o] = promise[Target(o)]]
        /\ UNCHANGED <<pc, owner>>
     \/ /\ promise[Target(o)] = NoOp /\ ~IsBusy(Target(o))
        /\ ReserveBy(o)
        /\ pc' = [pc EXCEPT ![o] = "working"]
        /\ behind' = [behind EXCEPT ![o] = NoOp]
  /\ UNCHANGED <<aborted, queueVars, promise, worldVars, asked, snapshot, told>>
-----------------------------------------------------------------------------
MayBegin(o) == \A a \in ahead[o] : Over(a)

Begin(o) ==
  /\ pc[o] = "queued" /\ MayBegin(o)
  /\ pc' = [pc EXCEPT ![o] = IF Reserves(o) THEN "checking" ELSE "holding"]
  /\ ahead' = [ahead EXCEPT ![o] = {}]
  /\ UNCHANGED <<owner, aborted, tail, promiseVars, worldVars, ghostVars>>

\* The end of an operation: the tails and the promise that are still its own
\* are deleted, and the owner is released only by the operation that owns it.
\* Its controller goes out of use.
BugPromiseKeptOnError(o, outcome) ==
  /\ pc' = [pc EXCEPT ![o] = outcome]
  /\ owner' = OwnersAfterRelease(o)
  /\ tail' = TailsAfter(o)
  /\ promise' = [p \in Providers |->
                   IF promise[p] = o /\ outcome = "done" THEN NoOp ELSE promise[p]]
  /\ aborted' = aborted \ {o}
  /\ told' = told \ {o}
Settle(o, outcome) ==
  /\ pc' = [pc EXCEPT ![o] = outcome]
  /\ owner' = OwnersAfterRelease(o)
  /\ tail' = TailsAfter(o)
  /\ promise' = [p \in Providers |-> IF promise[p] = o THEN NoOp ELSE promise[p]]
  /\ aborted' = aborted \ {o}
  /\ told' = told \ {o}

\* getProvider answers: the source exists and is enabled. Automatic work then
\* reads the paused set; the others go on to the reservation.
Check(o) ==
  /\ pc[o] = "checking" /\ ~locked /\ Kind[o] = "auto"
  /\ pc' = [pc EXCEPT ![o] = "gate"]
  /\ UNCHANGED <<owner, aborted, queueVars, promiseVars, worldVars, ghostVars>>

\* A source that is gone, disabled, paused, busy or locked ends the operation
\* before it owns anything. The paused set and the reservation are one turn of
\* the event loop, with no look at the lock between them.
BugPauseNotRead(o) == FALSE
Blocked(o) == Kind[o] = "auto" /\ Target(o) \in paused
Reject(o) ==
  /\ pc[o] \in {"checking", "gate"}
  /\ Settle(o, "failed")
  /\ UNCHANGED <<ahead, behind, worldVars, asked, snapshot>>

Reserve(o) ==
  /\ pc[o] = (IF Kind[o] = "auto" THEN "gate" ELSE "checking")
  /\ ~Blocked(o) /\ ~IsBusy(Target(o))
  /\ Kind[o] # "auto" => ~locked
  /\ ReserveBy(o)
  /\ pc' = [pc EXCEPT ![o] = "working"]
  /\ UNCHANGED <<aborted, queueVars, promiseVars, worldVars, ghostVars>>

\* recoverProvider, then the snapshot the adapter works from.
Read(o) ==
  /\ pc[o] = "working" /\ Kind[o] # "removal"
  /\ o \notin aborted /\ ~locked
  /\ pc' = [pc EXCEPT ![o] = "reading"]
  /\ snapshot' = [snapshot EXCEPT ![o] = version]
  /\ UNCHANGED <<owner, aborted, queueVars, promiseVars, worldVars, asked, told>>

\* The adapter's result is merged, unless the operation was aborted meanwhile.
BugApplyAborted(o) == TRUE
MayApply(o) == o \notin aborted
Apply(o) ==
  /\ pc[o] = "reading" /\ MayApply(o) /\ ~locked
  /\ pc' = [pc EXCEPT ![o] = "applied"]
  /\ UNCHANGED <<owner, aborted, queueVars, promiseVars, worldVars, ghostVars>>

\* Any awaited call may throw, an aborted one does, and so does the work that
\* follows the merge (diagnostics, the state of a remote KeePass source).
Fail(o) ==
  /\ pc[o] \in {"working", "reading", "applied"}
  /\ pc' = [pc EXCEPT ![o] = "failing"]
  /\ UNCHANGED <<owner, aborted, queueVars, promiseVars, worldVars, ghostVars>>

Finish(o) ==
  /\ \/ pc[o] = "applied" /\ Settle(o, "done")
     \/ pc[o] = "working" /\ Kind[o] = "removal"
        /\ Settle(o, "done")
     \/ pc[o] = "holding" /\ \E outcome \in Settled : Settle(o, outcome)
     \/ pc[o] = "failing" /\ Settle(o, "failed")
  /\ UNCHANGED <<ahead, behind, worldVars, asked, snapshot>>
-----------------------------------------------------------------------------
\* The timers of automatic work (120 seconds) and of a Passkey refresh (20).
Timeout(o) ==
  /\ Kind[o] \in {"auto", "refresh"} /\ pc[o] \in Holding
  /\ aborted' = aborted \cup {o}
  /\ told' = told \cup {o}
  /\ UNCHANGED <<pc, owner, queueVars, promiseVars, worldVars, asked, snapshot>>

\* PROVIDER_SYNC_CANCEL, BITWARDEN_LOGOUT and a rejected Bitwarden session.
Cancel(p) ==
  /\ AbortOwner(p)
  /\ told' = told \cup WorkOn({p})
  /\ UNCHANGED <<pc, owner, queueVars, promiseVars, worldVars, asked, snapshot>>

Edit ==
  /\ version < MaxEdits /\ ~locked
  /\ version' = version + 1
  /\ UNCHANGED <<pc, owner, aborted, queueVars, promiseVars, paused, locked,
                 pauses, ghostVars>>

\* setProviderAutoSyncPaused up to its first await.
Pause(p) ==
  /\ pauses < MaxPauses
  /\ paused' = paused \cup {p}
  /\ AbortOwner(p)
  /\ told' = told \cup WorkOn({p})
  /\ pauses' = pauses + 1
  /\ UNCHANGED <<pc, owner, queueVars, promiseVars, locked, version, asked, snapshot>>

Resume(p) ==
  /\ p \in paused
  /\ paused' = paused \ {p}
  /\ UNCHANGED <<pc, owner, aborted, queueVars, promiseVars, locked, version,
                 pauses, ghostVars>>

\* abortAll of VAULT_LOCK, of a restore and of the auto-lock alarm. It keeps no
\* owner: the operations it aborted settle later. The lock itself comes after
\* two awaits, and whoever reserves in between is not aborted.
AbortAll ==
  /\ AbortAllOwners
  /\ told' = told \cup WorkOn(Providers)
  /\ UNCHANGED <<pc, queueVars, promiseVars, worldVars, asked, snapshot>>

\* stopAutomaticSync alone: the stored session is gone, the preference is off.
StopAutomatic ==
  /\ aborted' = aborted \cup Automatic
  /\ told' = told \cup Automatic
  /\ UNCHANGED <<pc, owner, queueVars, promiseVars, worldVars, asked, snapshot>>

\* clearPendingPasskeyRequests and dismissals abort logins. One that still waits
\* gives up in ReserveAssert.
AbortLogins(logins) ==
  /\ \A o \in logins : Kind[o] = "assert" /\ pc[o] \in Holding
  /\ aborted' = aborted \cup logins
  /\ told' = told \cup logins
  /\ UNCHANGED <<pc, owner, queueVars, promiseVars, worldVars, asked, snapshot>>

\* service.lock, or a session that has run out: nobody is aborted here.
EndSession ==
  /\ ~locked
  /\ locked' = TRUE
  /\ UNCHANGED <<pc, owner, aborted, queueVars, promiseVars, paused, version,
                 pauses, ghostVars>>

UnlockVault ==
  /\ locked
  /\ locked' = FALSE
  /\ UNCHANGED <<pc, owner, aborted, queueVars, promiseVars, paused, version,
                 pauses, ghostVars>>

Request(o) ==
  RequestSync(o) \/ RequestQueued(o) \/ RequestRefresh(o) \/ RequestAssert(o)

\* What an operation does once it is requested.
Progress(o) ==
  \/ Retry(o) \/ Share(o) \/ ReserveAssert(o)
  \/ Begin(o) \/ Check(o) \/ Reject(o) \/ Reserve(o)
  \/ Read(o) \/ Apply(o) \/ Fail(o) \/ Finish(o)

User ==
  \/ \E o \in Ops : Timeout(o)
  \/ \E p \in Providers : Cancel(p) \/ Pause(p) \/ Resume(p)
  \/ \E logins \in SUBSET Ops : AbortLogins(logins)
  \/ Edit \/ AbortAll \/ StopAutomatic \/ EndSession \/ UnlockVault

Next == User \/ \E o \in Ops : Request(o) \/ Progress(o)

Spec == Init /\ [][Next]_vars

\* Awaited calls return or throw: every transport has a deadline. Nothing
\* makes a user or a timer act.
FairSpec == Spec /\ \A o \in Ops : WF_vars(Progress(o))
-----------------------------------------------------------------------------
(* The registry and the operations agree: a registered owner is an operation *)
(* that still works on that source, so that no source stays busy for ever,   *)
(* and an operation that works and was not aborted is still registered, so   *)
(* that a late release never removed its entry.                              *)
OwnershipExact ==
  /\ \A p \in Providers : owner[p] # NoOp =>
       pc[owner[p]] \in Holding /\ Reserves(owner[p]) /\ p \in Targets[owner[p]]
  /\ \A o \in Ops : pc[o] \in Holding /\ o \notin aborted => owner[Target(o)] = o

(* Synchronization, Passkey refresh, Passkey login and project recovery never *)
(* work on one source together, except one that was told to stop.             *)
OneLiveOwner ==
  \A a, b \in Ops :
    /\ a # b /\ Reserves(a) /\ Reserves(b) /\ Target(a) = Target(b)
    /\ pc[a] \in Holding /\ pc[b] \in Holding
    => a \in aborted \/ b \in aborted

(* Two operations of the queue never have their turn on one source together, *)
(* aborted or not.                                                           *)
QueueExclusion ==
  \A a, b \in Ops :
    a # b /\ Kind[a] \in Queued /\ Kind[b] \in Queued
    /\ pc[a] \in Turn /\ pc[b] \in Turn => Targets[a] \cap Targets[b] = {}

(* A manual synchronization that succeeds has read every edit made before it *)
(* was requested, even when another one was running.                         *)
ManualReadsEdits ==
  \A o \in Ops : Kind[o] = "manual" /\ pc[o] = "done" => snapshot[o] >= asked[o]

(* While a source is paused, automatic work on it is on its way out. *)
PausedWorkAborted ==
  \A o \in Ops :
    Kind[o] = "auto" /\ pc[o] \in Holding /\ Target(o) \in paused => o \in aborted

(* An operation that worked on a source when that source, or everything, was *)
(* told to stop never merges its result, though abortAll has forgotten it and *)
(* another operation may own the source when the result arrives.              *)
AbortsDiscard ==
  [][\A o \in Ops : pc[o] = "reading" /\ pc'[o] = "applied" => o \notin told]_vars

(* Nobody who read in a session that has ended goes on unaborted when the vault *)
(* is unlocked again. Not so: an operation that reserves between abortAll and   *)
(* service.lock, or works when the session runs out, is aborted by nobody, and  *)
(* applyProviderSync takes its result in any session.                           *)
LateResultsDiscarded ==
  [][locked /\ ~locked' => \A o \in Ops : pc[o] = "reading" => o \in aborted]_vars

(* Every operation that was requested ends: no tail, promise or owner keeps  *)
(* another operation waiting for ever, whatever fails, is aborted or paused. *)
RequestsSettle ==
  \A o \in Ops : pc[o] # "idle" ~> pc[o] \in Settled
-----------------------------------------------------------------------------
(* The lease of each owning operation: it has one from its reservation until *)
(* it settles, unless its controller fires first.                            *)
Stage(o) ==
  LET live == o \notin aborted
  IN CASE pc[o] \in {"working", "reading"} -> IF live THEN "holds" ELSE "revoked"
       [] pc[o] = "applied"               -> IF live THEN "merged" ELSE "withdrawn"
       [] pc[o] = "failing"               -> IF live THEN "leaving" ELSE "revoked"
       [] pc[o] \in Settled               -> "over"
       [] OTHER                           -> "new"
Owners == {o \in Ops : Reserves(o)}

Lease == INSTANCE SourceLease
  WITH Users <- Owners, Source <- [o \in Owners |-> Target(o)],
       stage <- [o \in Owners |-> Stage(o)]

(* The runtime implements the lease: queue, registry and aborts give each     *)
(* source to one operation at a time, and what is merged was never revoked    *)
(* before. Of operations that no abort reached it promises nothing.           *)
ImplementsLease == Lease!Spec
=============================================================================
