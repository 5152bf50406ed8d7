---------------------------- MODULE VaultSession ----------------------------
(* The vault at rest and open: the encrypted envelope and the keys that open *)
(* it, the session that holds the key while the vault is unlocked, the       *)
(* decoded snapshot kept beside it, the cache of the logins that may be      *)
(* filled while it is locked, and the operations of the vault service that   *)
(* change them. The service runs one operation at a time; within one, every  *)
(* await is a place where time passes, storage refuses, a session event      *)
(* arrives, or the worker stops. A fill and an export span two operations.   *)
EXTENDS Naturals, Sequences

CONSTANTS
  Logins,       \* logins that may be granted to a locked fill
  MaxKeys,      \* bound on the keys ever made
  MaxWrites,    \* bound on the envelopes ever written
  MaxSessions,  \* bound on the sessions ever started
  MaxFaults     \* bound on refused writes and stopped workers

ASSUME BoundsAssumption ==
  MaxKeys \in Nat /\ MaxWrites \in Nat /\ MaxSessions \in Nat /\ MaxFaults \in Nat

None == 0
Key == 1..MaxKeys
NoEnvelope == [id |-> None, key |-> None, device |-> FALSE, hello |-> FALSE, granted |-> {}]
Envelope == [id : 1..MaxWrites, key : Key, device : BOOLEAN, hello : BOOLEAN, granted : SUBSET Logins]
NoSession == [id |-> None, key |-> None, left |-> 0]
Lease == 2

VARIABLES
  envelope,    \* the stored vault: which version, its key, whether that is a device key, the
               \* mark of Windows Hello, and the logins granted to a locked fill
  deviceKeys,  \* the device keys that are stored
  suspended,   \* the flag that stops a device key from unlocking by itself
  session,     \* the session record: its id, the key it holds, whether its time is left
  snapshot,    \* the decoded state: of which envelope, session and key
  notice,      \* whether the event of a changed session is still to arrive
  cache,       \* the locked autofill record: for which envelope, which logins
  native,      \* whether Windows Hello holds the binding of the vault
  op,          \* the operation at the head of the queue
  fill,        \* an autofill between its context and its dispatch
  export,      \* an authenticated export between capture and return
  shut,        \* whether the user locked the vault and has not asked for more since
  made,        \* the keys, envelopes and sessions made so far
  faults

durable  == <<envelope, deviceKeys, cache, native>>
volatile == <<snapshot, notice, op, fill, export>>
vars == <<durable, suspended, session, volatile, shut, made, faults>>

\* The steps of each operation, an await each.
Script ==
  [setup    |-> <<"key", "resume", "write", "start">>,
   change   |-> <<"key", "cache", "write", "drop", "resume", "start">>,
   restore  |-> <<"write", "cache", "start", "resume", "drop">>,
   mutate   |-> <<"decrypt", "cache", "write", "touch">>,
   grant    |-> <<"decrypt", "cache", "write", "touch">>,
   autolock |-> <<"decrypt", "cache", "write", "touch">>,
   enroll   |-> <<"decrypt", "native", "cache", "write", "touch">>,
   revoke   |-> <<"decrypt", "native", "cache", "write", "touch">>,
   unlock   |-> <<"start", "resume", "cache">>,
   hello    |-> <<"verify", "start", "resume", "cache">>,
   status   |-> <<"start">>,
   lock     |-> <<"suspend", "clear">>,
   read     |-> <<"decrypt", "touch">>,
   capture  |-> <<"decrypt", "capture">>,
   return   |-> <<"return">>]
Kinds == DOMAIN Script
Changes == {"mutate", "grant", "autolock", "enroll", "revoke"}

NoOp == [kind |-> "none", step |-> 0, next |-> NoEnvelope, old |-> None, base |-> None, cleared |-> FALSE]
NoFill == [at |-> "idle", locked |-> FALSE, id |-> None, offered |-> {}]
NoExport == [at |-> "idle", id |-> None, session |-> None, plain |-> FALSE, moved |-> FALSE]

Idle == op.kind = "none"
At(what) == ~Idle /\ Script[op.kind][op.step] = what
Last == op.step = Len(Script[op.kind])

TypeOK ==
  /\ envelope \in Envelope \cup {NoEnvelope}
  /\ deviceKeys \subseteq Key /\ suspended \in BOOLEAN /\ native \in BOOLEAN
  /\ session \in [id : 1..MaxSessions, key : Key, left : 0..Lease] \cup {NoSession}
  /\ snapshot \in [id : 0..MaxWrites, session : 0..MaxSessions, key : 0..MaxKeys]
  /\ notice \in BOOLEAN
  /\ cache \in [id : 0..MaxWrites, logins : SUBSET Logins]
  /\ op = NoOp \/ /\ op.kind \in Kinds /\ op.step \in 1..Len(Script[op.kind])
                  /\ op.next \in Envelope \cup {NoEnvelope} /\ op.old \in {None} \cup Key
                  /\ op.base \in 0..MaxWrites /\ op.cleared \in BOOLEAN
                  /\ DOMAIN op = DOMAIN NoOp
  /\ fill \in [at : {"idle", "ready", "sent"}, locked : BOOLEAN, id : 0..MaxWrites, offered : SUBSET Logins]
  /\ export \in [at : {"idle", "verifying", "verified", "done"}, id : 0..MaxWrites,
                 session : 0..MaxSessions, plain : BOOLEAN, moved : BOOLEAN]
  /\ shut \in BOOLEAN
  /\ made \in [key : 0..MaxKeys, envelope : 0..MaxWrites, session : 0..MaxSessions]
  /\ faults \in 0..MaxFaults

NoSnapshot == [id |-> None, session |-> None, key |-> None]
NoCache == [id |-> None, logins |-> {}]

Init ==
  /\ envelope = NoEnvelope /\ deviceKeys = {} /\ suspended = FALSE /\ native = FALSE
  /\ session = NoSession /\ snapshot = NoSnapshot /\ notice = FALSE /\ cache = NoCache
  /\ op = NoOp /\ fill = NoFill /\ export = NoExport /\ shut = FALSE
  /\ made = [key |-> 0, envelope |-> 0, session |-> 0] /\ faults = 0
-----------------------------------------------------------------------------
(* What operations are made of.                                              *)
Live == session.left > 0
Fault == faults < MaxFaults /\ faults' = faults + 1
Continue == op' = IF Last THEN NoOp ELSE [op EXCEPT !.step = @ + 1]
Finish == op' = NoOp
Begins(kind, step) == op' = [NoOp EXCEPT !.kind = kind, !.step = step]
Serves(kind, step, next, old) ==
  op' = [NoOp EXCEPT !.kind = kind, !.step = step, !.next = next, !.old = old]

\* A session or envelope that changes under an export is remembered.
Moved == export' = [export EXCEPT !.moved = export.at # "idle"]

EndSession ==
  /\ session' = NoSession /\ snapshot' = NoSnapshot
  /\ notice' = (notice \/ session # NoSession)
  /\ IF session # NoSession THEN Moved ELSE UNCHANGED export

\* A definition whose name begins with Bug is a slip of the definition it precedes.
BugRenewAny == session # NoSession
MayRenew == Live
Renewed == session' = [session EXCEPT !.left = Lease]

BugSameId(key, device, hello, granted) ==
  [id |-> made.envelope, key |-> key, device |-> device, hello |-> hello, granted |-> granted]
NextEnvelope(key, device, hello, granted) ==
  [id |-> made.envelope + 1, key |-> key, device |-> device, hello |-> hello, granted |-> granted]

\* Only a device key is stored, and that before the vault it opens.
BugKeyless(kind, device) == IF kind = "setup" THEN 3 ELSE 2
FirstStep(kind, device) == IF device THEN 1 ELSE IF kind = "setup" THEN 3 ELSE 2

\* Room for what an operation may make.
Room == made.key < MaxKeys /\ made.envelope < MaxWrites /\ made.session < MaxSessions
MakeBoth == made' = [made EXCEPT !.key = @ + 1, !.envelope = @ + 1]
-----------------------------------------------------------------------------
(* An operation reaches the head of the queue.                               *)
BeginSetup(device) ==
  /\ Idle /\ envelope = NoEnvelope /\ Room /\ MakeBoth
  /\ Serves("setup", FirstStep("setup", device), NextEnvelope(made.key + 1, device, FALSE, {}), None)
  /\ shut' = FALSE
  /\ UNCHANGED <<durable, suspended, session, snapshot, notice, fill, export, faults>>

\* A device key opens the vault by itself, unless the user locked it or Windows
\* Hello guards it.
MayOpenItself == envelope.device /\ ~suspended /\ ~envelope.hello

BeginStatus ==
  /\ Idle /\ envelope # NoEnvelope /\ ~Live
  /\ IF session # NoSession THEN EndSession /\ UNCHANGED op
     ELSE /\ snapshot' = NoSnapshot
          /\ IF MayOpenItself /\ envelope.key \in deviceKeys /\ made.session < MaxSessions
             THEN Serves("status", 1, envelope, None) ELSE UNCHANGED op
          /\ UNCHANGED <<session, notice, export>>
  /\ UNCHANGED <<durable, suspended, fill, shut, made, faults>>

BeginUnlock(right) ==
  /\ Idle /\ envelope # NoEnvelope /\ ~(envelope.device /\ envelope.hello)
  /\ made.session < MaxSessions
  /\ IF IF envelope.device THEN envelope.key \in deviceKeys ELSE right
     THEN Serves("unlock", 1, envelope, None) /\ UNCHANGED <<session, snapshot, notice, export>>
     ELSE EndSession /\ UNCHANGED op
  /\ shut' = FALSE
  /\ UNCHANGED <<durable, suspended, fill, made, faults>>

BeginHello ==
  /\ Idle /\ envelope.hello /\ made.session < MaxSessions
  /\ Serves("hello", 1, envelope, None)
  /\ shut' = FALSE
  /\ UNCHANGED <<durable, suspended, session, snapshot, notice, fill, export, made, faults>>

BeginLock ==
  /\ Idle
  /\ Begins("lock", IF envelope.device THEN 1 ELSE 2)
  /\ UNCHANGED <<durable, suspended, session, snapshot, notice, fill, export, shut, made, faults>>

\* unlockedContext: the session is there and has time left, or it is cleared.
BeginOpen(kind) ==
  /\ Idle /\ envelope # NoEnvelope
  /\ kind = "capture" => export.at = "idle"
  /\ kind \in Changes => made.envelope < MaxWrites
  /\ IF Live
     THEN /\ Begins(kind, 1)
          /\ snapshot' = IF snapshot.key = session.key /\ snapshot.session = session.id
                         THEN snapshot ELSE NoSnapshot
          /\ UNCHANGED <<session, notice, export>>
     ELSE EndSession /\ UNCHANGED op
  /\ UNCHANGED <<durable, suspended, fill, shut, made, faults>>

\* The present password, or the device key, is the proof; no session is needed.
BeginChange(device) ==
  /\ Idle /\ envelope # NoEnvelope /\ ~envelope.hello /\ Room
  /\ envelope.device => envelope.key \in deviceKeys
  /\ Serves("change", FirstStep("change", device),
            NextEnvelope(made.key + 1, device, FALSE, envelope.granted),
            IF envelope.device THEN envelope.key ELSE None)
  /\ MakeBoth /\ shut' = FALSE
  /\ UNCHANGED <<durable, suspended, session, snapshot, notice, fill, export, faults>>

\* A portable backup has a password of its own and grants nothing on this device.
BeginRestore ==
  /\ Idle /\ Room /\ MakeBoth
  /\ envelope.device => envelope.key \in deviceKeys
  /\ Serves("restore", 1, NextEnvelope(made.key + 1, FALSE, FALSE, {}),
            IF envelope.device THEN envelope.key ELSE None)
  /\ shut' = FALSE
  /\ UNCHANGED <<durable, suspended, session, snapshot, notice, fill, export, faults>>

\* recordUserActivity
RecordActivity ==
  /\ Idle /\ MayRenew /\ Renewed
  /\ UNCHANGED <<durable, suspended, volatile, shut, made, faults>>
-----------------------------------------------------------------------------
(* The steps.                                                                *)
\* readDecodedSnapshot: the snapshot serves if it is of this envelope and
\* session; otherwise the key must open the envelope, and neither the session
\* nor the memory may have been cleared meanwhile.
BugSameSession == snapshot.session = session.id /\ snapshot.key = session.key
SameSnapshot == snapshot = [id |-> envelope.id, session |-> session.id, key |-> session.key]
Opened == IF SameSnapshot THEN snapshot.id ELSE envelope.id

Wanted(granted) ==
  CASE op.kind = "mutate" -> SUBSET granted
    [] op.kind = "grant"  -> {granted \cup {l} : l \in Logins} \cup {granted \ {l} : l \in Logins}
    [] OTHER              -> {granted}

Allowed ==
  /\ op.kind = "enroll" => envelope.device /\ ~envelope.hello
  /\ op.kind = "revoke" => envelope.hello

Decrypted ==
  /\ snapshot' = [id |-> Opened, session |-> session.id, key |-> session.key]
  /\ IF op.kind \notin Changes
     THEN op' = [op EXCEPT !.step = 2, !.base = Opened] /\ UNCHANGED made
     ELSE /\ made' = [made EXCEPT !.envelope = @ + 1]
          /\ \E granted \in Wanted(envelope.granted) :
               op' = [op EXCEPT !.step = 2, !.base = Opened,
                        !.next = NextEnvelope(session.key, envelope.device,
                                   CASE op.kind = "enroll" -> TRUE
                                     [] op.kind = "revoke" -> FALSE
                                     [] OTHER -> envelope.hello, granted)]

Decrypt ==
  /\ At("decrypt")
  /\ \/ /\ SameSnapshot \/ session.key = envelope.key
        /\ Live /\ Allowed /\ Decrypted
     \/ /\ SameSnapshot \/ session.key = envelope.key
        /\ Live /\ ~Allowed /\ Finish
        /\ snapshot' = [id |-> Opened, session |-> session.id, key |-> session.key]
        /\ UNCHANGED made
     \/ /\ \/ ~SameSnapshot /\ session.key # envelope.key
           \/ ~Live
           \/ op.cleared
        /\ snapshot' = NoSnapshot /\ Finish /\ UNCHANGED made
  /\ UNCHANGED <<durable, suspended, session, notice, fill, export, shut, faults>>

\* Windows Hello asks the user, before the key is read.
Verify ==
  /\ At("verify")
  /\ \/ /\ native /\ envelope.key \in deviceKeys
        /\ Continue /\ UNCHANGED <<session, snapshot, notice, export>>
     \/ /\ native /\ envelope.key \notin deviceKeys
        /\ EndSession /\ Finish
     \/ Finish /\ UNCHANGED <<session, snapshot, notice, export>>
  /\ UNCHANGED <<durable, suspended, fill, shut, made, faults>>

Native ==
  /\ At("native")
  /\ \/ native' = (op.kind = "enroll") /\ Continue
     \/ Finish /\ UNCHANGED native
  /\ UNCHANGED <<envelope, deviceKeys, cache, suspended, session, snapshot, notice, fill, export,
                 shut, made, faults>>

WriteKey ==
  /\ At("key")
  /\ \/ deviceKeys' = deviceKeys \cup {op.next.key} /\ Continue /\ UNCHANGED faults
     \/ Fault /\ Finish /\ UNCHANGED deviceKeys
  /\ UNCHANGED <<envelope, cache, native, suspended, session, snapshot, notice, fill, export,
                 shut, made>>

\* The record is of one envelope; one that cannot be written is left as it was,
\* which only an explicit grant does not accept.
CacheOf(e) == IF e.granted = {} THEN NoCache ELSE [id |-> e.id, logins |-> e.granted]
RefreshCache ==
  /\ At("cache")
  /\ \/ cache' = CacheOf(op.next) /\ Continue /\ UNCHANGED faults
     \/ /\ Fault /\ UNCHANGED cache
        /\ IF op.kind = "grant" THEN Finish ELSE Continue
  /\ UNCHANGED <<envelope, deviceKeys, native, suspended, session, snapshot, notice, fill, export,
                 shut, made>>

\* The vault itself. A change to the time limit wants the session it began with;
\* an enrolment that cannot be stored is taken back, if Windows Hello will.
MayWrite == op.kind = "autolock" => Live
Write ==
  /\ At("write")
  /\ \/ /\ MayWrite
        /\ envelope' = op.next /\ Moved /\ Continue
        /\ snapshot' = IF op.kind \in Changes THEN NoSnapshot ELSE snapshot
        /\ UNCHANGED <<native, faults>>
     \/ /\ Fault /\ Finish
        /\ native' \in IF op.kind = "enroll" THEN {FALSE, native} ELSE {native}
        /\ UNCHANGED <<envelope, export, snapshot>>
     \/ ~MayWrite /\ Finish /\ UNCHANGED <<envelope, export, snapshot, native, faults>>
  /\ UNCHANGED <<deviceKeys, cache, suspended, session, notice, fill, shut, made>>

\* startSession; who replaced the key ends the session he cannot replace.
Start ==
  /\ At("start")
  /\ \/ /\ made' = [made EXCEPT !.session = @ + 1]
        /\ session' = [id |-> made.session + 1, key |-> op.next.key, left |-> Lease]
        /\ snapshot' = NoSnapshot /\ notice' = TRUE /\ Moved
        /\ Continue /\ UNCHANGED faults
     \/ /\ Fault /\ Finish /\ UNCHANGED made
        /\ IF op.kind \in {"change", "restore"} THEN EndSession
           ELSE snapshot' = NoSnapshot /\ UNCHANGED <<session, notice, export>>
  /\ UNCHANGED <<durable, suspended, fill, shut>>

Resume ==
  /\ At("resume")
  /\ \/ suspended' = FALSE /\ Continue /\ UNCHANGED <<session, snapshot, notice, export, faults>>
     \/ /\ Fault /\ Finish /\ UNCHANGED suspended
        /\ IF op.kind = "restore" THEN EndSession ELSE UNCHANGED <<session, snapshot, notice, export>>
  /\ UNCHANGED <<durable, fill, shut, made>>

\* The replaced device key; after a restore also the replaced Windows Hello
\* binding, as far as either can be removed.
Drop ==
  /\ At("drop")
  /\ \/ /\ deviceKeys' = deviceKeys \ {op.old} /\ Continue
        /\ native' = (native /\ op.kind # "restore") /\ UNCHANGED faults
     \/ /\ Fault /\ Finish /\ UNCHANGED <<deviceKeys, native>>
  /\ UNCHANGED <<envelope, cache, suspended, session, snapshot, notice, fill, export, shut, made>>

\* touchSession, best effort after a write; a new time limit must hold at once.
Touch ==
  /\ At("touch")
  /\ \/ /\ MayRenew /\ Renewed /\ Finish
        /\ UNCHANGED <<suspended, snapshot, notice, export, faults>>
     \/ /\ ~MayRenew /\ Finish /\ UNCHANGED faults
        /\ IF op.kind = "autolock" THEN EndSession /\ suspended' = (suspended \/ envelope.device)
           ELSE UNCHANGED <<suspended, session, snapshot, notice, export>>
     \/ /\ Fault /\ Finish
        /\ IF op.kind = "autolock" THEN EndSession /\ suspended' = (suspended \/ envelope.device)
           ELSE UNCHANGED <<suspended, session, snapshot, notice, export>>
     \/ /\ op.kind = "read" /\ Finish     \* a read that is no activity
        /\ UNCHANGED <<suspended, session, snapshot, notice, export, faults>>
  /\ UNCHANGED <<durable, fill, shut, made>>

Suspend ==
  /\ At("suspend")
  /\ \/ suspended' = TRUE /\ Continue /\ UNCHANGED faults
     \/ Fault /\ Finish /\ UNCHANGED suspended
  /\ UNCHANGED <<durable, session, snapshot, notice, fill, export, shut, made>>

Clear ==
  /\ At("clear")
  /\ EndSession /\ Finish /\ shut' = TRUE
  /\ UNCHANGED <<durable, suspended, fill, made, faults>>
-----------------------------------------------------------------------------
(* An autofill: its context, then the page, then its dispatch.               *)
ReadContext ==
  /\ Idle /\ envelope # NoEnvelope /\ fill.at = "idle"
  /\ \/ /\ Live /\ session.key = envelope.key
        /\ snapshot' = [id |-> envelope.id, session |-> session.id, key |-> session.key]
        /\ fill' = [at |-> "ready", locked |-> FALSE, id |-> envelope.id, offered |-> Logins]
     \/ /\ ~Live /\ cache.id = envelope.id
        /\ snapshot' = NoSnapshot
        /\ fill' = [at |-> "ready", locked |-> TRUE, id |-> envelope.id, offered |-> cache.logins]
  /\ UNCHANGED <<durable, suspended, session, notice, op, export, shut, made, faults>>

StillGranted == fill.locked = ~Live /\ fill.id = envelope.id
Dispatch ==
  /\ Idle /\ fill.at = "ready"
  /\ fill' = IF StillGranted THEN [fill EXCEPT !.at = "sent"] ELSE NoFill
  /\ UNCHANGED <<durable, suspended, session, snapshot, notice, op, export, shut, made, faults>>

FillEnds ==
  /\ fill.at = "sent" /\ fill' = NoFill
  /\ UNCHANGED <<durable, suspended, session, snapshot, notice, op, export, shut, made, faults>>
-----------------------------------------------------------------------------
(* An authenticated export. The user proves who he is outside the queue.     *)
Capture ==
  /\ At("capture") /\ Finish
  /\ IF envelope.device /\ ~envelope.hello THEN UNCHANGED export
     ELSE \E plain \in BOOLEAN :
            export' = [at |-> "verifying", id |-> envelope.id, session |-> session.id,
                       plain |-> plain, moved |-> FALSE]
  /\ UNCHANGED <<durable, suspended, session, snapshot, notice, fill, shut, made, faults>>

VerifyExport ==
  /\ export.at = "verifying"
  /\ export' = [export EXCEPT !.at = "verified"]
  /\ UNCHANGED <<durable, suspended, session, snapshot, notice, op, fill, shut, made, faults>>

ExportFails ==
  /\ export.at \in {"verifying", "done"} /\ export' = NoExport
  /\ UNCHANGED <<durable, suspended, session, snapshot, notice, op, fill, shut, made, faults>>

BugSameVault == envelope.id = export.id
StillVerified == session.id = export.session /\ envelope.id = export.id
BeginReturn ==
  /\ Idle /\ export.at = "verified"
  /\ IF Live /\ StillVerified
     THEN Begins("return", 1) /\ UNCHANGED <<session, snapshot, notice, export>>
     ELSE /\ export' = NoExport /\ UNCHANGED op
          /\ IF Live THEN UNCHANGED <<session, snapshot, notice>>
             ELSE /\ session' = NoSession /\ snapshot' = NoSnapshot
                  /\ notice' = (notice \/ session # NoSession)
  /\ UNCHANGED <<durable, suspended, fill, shut, made, faults>>

\* Only an encrypted export looks at the session once more.
Return ==
  /\ At("return") /\ Finish
  /\ export' = IF export.plain \/ Live THEN [export EXCEPT !.at = "done"] ELSE NoExport
  /\ UNCHANGED <<durable, suspended, session, snapshot, notice, fill, shut, made, faults>>
-----------------------------------------------------------------------------
TimePasses ==
  /\ Live /\ session' = [session EXCEPT !.left = @ - 1]
  /\ UNCHANGED <<durable, suspended, volatile, shut, made, faults>>

\* chrome.storage.onChanged: a session that began or ended clears the memory.
Notice ==
  /\ notice /\ notice' = FALSE
  /\ snapshot' = NoSnapshot
  /\ op' = IF Idle THEN op ELSE [op EXCEPT !.cleared = TRUE]
  /\ UNCHANGED <<durable, suspended, session, fill, export, shut, made, faults>>

Forgotten ==
  /\ snapshot' = NoSnapshot /\ notice' = FALSE /\ op' = NoOp /\ fill' = NoFill /\ export' = NoExport

WorkerStops ==
  /\ Fault /\ Forgotten
  /\ UNCHANGED <<durable, suspended, session, shut, made>>

\* Session storage is gone with the browser, the flag with it.
BrowserRestarts ==
  /\ Fault /\ Forgotten
  /\ session' = NoSession /\ suspended' = FALSE /\ shut' = FALSE
  /\ UNCHANGED <<durable, made>>

Begin ==
  \/ \E device \in BOOLEAN : BeginSetup(device) \/ BeginChange(device)
  \/ BeginStatus \/ BeginHello \/ BeginLock \/ BeginRestore \/ BeginReturn
  \/ \E right \in BOOLEAN : BeginUnlock(right)
  \/ \E kind \in Changes \cup {"read", "capture"} : BeginOpen(kind)

Step ==
  \/ Decrypt \/ Verify \/ Native \/ WriteKey \/ RefreshCache \/ Write \/ Start
  \/ Resume \/ Drop \/ Touch \/ Suspend \/ Clear \/ Capture \/ Return

Next ==
  \/ Begin \/ Step \/ RecordActivity \/ ReadContext \/ Dispatch \/ FillEnds
  \/ VerifyExport \/ ExportFails \/ TimePasses \/ Notice \/ WorkerStops \/ BrowserRestarts

Spec == Init /\ [][Next]_vars
-----------------------------------------------------------------------------
\* Whatever stops or refuses while protection changes: the key that opens the
\* stored vault is there (setup, changeMasterPassword, restoreEncryptedBackup).
Openable == envelope.device => envelope.key \in deviceKeys

\* An operation works on the vault that is stored, never on an earlier state that
\* was kept in memory (readDecodedSnapshot).
WorksOnStored == op.base # None => envelope.id \in {op.base, op.next.id}

\* A session that ended or ran out is never continued: a key gets more time only
\* while it has some, a new session is of the key of the stored vault, and what the
\* user locked stays locked until the user asks for it, also for the alarm, a new
\* worker and a vault that opens by itself (touch, startSession, lock, status).
NotRevived ==
  [][session' # NoSession /\ session' # session
     => /\ ~shut'
        /\ \/ session'.id = session.id /\ session'.key = session.key /\ session.left > 0
           \/ session'.id > session.id /\ session'.key = envelope.key]_vars

\* What leaves the vault is granted when it leaves. A fill: by an open vault, or as
\* one of the logins the stored vault opens to a locked fill (dispatchAutofill). An
\* export: by the vault and the session in which the user proved who he is, with
\* nothing written, locked or unlocked in between (authenticatedExport).
LeavesGranted ==
  [][/\ fill.at = "ready" /\ fill'.at = "sent" => Live \/ fill.offered \subseteq envelope.granted
     /\ export.at # "done" /\ export'.at = "done" => ~export.moved]_vars

\* A vault that Windows Hello guards has its binding there (revokeWindowsHello).
HelloUsable == envelope.hello => native
=============================================================================
