---------------------------- MODULE PasskeyCounter ----------------------------
(* The signature counter of one passkey that several installations hold: the *)
(* count in each vault, the count in the source, and logins that reserve a   *)
(* number before they sign. A Bitwarden Cipher is written under the revision *)
(* that was read; a KeePass file under its ETag, or else it is rebased.      *)
(* The source of the passkey is one account; the merge of its receipts with  *)
(* the answer of the server is one step (BitwardenSync splits it).           *)
EXTENDS Naturals, Sequences

CONSTANTS
  Devices,    \* installations that hold the passkey
  Requests,   \* logins that pages may ask for
  At,         \* the installation of a login
  Kinds,      \* kinds of source to consider
  MaxCount,   \* the last number a counter can take, 0xffffffff
  MaxLogins,  \* bound on logins begun
  MaxOthers,  \* bound on writes of other clients
  MaxPolls,   \* bound on background synchronizations
  MaxFaults   \* bound on faults

ASSUME DevicesAssumption == At \in [Requests -> Devices]
ASSUME KindsAssumption == Kinds \subseteq {"local", "bitwarden", "keepass"}
ASSUME BoundsAssumption ==
  /\ MaxCount \in Nat \ {0} /\ MaxLogins \in Nat /\ MaxOthers \in Nat
  /\ MaxPolls \in Nat /\ MaxFaults \in Nat

VARIABLES
  kind,      \* what the passkey's source is
  source,    \* the remote passkey: its count and its revision
  vault,     \* the passkey in each vault
  receipt,   \* the count of a write whose outcome is open, 0 when there is none
  file,      \* the working copy of each installation (KeePass)
  lock,      \* who holds the source at each installation
  sync,      \* the synchronization that runs at each installation
  late,      \* writes that were abandoned and may still arrive
  login,     \* the logins
  signed,    \* the counts delivered by each installation, in order
  held,      \* counts that the source has had
  spent,     \* counts that other clients wrote, and signed with
  regressed, \* whether another client has set the counter back
  logins, others, polls, faults

storeVars  == <<source, held, spent, regressed>>
boundVars  == <<logins, others, polls, faults>>
vars == <<kind, storeVars, vault, receipt, file, lock, sync, late, login, signed, boundVars>>

Counts  == 0..MaxCount
Revs    == Nat \ {0}
Seen    == [count : Counts, rev : Revs]
NoClash == [none |-> TRUE]
NoOne   == "none"
Poll    == "poll"
NoSync  == [at |-> "idle"]
Nothing == [count |-> 0, rev |-> 1]
Idle    == [at |-> "idle"]
Over    == [at |-> "ended", count |-> 0, tries |-> 0]
NoBase  == MaxCount + 1  \* a baseline that no count equals
ASSUME NamesAssumption == {NoOne, Poll} \cap Requests = {}

\* mark: signCountHighWaterMark; base: the revision (Bitwarden) or the baseline
\* count (KeePass) of the reference; queued: a mutation awaits.
Passkey == [count : Counts, mark : Counts, base : Nat, queued : BOOLEAN,
            clash : {NoClash} \cup Seen]
Copy == [base : Counts, work : Counts, etag : Revs, dirty : BOOLEAN]
\* send: the run may write; rebased: it wrote over another client's change;
\* reread: it took the file anew; got: the Cipher it read; put: what it writes.
Runs == [at : {"recover", "recovered", "read", "got", "put", "done"},
         by : Requests \cup {Poll}, send : BOOLEAN, rebased : BOOLEAN,
         reread : BOOLEAN, got : Seen, put : Seen]
Logins == [at : {"begun", "fresh", "staged", "signs", "ended"}, count : Counts, tries : Nat]

TypeOK ==
  /\ kind \in Kinds
  /\ source \in Seen /\ late \subseteq Seen
  /\ vault \in [Devices -> Passkey]
  /\ \A d \in Devices : ~vault[d].queued => vault[d].mark >= vault[d].count
  /\ receipt \in [Devices -> Counts]
  /\ file \in [Devices -> Copy]
  /\ sync \in [Devices -> {NoSync} \cup Runs]
  /\ lock \in [Devices -> {NoOne, Poll} \cup Requests]
  /\ \A d \in Devices : sync[d] # NoSync => sync[d].by = lock[d]
  /\ login \in [Requests -> {Idle} \cup Logins]
  /\ signed \in [Devices -> Seq(Counts)]
  /\ held \subseteq Counts /\ spent \subseteq Counts /\ regressed \in BOOLEAN
  /\ logins \in 0..MaxLogins /\ others \in 0..MaxOthers
  /\ polls \in 0..MaxPolls /\ faults \in 0..MaxFaults

\* The passkey has been synchronized; its counter is at zero or has a history.
Init ==
  /\ kind \in Kinds
  /\ \E c \in 0..1 :
       /\ source = [count |-> c, rev |-> 1]
       /\ vault = [d \in Devices |->
            [count |-> c, mark |-> c, base |-> IF kind = "keepass" THEN c ELSE 1,
             queued |-> FALSE, clash |-> NoClash]]
       /\ file = [d \in Devices |-> [base |-> c, work |-> c, etag |-> 1, dirty |-> FALSE]]
       /\ held = {c}
  /\ receipt = [d \in Devices |-> 0]
  /\ lock = [d \in Devices |-> NoOne] /\ sync = [d \in Devices |-> NoSync]
  /\ late = {} /\ spent = {} /\ regressed = FALSE
  /\ login = [r \in Requests |-> Idle] /\ signed = [d \in Devices |-> <<>>]
  /\ logins = 0 /\ others = 0 /\ polls = 0 /\ faults = 0
-----------------------------------------------------------------------------
Larger(a, b) == IF a > b THEN a ELSE b

\* assertPasskeyCounterNotRegressed and nextPasskeyCounter
NotRegressed(count, mark) == count >= mark
\* A definition whose name begins with Bug is a slip of the definition it precedes.
BugNoLimit(p) == NotRegressed(p.count, p.mark)
MayAdvance(p) == p.count < MaxCount /\ NotRegressed(p.count, p.mark)

\* preservePasskeyCounterHistory: what is taken from a source keeps the history.
MarkAfter(p, count) == Larger(p.mark, count)
Taken(p, count, base) ==
  [p EXCEPT !.count = count, !.mark = MarkAfter(p, count), !.base = base,
            !.queued = FALSE, !.clash = NoClash]

\* The other clients of the account write what they like; one that advances
\* the counter has signed with the number.
OthersWrite ==
  /\ kind # "local" /\ others < MaxOthers
  /\ others' = others + 1
  /\ \E c \in Counts \ {source.count} :
       /\ source' = [count |-> c, rev |-> source.rev + 1]
       /\ held' = held \cup {c} /\ spent' = spent \cup {c}
       /\ regressed' = (regressed \/ c < source.count)
  /\ UNCHANGED <<kind, vault, receipt, file, lock, sync, late, login, signed, logins, polls,
                 faults>>

Stored(count) ==
  /\ source' = [count |-> count, rev |-> source.rev + 1]
  /\ held' = held \cup {count}
  /\ UNCHANGED <<spent, regressed>>
\* A write whose request was abandoned arrives, and is refused when it is stale.
LateWrite ==
  /\ \E m \in late :
       /\ late' = late \ {m}
       /\ IF m.rev = source.rev THEN Stored(m.count) ELSE UNCHANGED storeVars
  /\ UNCHANGED <<kind, vault, receipt, file, lock, sync, login, signed, boundVars>>
-----------------------------------------------------------------------------
(* A synchronization of the source, by a login or in the background. send:   *)
(* whether it is given the queued mutation.                                  *)
Running(d, at) == sync[d] # NoSync /\ sync[d].at = at
Started(d, by, send) ==
  [at |-> IF kind = "keepass" /\ receipt[d] # 0 THEN "recover" ELSE "read",
   by |-> by, send |-> send, rebased |-> FALSE, reread |-> FALSE, got |-> Nothing, put |-> Nothing]

PollStarts(d) ==
  /\ kind # "local" /\ lock[d] = NoOne /\ polls < MaxPolls
  /\ polls' = polls + 1
  /\ lock' = [lock EXCEPT ![d] = Poll]
  /\ \E send \in IF kind = "bitwarden" THEN BOOLEAN ELSE {TRUE} :
       sync' = [sync EXCEPT ![d] = Started(d, Poll, send)]
  /\ UNCHANGED <<kind, storeVars, vault, receipt, file, late, login, signed, logins, others,
                 faults>>

\* prepareBitwardenAssertion and prepareFileAssertion after a refresh: a
\* pending mutation, a conflict or a regressed counter ends the login. A count
\* that was written over another client's is not taken for a reservation.
IsConfirmed(r, p) == p.count = login[r].count
BugPendingIgnored(p) == NotRegressed(p.count, p.mark)
Clear(p) == ~p.queued /\ p.clash = NoClash /\ NotRegressed(p.count, p.mark)
LoginAfter(r, p, rebased) ==
  LET was == login[r]
  IN IF was.at = "begun" /\ Clear(p) THEN [was EXCEPT !.at = "fresh", !.count = p.count]
     ELSE IF was.at = "staged" /\ Clear(p) /\ rebased /\ was.tries < 3
     THEN [was EXCEPT !.at = "fresh", !.count = p.count]
     ELSE IF was.at = "staged" /\ Clear(p) /\ ~rebased /\ IsConfirmed(r, p)
     THEN [was EXCEPT !.at = "signs", !.count = p.count]
     ELSE Over

\* A file's source is free again when the count is reserved; a Bitwarden
\* source when the login is over.
Ended(d, p) ==
  LET r == sync[d].by
  IN /\ sync' = [sync EXCEPT ![d] = NoSync]
     /\ login' = IF r = Poll THEN login
                 ELSE [login EXCEPT ![r] = LoginAfter(r, p, sync[d].rebased)]
     /\ lock' = IF r = Poll \/ login'[r].at = "ended"
                   \/ (kind = "keepass" /\ login'[r].at = "signs")
                THEN [lock EXCEPT ![d] = NoOne] ELSE lock
-----------------------------------------------------------------------------
(* Bitwarden. The Cipher is read, and compared with the vault.               *)
Fetch(d) ==
  /\ kind = "bitwarden" /\ Running(d, "read")
  /\ sync' = [sync EXCEPT ![d].at = "got", ![d].got = source]
  /\ UNCHANGED <<kind, storeVars, vault, receipt, file, lock, late, login, signed, boundVars>>

Observed(p, got) == [p EXCEPT !.mark = MarkAfter(p, got.count)]
Regressed(p, got) ==
  \/ ~NotRegressed(got.count, p.mark)
  \/ p.queued /\ ~NotRegressed(p.count, MarkAfter(p, got.count))
Differs(p, got) == got.rev # p.base /\ got.count # p.count
\* A matching receipt confirms the mutation without another write.
Confirmed(d, p, got) == p.queued /\ receipt[d] # 0 /\ receipt[d] = got.count
Writes(d, p, got) ==
  p.queued /\ sync[d].send /\ ~Confirmed(d, p, got) /\ ~Regressed(p, got) /\ ~Differs(p, got)
Compared(d, p, got) ==
  LET seen == IF NotRegressed(got.count, p.mark) THEN Observed(p, got) ELSE p
  IN CASE Regressed(p, got) -> [seen EXCEPT !.clash = got]
       [] ~Regressed(p, got) /\ (~p.queued \/ Confirmed(d, p, got)) ->
            Taken(p, got.count, got.rev)
       [] OTHER -> \* only a refresh that may not send gets here without a difference
            [seen EXCEPT !.base = IF sync[d].send THEN @ ELSE got.rev,
                         !.clash = IF Differs(p, got) THEN got ELSE NoClash]

Decide(d) ==
  LET got == sync[d].got
  IN /\ Running(d, "got") /\ ~Writes(d, vault[d], got)
     /\ vault' = [vault EXCEPT ![d] = Compared(d, @, got)]
     /\ receipt' = [receipt EXCEPT ![d] = IF vault'[d].queued THEN @ ELSE 0]
     /\ Ended(d, vault'[d])
     /\ UNCHANGED <<kind, storeVars, file, late, signed, boundVars>>
Attempt(d) ==
  /\ Running(d, "got") /\ Writes(d, vault[d], sync[d].got)
  /\ receipt' = [receipt EXCEPT ![d] = vault[d].count]
  /\ sync' = [sync EXCEPT ![d].at = "put",
              ![d].put = [count |-> vault[d].count, rev |-> sync[d].got.rev]]
  /\ UNCHANGED <<kind, storeVars, vault, file, lock, late, login, signed, boundVars>>

\* The write is stored, or refused: then the edit is in conflict.
Put(d) ==
  /\ kind = "bitwarden" /\ Running(d, "put")
  /\ IF sync[d].put.rev = source.rev
     THEN /\ Stored(sync[d].put.count)
          /\ sync' = [sync EXCEPT ![d].at = "done", ![d].put = Nothing,
                             ![d].got = source']
          /\ UNCHANGED <<vault, lock, login>>
     ELSE /\ vault' = [vault EXCEPT ![d] = [Observed(@, sync[d].got) EXCEPT !.clash = sync[d].got]]
          /\ Ended(d, vault'[d])
          /\ UNCHANGED storeVars
  /\ UNCHANGED <<kind, receipt, file, late, signed, boundVars>>
Acknowledge(d) ==
  /\ kind = "bitwarden" /\ Running(d, "done")
  /\ vault' = [vault EXCEPT ![d] = Taken(@, sync[d].got.count, sync[d].got.rev)]
  /\ receipt' = [receipt EXCEPT ![d] = 0]
  /\ Ended(d, vault'[d])
  /\ UNCHANGED <<kind, storeVars, file, late, signed, boundVars>>
-----------------------------------------------------------------------------
(* KeePass. The mutation is written in the working copy and saved with its   *)
(* receipt; the copy is published; what it holds then is taken.              *)
Edits(d) == LET p == vault[d] IN p.queued /\ p.count # p.base /\ file[d].work = p.base
Save(d) ==
  /\ kind = "keepass" /\ Running(d, "read")
  /\ IF Edits(d)
     THEN /\ file' = [file EXCEPT ![d].work = vault[d].count, ![d].dirty = TRUE]
          /\ receipt' = [receipt EXCEPT ![d] = vault[d].count]
     ELSE UNCHANGED <<file, receipt>>
  /\ sync' = [sync EXCEPT ![d].at = "put"]
  /\ UNCHANGED <<kind, storeVars, vault, lock, late, login, signed, boundVars>>

Stale(f)   == f.etag # source.rev
Agrees(f)  == f.work = f.base \/ source.count \in {f.base, f.work}
Rebased(f) == IF f.work = f.base THEN source.count ELSE f.work
ToPublish(f) == IF Stale(f) THEN Rebased(f) ELSE f.work
MayPublish(f) == ~f.dirty \/ ~Stale(f) \/ Agrees(f)
BugNeverStale(f) == FALSE
WasRebased(f) == f.dirty /\ Stale(f)
Published(at) == IF at = "recover" THEN "recovered" ELSE "done"
Publish(d) ==
  LET f == file[d]
  IN /\ kind = "keepass" /\ (Running(d, "recover") \/ Running(d, "put"))
     /\ MayPublish(f)
     /\ IF f.dirty THEN Stored(ToPublish(f)) ELSE UNCHANGED storeVars
     /\ file' = [file EXCEPT ![d] = [base |-> source'.count, work |-> source'.count,
                                     etag |-> source'.rev, dirty |-> FALSE]]
     /\ sync' = [sync EXCEPT ![d].at = Published(@), ![d].reread = Stale(f),
                             ![d].rebased = sync[d].at = "put" /\ WasRebased(f)]
     /\ UNCHANGED <<kind, vault, receipt, lock, late, login, signed, boundVars>>

\* An edit that the adapter kept back is in conflict, unless the file was read
\* again; after a recovery comes the synchronization itself.
Merged(d, p) ==
  LET count == file[d].work
  IN IF ~p.queued \/ receipt[d] # 0 \/ sync[d].reread \/ p.base \in {p.count, NoBase}
     THEN Taken(p, count, count)
     ELSE [p EXCEPT !.clash = [count |-> count, rev |-> file[d].etag]]
Merge(d) ==
  /\ kind = "keepass" /\ (Running(d, "recovered") \/ Running(d, "done"))
  /\ vault' = [vault EXCEPT ![d] = Merged(d, @)]
  /\ receipt' = [receipt EXCEPT ![d] = 0]
  /\ IF Running(d, "recovered")
     THEN /\ sync' = [sync EXCEPT ![d] = [Started(d, @.by, @.send) EXCEPT !.at = "read"]]
          /\ UNCHANGED <<lock, login>>
     ELSE Ended(d, vault'[d])
  /\ UNCHANGED <<kind, storeVars, file, late, signed, boundVars>>
-----------------------------------------------------------------------------
(* The user decides a conflict; "keep local" gives the item of a KeePass     *)
(* source a reference without a baseline.                                    *)
Decided(d, p) ==
  /\ vault[d].clash # NoClash /\ sync[d] = NoSync
  /\ vault' = [vault EXCEPT ![d] = p]
  /\ receipt' = [receipt EXCEPT ![d] = IF kind = "bitwarden" THEN 0 ELSE @]
  /\ UNCHANGED <<kind, storeVars, file, lock, sync, late, login, signed, boundVars>>
BaseOf(clash) == IF kind = "keepass" THEN NoBase ELSE clash.rev
UseRemote(d) == LET got == vault[d].clash IN Decided(d, Taken(vault[d], got.count, BaseOf(got)))
KeepLocal(d) ==
  LET got == vault[d].clash
  IN Decided(d, [vault[d] EXCEPT !.base = BaseOf(got), !.queued = TRUE, !.clash = NoClash])
-----------------------------------------------------------------------------
(* A login. A counter at zero stays at zero and needs no source; otherwise   *)
(* the source is refreshed first, and the next count is reserved in it.      *)
Asked(r, at) == [login EXCEPT ![r] = [at |-> at, count |-> vault[At[r]].count, tries |-> 0]]
Begin(r) ==
  LET d == At[r]  p == vault[d]
  IN /\ login[r] = Idle /\ logins < MaxLogins
     /\ NotRegressed(p.count, p.mark)
     /\ logins' = logins + 1
     /\ IF p.count = 0
        THEN login' = Asked(r, "signs") /\ UNCHANGED <<lock, sync>>
        ELSE /\ kind # "local" /\ lock[d] = NoOne
             /\ lock' = [lock EXCEPT ![d] = r]
             /\ sync' = [sync EXCEPT ![d] = Started(d, r, p.queued)]
             /\ login' = Asked(r, "begun")
     /\ UNCHANGED <<kind, storeVars, vault, receipt, file, late, signed, others, polls, faults>>

\* advanceLocalPasskeyCounter
ReserveLocal(r) ==
  LET d == At[r]  count == vault[d].count + 1
  IN /\ kind = "local" /\ login[r] = Idle /\ logins < MaxLogins
     /\ vault[d].count # 0 /\ MayAdvance(vault[d])
     /\ logins' = logins + 1
     /\ vault' = [vault EXCEPT ![d].count = count, ![d].mark = count]
     /\ login' = [login EXCEPT ![r] = [at |-> "signs", count |-> count, tries |-> 0]]
     /\ UNCHANGED <<kind, storeVars, receipt, file, lock, sync, late, signed, others, polls, faults>>

\* advanceBitwardenPasskeyCounter, advanceFilePasskeyCounter, and the
\* synchronization that follows.
Reserve(r) ==
  LET d == At[r]  p == vault[d]  count == p.count + 1
  IN /\ login[r] # Idle /\ login[r].at = "fresh"
     /\ p.count = login[r].count /\ MayAdvance(p)
     /\ kind = "keepass" => ~p.queued
     /\ vault' = [vault EXCEPT ![d].count = count, ![d].mark = Larger(p.mark, p.count),
                               ![d].queued = TRUE]
     /\ login' = [login EXCEPT ![r] = [at |-> "staged", count |-> count, tries |-> @.tries + 1]]
     /\ sync' = [sync EXCEPT ![d] = Started(d, r, TRUE)]
     /\ UNCHANGED <<kind, storeVars, receipt, file, lock, late, signed, boundVars>>

\* recordPasskeyUse admits the assertion that was signed, and the page gets it.
Freed(r) == IF lock[At[r]] = r THEN [lock EXCEPT ![At[r]] = NoOne] ELSE lock
BugAnyCount(r) == TRUE
StillCurrent(r) ==
  LET p == vault[At[r]] IN p.count = login[r].count /\ NotRegressed(p.count, p.mark)
Deliver(r) ==
  /\ login[r] # Idle /\ login[r].at = "signs" /\ StillCurrent(r)
  /\ signed' = [signed EXCEPT ![At[r]] = Append(@, login[r].count)]
  /\ login' = [login EXCEPT ![r] = Over]
  /\ lock' = Freed(r)
  /\ UNCHANGED <<kind, storeVars, vault, receipt, file, sync, late, boundVars>>

\* The page goes away, the request expires, or the passkey has changed.
Abandon(r) ==
  /\ login[r] # Idle /\ login[r].at \in {"fresh", "signs"}
  /\ login' = [login EXCEPT ![r] = Over]
  /\ lock' = Freed(r)
  /\ UNCHANGED <<kind, storeVars, vault, receipt, file, sync, late, signed, boundVars>>

\* A synchronization is stopped, at any point: the worker stops, the request is
\* cancelled or its answer is lost. A write on its way may arrive later.
SyncFails(d) ==
  LET r == sync[d].by
  IN /\ sync[d] # NoSync /\ faults < MaxFaults
     /\ faults' = faults + 1
     /\ late' = IF kind = "bitwarden" /\ Running(d, "put") THEN late \cup {sync[d].put} ELSE late
     /\ sync' = [sync EXCEPT ![d] = NoSync]
     /\ lock' = [lock EXCEPT ![d] = NoOne]
     /\ login' = IF r = Poll THEN login ELSE [login EXCEPT ![r] = Over]
     /\ UNCHANGED <<kind, storeVars, vault, receipt, file, signed, logins, others, polls>>
\* The file is written, and the answer is lost.
AnswerLost(d) ==
  LET f == file[d]  r == sync[d].by
  IN /\ kind = "keepass" /\ (Running(d, "recover") \/ Running(d, "put"))
     /\ f.dirty /\ MayPublish(f) /\ faults < MaxFaults
     /\ faults' = faults + 1
     /\ Stored(ToPublish(f))
     /\ sync' = [sync EXCEPT ![d] = NoSync]
     /\ lock' = [lock EXCEPT ![d] = NoOne]
     /\ login' = IF r = Poll THEN login ELSE [login EXCEPT ![r] = Over]
     /\ UNCHANGED <<kind, vault, receipt, file, late, signed, logins, others, polls>>
\* Both sides changed the counter, in different ways: the file is not written.
CannotRebase(d) ==
  LET r == sync[d].by
  IN /\ kind = "keepass" /\ (Running(d, "recover") \/ Running(d, "put"))
     /\ ~MayPublish(file[d])
     /\ sync' = [sync EXCEPT ![d] = NoSync]
     /\ lock' = [lock EXCEPT ![d] = NoOne]
     /\ login' = IF r = Poll THEN login ELSE [login EXCEPT ![r] = Over]
     /\ UNCHANGED <<kind, storeVars, vault, receipt, file, late, signed, boundVars>>

Next ==
  \/ OthersWrite \/ LateWrite
  \/ \E d \in Devices :
       \/ PollStarts(d) \/ Fetch(d) \/ Decide(d) \/ Attempt(d) \/ Put(d) \/ Acknowledge(d)
       \/ Save(d) \/ Publish(d) \/ Merge(d) \/ UseRemote(d) \/ KeepLocal(d)
       \/ SyncFails(d) \/ AnswerLost(d) \/ CannotRebase(d)
  \/ \E r \in Requests :
       Begin(r) \/ ReserveLocal(r) \/ Reserve(r) \/ Deliver(r) \/ Abandon(r)

Spec == Init /\ [][Next]_vars
-----------------------------------------------------------------------------
DeliveredBy(d) == {signed[d][i] : i \in 1..Len(signed[d])}

(* A server that checks counters never sees one installation go back, nor    *)
(* return to zero: from the first positive one the counts it delivers grow,  *)
(* whatever other clients, crashes and decisions do in between (the          *)
(* high-water mark and recordPasskeyUse).                                    *)
DeliveredGrows ==
  \A d \in Devices : \A i, j \in 1..Len(signed[d]) :
    i < j /\ signed[d][i] > 0 => signed[d][i] < signed[d][j]

(* An assertion carries a count that the source has stored: another client   *)
(* that reads the source afterwards does not fall behind it.                 *)
DeliveredIsStored == kind # "local" => \A d \in Devices : DeliveredBy(d) \subseteq held

(* Two installations of a file never sign with the same count, nor with one  *)
(* that another client wrote ("an equal value merged from another client's   *)
(* successful write does not reserve that number", file-assertion.ts:57), as *)
(* long as no other client sets the counter back.                            *)
FileSignsOnce ==
  kind = "keepass" /\ ~regressed =>
    /\ \A d \in Devices : DeliveredBy(d) \cap spent \subseteq {0}
    /\ \A d, e \in Devices : d # e => DeliveredBy(d) \cap DeliveredBy(e) \subseteq {0}

(* On a server that enforces the revision a write was prepared for, two      *)
(* installations never sign with one count ("Enforce the server's optimistic *)
(* concurrency check, including the read/write race between two devices      *)
(* incrementing a historical nonzero FIDO2 counter",                         *)
(* bitwarden-provider.ts:462; docs/PASSKEY_COMPATIBILITY.md:35).             *)
BitwardenSignsOnce ==
  kind = "bitwarden" /\ ~regressed =>
    \A d, e \in Devices : d # e => DeliveredBy(d) \cap DeliveredBy(e) \subseteq {0}
=============================================================================
