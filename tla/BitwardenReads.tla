---------------------------- MODULE BitwardenReads ----------------------------
(* How a Bitwarden account is read: notifications and polls become hints, a  *)
(* hint decides between single Ciphers, a revision check and a complete      *)
(* reading, and the cache of the last reading answers "unchanged". Writes of *)
(* this installation are one step here (BitwardenSync models them).          *)
EXTENDS Naturals, FiniteSets

CONSTANTS
  Ciphers,    \* Ciphers of the account
  Dated,      \* whether the server tells the revision of the account
  MaxChanges, \* bound on changes by other clients
  MaxActs,    \* bound on edits, manual synchronizations, connections, locks
  MaxFaults   \* bound on faults

ASSUME BoundsAssumption ==
  /\ IsFiniteSet(Ciphers) /\ Dated \in BOOLEAN /\ MaxChanges \in Nat
  /\ MaxActs \in Nat /\ MaxFaults \in Nat

VARIABLES
  server,   \* the revision of each Cipher, 0 when there is none
  revision, \* the revision of the account
  vault,    \* the revision of each Cipher that the vault shows, 0 for none
  missed,   \* Ciphers that the vault keeps, in conflict with their removal
  edited,   \* Ciphers with a queued edit
  cache,    \* RemoteSnapshot of the account
  job,      \* the job of the account: what is asked, and whether it runs
  run,      \* the synchronization that runs
  mode,     \* "on": synchronized by itself; "off": only by hand; "locked": not at all
  absent,   \* Ciphers that the server lacked at some time of the run, if one runs
  changes, acts, faults

serverVars == <<server, revision>>
vaultVars  == <<vault, missed, edited>>
countVars  == <<changes, acts, faults>>
vars == <<serverVars, vaultVars, cache, job, run, mode, absent, countVars>>

\* BitwardenSyncHint; asked names the Ciphers of the type "ciphers".
Hint     == [type : {"none", "check", "ciphers", "full"}, ids : SUBSET Ciphers]
NoHint   == [type |-> "none", ids |-> {}]
Check    == [type |-> "check", ids |-> {}]
Full     == [type |-> "full", ids |-> {}]
Only(ids) == [type |-> "ciphers", ids |-> ids]
NoCache  == [known |-> FALSE]
NoJob    == [hint |-> NoHint, running |-> FALSE, exists |-> FALSE]
NoRun    == [at |-> "idle"]
Unknown  == 0  \* a revision that was not read

Versions == 0..(1 + MaxChanges + MaxActs)
Payloads == [Ciphers -> Versions]

TypeOK ==
  /\ server \in Payloads /\ revision \in Versions
  /\ \A c \in Ciphers : server[c] <= revision
  /\ vault \in Payloads /\ missed \subseteq Ciphers /\ edited \subseteq Ciphers
  /\ cache # NoCache => /\ cache.payload \in Payloads /\ cache.revision <= revision
  /\ job.hint \in Hint /\ (job.exists => mode = "on")
  /\ run # NoRun =>
       /\ run.at \in {"delta", "check", "sync", "got", "apply"}
       /\ run.payload \in Payloads
       /\ run.removed \subseteq Ciphers
  /\ absent \subseteq Ciphers
  /\ mode \in {"on", "off", "locked"}
  /\ changes \in 0..MaxChanges /\ acts \in 0..MaxActs /\ faults \in 0..MaxFaults

Init ==
  /\ server = [c \in Ciphers |-> 1] /\ revision = 1
  /\ vault = server /\ missed = {} /\ edited = {}
  /\ cache = NoCache /\ job = NoJob /\ run = NoRun
  /\ mode = "locked" /\ absent = {}
  /\ changes = 0 /\ acts = 0 /\ faults = 0
-----------------------------------------------------------------------------
\* mergeHints
Merges(a, b) ==
  IF a.type = "full" \/ b.type = "full" THEN Full
  ELSE IF a.ids \cup b.ids # {} THEN Only(a.ids \cup b.ids) ELSE Check
\* A definition whose name begins with Bug is a slip of the definition it precedes.
BugNewJob(hint) == [job EXCEPT !.hint = Merges(@, hint), !.exists = TRUE]
Asked(hint) == IF job.exists THEN [job EXCEPT !.hint = Merges(@, hint)] ELSE job

\* Another client changes, removes or brings back a Cipher. The notification
\* is lost, or waits in the job, as late as the job starts.
ServerChanges(c) ==
  /\ changes < MaxChanges
  /\ \E gone \in BOOLEAN :
       /\ server[c] = 0 => ~gone
       /\ server' = [server EXCEPT ![c] = IF gone THEN 0 ELSE revision + 1]
       /\ absent' = IF gone /\ run # NoRun THEN absent \cup {c} ELSE absent
  /\ revision' = revision + 1
  /\ changes' = changes + 1
  /\ job' \in {job, Asked(Only({c}))}
  /\ UNCHANGED <<vaultVars, cache, run, mode, acts, faults>>

\* The channel connects or ends, and what it may have lost is asked for; or it
\* delivers a notification again.
Act == acts < MaxActs /\ acts' = acts + 1
ChannelSpeaks ==
  /\ Act /\ job.exists
  /\ job' \in {Asked(Full)} \cup {Asked(Only({c})) : c \in Ciphers}
  /\ UNCHANGED <<serverVars, vaultVars, cache, run, mode, absent, changes, faults>>

UserEdits(c) ==
  /\ Act /\ mode # "locked"
  /\ vault[c] # 0 /\ c \notin edited
  /\ edited' = edited \cup {c}
  /\ UNCHANGED <<serverVars, vault, missed, cache, job, run, mode, absent, changes,
                 faults>>
-----------------------------------------------------------------------------
(* Runs. A job without a hint polls; a manual synchronization has no hint.   *)
(* serves: the job waits for the run. stale: the baseline was cleared since. *)
Absent == {c \in Ciphers : server[c] = 0}
MayReuse == edited = {}
Empty    == [c \in Ciphers |-> 0]
\* Single Ciphers are read over a fresh baseline, when there is one: less than
\* FULL_RECONCILE_MS have passed since the last complete reading.
Begun(auto, hint, fresh) ==
  LET reuse == MayReuse /\ cache # NoCache /\ fresh
      delta == hint.type = "ciphers" /\ reuse
      check == hint.type = "check" /\ reuse
  IN [at |-> IF delta THEN "delta" ELSE "check",
      auto |-> auto, serves |-> auto, stale |-> FALSE, aborted |-> FALSE,
      hinted |-> hint # NoHint, reuse |-> check, writes |-> ~MayReuse,
      payload |-> IF delta THEN cache.payload ELSE Empty,
      revision |-> IF delta THEN cache.revision ELSE Unknown,
      left |-> IF delta THEN hint.ids ELSE {}, removed |-> {}]

JobStarts ==
  /\ job.exists /\ ~job.running /\ run = NoRun
  /\ job' = [job EXCEPT !.hint = NoHint, !.running = TRUE]
  /\ \E fresh \in BOOLEAN :
       run' = Begun(TRUE, IF job.hint = NoHint THEN Check ELSE job.hint, fresh)
  /\ absent' = Absent
  /\ UNCHANGED <<serverVars, vaultVars, cache, mode, countVars>>

\* An automatic caller shares the synchronization that runs.
JobJoins ==
  /\ job.exists /\ ~job.running /\ run # NoRun
  /\ job' = [job EXCEPT !.hint = NoHint, !.running = TRUE]
  /\ run' = [run EXCEPT !.serves = TRUE]
  /\ UNCHANGED <<serverVars, vaultVars, cache, mode, absent, countVars>>

ManualStarts ==
  /\ Act /\ mode # "locked" /\ run = NoRun
  /\ run' = Begun(FALSE, NoHint, FALSE)
  /\ absent' = Absent
  /\ UNCHANGED <<serverVars, vaultVars, cache, job, mode, changes, faults>>

ReadCipher(c) ==
  /\ run.at = "delta" /\ c \in run.left
  /\ run' = [run EXCEPT !.payload[c] = server[c], !.left = @ \ {c},
                        !.removed = IF server[c] = 0 THEN @ \cup {c} ELSE @]
  /\ UNCHANGED <<serverVars, vaultVars, cache, job, mode, absent, countVars>>
\* A Cipher of an unknown owner or folder needs a complete reading.
DeltaRead ==
  /\ run.at = "delta" /\ run.left = {}
  /\ \/ run' = [run EXCEPT !.at = "got"]
     \/ run' = [run EXCEPT !.at = "check", !.payload = Empty, !.removed = {}]
  /\ UNCHANGED <<serverVars, vaultVars, cache, job, mode, absent, countVars>>

\* accountRevision, before the complete reading.
Unchanged ==
  /\ run.reuse /\ Dated /\ cache # NoCache
  /\ cache.revision = revision
JobAfter(hint) ==
  IF run.serves THEN [job EXCEPT !.running = FALSE, !.hint = hint] ELSE job
Answered ==
  /\ run.at = "check" /\ Unchanged
  /\ run' = NoRun
  /\ job' = JobAfter(job.hint)
  /\ absent' = {}
  /\ UNCHANGED <<serverVars, vaultVars, cache, mode, countVars>>
\* A token that was refreshed on the way is to be stored: the baseline is
\* taken through the merge.
Renewed ==
  /\ run.at = "check" /\ Unchanged
  /\ run' = [run EXCEPT !.at = "got", !.payload = cache.payload, !.revision = revision]
  /\ UNCHANGED <<serverVars, vaultVars, cache, job, mode, absent, countVars>>
CheckRevision ==
  /\ run.at = "check" /\ ~Unchanged
  /\ run' = [run EXCEPT !.at = "sync",
                        !.revision = IF run.hinted /\ Dated THEN revision ELSE Unknown]
  /\ UNCHANGED <<serverVars, vaultVars, cache, job, mode, absent, countVars>>

ReadAll ==
  /\ run.at = "sync"
  /\ run' = [run EXCEPT !.at = "got", !.payload = server, !.removed = {}]
  /\ UNCHANGED <<serverVars, vaultVars, cache, job, mode, absent, countVars>>

\* An edit whose Cipher has not changed is written and acknowledged.
Write(c) ==
  /\ run.at = "got" /\ c \in edited /\ run.writes
  /\ run.payload[c] = vault[c] /\ server[c] = vault[c]
  /\ server' = [server EXCEPT ![c] = revision + 1]
  /\ revision' = revision + 1
  /\ vault' = [vault EXCEPT ![c] = revision + 1]
  /\ edited' = edited \ {c}
  /\ run' = [run EXCEPT !.payload[c] = revision + 1]
  /\ UNCHANGED <<missed, cache, job, mode, absent, countVars>>

\* commit: the baseline is replaced, unless it was cleared since the reading
\* began.
BugAlways == TRUE
MayCommit == ~run.stale /\ ~run.aborted
BugLateRevision == IF run.hinted THEN revision ELSE Unknown
RevisionRead == run.revision
Commit ==
  /\ run.at = "got"
  /\ run' = [run EXCEPT !.at = "apply"]
  /\ cache' = IF MayCommit THEN [known |-> TRUE, payload |-> run.payload,
                                 revision |-> RevisionRead]
              ELSE cache
  /\ UNCHANGED <<serverVars, vaultVars, job, mode, absent, countVars>>

\* applyProviderSync: what is edited stays, and what is missing stays in
\* conflict, unless its own reading said that it was removed.
BugAdopt(c) == run.payload[c] = 0
Adopts(c) == c \in run.removed
Stays(c) == c \in edited \/ (run.payload[c] = 0 /\ vault[c] # 0 /\ ~Adopts(c))
Apply ==
  /\ run.at = "apply" /\ ~run.aborted
  /\ vault' = [c \in Ciphers |-> IF Stays(c) THEN vault[c] ELSE run.payload[c]]
  /\ missed' = {c \in Ciphers : Stays(c) /\ run.payload[c] = 0}
  /\ run' = NoRun
  /\ job' = JobAfter(job.hint)
  /\ absent' = {}
  /\ UNCHANGED <<serverVars, edited, cache, mode, countVars>>

\* A request fails, times out, or the vault refuses the result; the job is to
\* read everything.
BugCheckAgain == Merges(job.hint, Check)
HintAfterFailure == Full
Failed ==
  /\ run' = NoRun
  /\ job' = JobAfter(HintAfterFailure)
RunFails ==
  /\ run # NoRun /\ faults < MaxFaults
  /\ faults' = faults + 1
  /\ Failed
  /\ absent' = {}
  /\ UNCHANGED <<serverVars, vaultVars, cache, mode, changes, acts>>
\* An aborted run fails by itself at its next step.
Aborted ==
  /\ run # NoRun /\ run.aborted
  /\ Failed
  /\ absent' = {}
  /\ UNCHANGED <<serverVars, vaultVars, cache, mode, countVars>>
-----------------------------------------------------------------------------
\* reconcileAutomaticSync gives the account a job, that checks first.
Starts ==
  /\ mode # "on"
  /\ mode' = "on"
  /\ job' = [hint |-> Check, running |-> FALSE, exists |-> TRUE]
  /\ UNCHANGED <<serverVars, vaultVars, cache, run, absent, countVars>>
\* stopAutomaticSync clears the baseline and the jobs, and aborts the runs of
\* jobs; a lock aborts all runs (abortProviderSyncs).
Stops(to) ==
  /\ Act /\ mode # "locked" /\ mode # to
  /\ mode' = to
  /\ job' = NoJob /\ cache' = NoCache
  /\ run' = IF run = NoRun THEN run
            ELSE [run EXCEPT !.stale = TRUE, !.serves = FALSE,
                             !.aborted = @ \/ run.auto \/ to = "locked"]
  /\ UNCHANGED <<serverVars, vaultVars, absent, changes, faults>>

RunStep ==
  \/ (\E c \in Ciphers : ReadCipher(c)) \/ DeltaRead
  \/ Answered \/ Renewed \/ CheckRevision \/ ReadAll \/ Commit \/ Apply \/ Aborted
Next ==
  \/ \E c \in Ciphers : ServerChanges(c) \/ UserEdits(c) \/ Write(c)
  \/ ChannelSpeaks \/ JobStarts \/ JobJoins \/ ManualStarts
  \/ RunStep \/ RunFails \/ Starts \/ Stops("off") \/ Stops("locked")

Spec == Init /\ [][Next]_vars

\* The timer of the scheduler fires; requests end, or time out.
FairSpec == Spec /\ WF_vars(RunStep) /\ WF_vars(JobStarts)
-----------------------------------------------------------------------------
Shown(c) == vault[c] = server[c] \/ (server[c] = 0 /\ c \in missed)

(* "Unchanged" is only answered when the vault shows what the server has:    *)
(* whatever runs failed, were stopped or shared before, a baseline whose     *)
(* merge never reached the vault is not trusted (read and run).              *)
UnchangedIsTrue == [][Answered => \A c \in Ciphers \ edited : Shown(c)]_vars

(* A Cipher only leaves the vault when the server did not have it at some    *)
(* time of the run: neither a notification that comes late nor a partial     *)
(* reading removes one ("an old/reordered delete notification cannot erase a *)
(* subsequently restored item").                                             *)
NoFalseRemoval == [][\A c \in Ciphers : vault[c] # 0 /\ vault'[c] = 0 => c \in absent]_vars

(* While the vault is locked no decrypted baseline is kept: a run that was   *)
(* under way then does not bring one back ("worker restart, key/server       *)
(* changes and lock all require a full read").                               *)
NothingKept == mode = "locked" => cache = NoCache

(* Whatever notifications were lost, hints shared with other runs and runs   *)
(* failed: a change of the server is shown in the end, as long as the        *)
(* account is synchronized by itself (the poll and its revision check).      *)
EventuallyShown == []<>(mode # "on" \/ \A c \in Ciphers : Shown(c) \/ c \in edited)
=============================================================================
