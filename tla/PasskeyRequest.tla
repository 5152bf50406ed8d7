---------------------------- MODULE PasskeyRequest ----------------------------
(* One passkey request of a page, from the prompt to its end: the content    *)
(* script that accepts or dismisses it, the handlers of the background that  *)
(* serve both, a cancellation from the background (time, navigation), the    *)
(* locking of the vault, and a worker that may stop at any await. The        *)
(* pending request and the receipt of its completion live in the worker's    *)
(* memory and in session storage; only the latter survives the worker.       *)
EXTENDS Naturals

CONSTANTS
  Operations,   \* kinds of request to consider
  MaxAttempts,  \* bound on the credentials or assertions made
  MaxAsks,      \* bound on the times the user accepts, and dismisses
  MaxLocks,     \* bound on the times the vault is locked
  MaxFaults     \* bound on faults

ASSUME OperationsAssumption == Operations \subseteq {"create", "get"}
ASSUME BoundsAssumption ==
  MaxAttempts \in Nat /\ MaxAsks \in Nat /\ MaxLocks \in Nat /\ MaxFaults \in Nat

VARIABLES
  operation,   \* what the page asks for
  page,        \* the content script: its calls and how the page's promise ended
  pending,     \* the pending request, in memory and in storage
  receipt,     \* the completion receipt, in memory and in storage
  processing, committing, cancelled, \* the sets of the runtime, for this request
  cancelling,  \* which cancellation is in cancellingPasskeyRequests
  accept,      \* the handler of PASSKEY_ACCEPT
  cancel,      \* the handlers that cancel: PASSKEY_DISMISS and the background's
  locker,      \* clearPendingPasskeyRequests and the lock that follows it
  vault,       \* whether the vault is unlocked
  saved,       \* what the vault holds for the request: a credential, or a use
  expired,     \* whether the request's time is over
  timer,       \* whether this worker's timer for it is still to fire
  dropped,     \* whether a lock has deleted the only record of a stored credential
  attempts, locks, faults

timeVars  == <<expired, timer, dropped>>
flagVars  == <<processing, committing, cancelled, cancelling>>
boundVars == <<attempts, locks, faults>>
vars == <<operation, page, pending, receipt, flagVars, accept, cancel, locker, vault, saved,
          timeVars, boundVars>>

None     == 0
Made     == 1..MaxAttempts
NoRow    == [made |-> None, status |-> "none"]
Rows     == {NoRow} \cup [made : Made, status : {"prepared", "committed"}]
Idle     == [at |-> "idle", made |-> None, reply |-> "none"]
Replies  == {"none", "result", "cancelled", "error", "unknown", "pending"}
\* Where the handlers stand: PASSKEY_ACCEPT while it is processing and while it is
\* not, the cancellations while one judges the request and while it does not.
Working  == {"receipt", "confirm", "pending", "status", "verify", "make", "context", "prepared",
             "commit", "promote", "forget", "fail", "end"}
Waiting  == {"idle", "arrive", "answer"}
Judging  == {"cancelReceipt", "cancelConfirm", "cancelDelete"}
Asking   == {"idle", "arrive", "receipt", "confirm", "pending", "look", "relook", "answer", "cancel"}
Handler(places) == [at : places, made : Made \cup {None}, reply : Replies]
Accepts  == Handler(Working \cup Waiting)
Cancels  == Handler(Asking \cup Judging)
Dismiss  == "dismiss"
ByItself == "background"
Cancellers == {Dismiss, ByItself}

TypeOK ==
  /\ operation \in Operations
  /\ page \in [call : {"none", "sent"}, accepting : BOOLEAN, dismissing : BOOLEAN,
               asks : 0..MaxAsks,
               ended : {"open", "result", "dismissed", "failed", "locked"},
               given : Made \cup {None}]
  /\ page.given # None <=> page.ended = "result"
  /\ pending \in [memory : BOOLEAN, stored : BOOLEAN]
  /\ receipt \in [memory : Rows, stored : Rows]
  /\ processing \in BOOLEAN /\ committing \in BOOLEAN /\ cancelled \in BOOLEAN
  /\ (committing \/ cancelled) => processing
  /\ processing <=> accept.at \in Working
  /\ cancelling \in {"none"} \cup Cancellers
  /\ accept \in Accepts /\ cancel \in [Cancellers -> Cancels]
  /\ locker \in [at : {"idle", "listed", "forget", "check", "confirm", "tell", "lock"},
                 listed : BOOLEAN, made : Made \cup {None}, manual : BOOLEAN]
  /\ vault \in {"unlocked", "locked"} /\ saved \in Made \cup {None}
  /\ expired \in BOOLEAN /\ timer \in BOOLEAN /\ dropped \in BOOLEAN
  /\ attempts \in Made \cup {None} /\ locks \in 0..MaxLocks /\ faults \in 0..MaxFaults

\* PASSKEY_BEGIN has answered and the prompt is shown.
Init ==
  /\ operation \in Operations
  /\ page = [call |-> "none", accepting |-> FALSE, dismissing |-> FALSE, asks |-> 0,
             ended |-> "open", given |-> None]
  /\ pending = [memory |-> TRUE, stored |-> TRUE]
  /\ receipt = [memory |-> NoRow, stored |-> NoRow]
  /\ processing = FALSE /\ committing = FALSE /\ cancelled = FALSE /\ cancelling = "none"
  /\ accept = Idle /\ cancel = [w \in Cancellers |-> Idle]
  /\ locker = [at |-> "idle", listed |-> FALSE, made |-> None, manual |-> FALSE]
  /\ vault = "unlocked" /\ saved = None /\ expired = FALSE /\ timer = TRUE /\ dropped = FALSE
  /\ attempts = 0 /\ locks = 0 /\ faults = 0
-----------------------------------------------------------------------------
(* The journal: memory first, then session storage.                          *)
Load == IF receipt.memory # NoRow THEN receipt.memory ELSE receipt.stored
Loaded == receipt' = [receipt EXCEPT !.memory = Load]
DeleteReceipt == receipt' = [memory |-> NoRow, stored |-> NoRow]
DeletePending == pending' = [memory |-> FALSE, stored |-> FALSE]
IsPending == ~expired /\ (pending.memory \/ pending.stored)

\* promotePasskeyCompletionReceipt: storage may refuse, memory still knows.
Promote(m) ==
  LET row == [made |-> m, status |-> "committed"]
  IN \/ receipt' = [memory |-> row, stored |-> row] /\ UNCHANGED faults
     \/ /\ faults < MaxFaults /\ faults' = faults + 1
        /\ receipt' = [receipt EXCEPT !.memory = row]

\* passkeyReceiptCommitState, at once for all but a prepared registration, for
\* which the item of the vault is read.
\* A definition whose name begins with Bug is a slip of the definition it precedes.
BugTrustPrepared(row) == "committed"
StateOf(row) ==
  CASE row.status = "committed" -> "committed"
    [] operation = "get"        -> "not-committed"
    [] OTHER                    -> "ask the vault"

BugNeverStored(m) == "not-committed"
ItemState(m) == IF vault = "locked" THEN "unknown"
                ELSE IF saved = m THEN "committed" ELSE "not-committed"

Goes(at) == accept' = [accept EXCEPT !.at = at]
Fails(reply) == accept' = [accept EXCEPT !.at = "fail", !.reply = reply]
-----------------------------------------------------------------------------
(* The page.                                                                 *)
UserAccepts ==
  /\ page.ended = "open" /\ page.call = "none" /\ page.asks < MaxAsks
  /\ page' = [page EXCEPT !.call = "sent", !.accepting = TRUE, !.asks = @ + 1]
  /\ accept' = [Idle EXCEPT !.at = "arrive"]
  /\ UNCHANGED <<operation, pending, receipt, flagVars, cancel, locker, vault, saved,
                 timeVars, boundVars>>

\* The user, or the site's AbortSignal.
UserDismisses ==
  /\ page.ended = "open" /\ ~page.dismissing /\ page.asks < MaxAsks
  /\ page' = [page EXCEPT !.dismissing = TRUE, !.asks = @ + 1]
  /\ cancel' = [cancel EXCEPT ![Dismiss] = [Idle EXCEPT !.at = "arrive"]]
  /\ UNCHANGED <<operation, pending, receipt, flagVars, accept, locker, vault, saved,
                 timeVars, boundVars>>

Resolved(m)   == [page EXCEPT !.ended = "result", !.given = m]
Rejected(why) == [page EXCEPT !.ended = why]

\* A cancelled request rejects the page; another error leaves the prompt, where a
\* dismissal that was asked for meanwhile is still asking.
AcceptAnswered ==
  /\ accept.at = "answer"
  /\ accept' = Idle
  /\ LET heard == [page EXCEPT !.call = "none",
                     !.accepting = @ /\ accept.reply \notin {"error", "cancelled"}]
     IN page' = IF page.ended # "open" THEN heard
                ELSE CASE accept.reply = "result"    -> [Resolved(accept.made) EXCEPT !.call = "none"]
                       [] accept.reply = "cancelled" -> [heard EXCEPT !.ended = "failed"]
                       [] OTHER                      -> heard
  /\ UNCHANGED <<operation, pending, receipt, flagVars, cancel, locker, vault, saved,
                 timeVars, boundVars>>

\* resolveDismissal asks again while the outcome is open.
DismissAnswered ==
  /\ cancel[Dismiss].at = "answer"
  /\ LET reply == cancel[Dismiss].reply
         over  == page.ended # "open" \/ reply # "pending"
     IN /\ cancel' = [cancel EXCEPT ![Dismiss] = [Idle EXCEPT !.at = IF over THEN "idle" ELSE "arrive"]]
        /\ page' = IF page.ended # "open" THEN [page EXCEPT !.dismissing = FALSE]
                   ELSE CASE reply = "result" ->
                               [Resolved(cancel[Dismiss].made) EXCEPT !.dismissing = FALSE]
                          [] reply = "cancelled" ->
                               [Rejected("dismissed") EXCEPT !.dismissing = FALSE]
                          [] OTHER -> page
  /\ UNCHANGED <<operation, pending, receipt, flagVars, accept, locker, vault, saved,
                 timeVars, boundVars>>
-----------------------------------------------------------------------------
(* acceptPasskeyRequest, one action between two awaits.                      *)
Arrive ==
  /\ accept.at = "arrive"
  /\ IF cancelling # "none"
     THEN accept' = [accept EXCEPT !.at = "answer", !.reply = "cancelled"] /\ UNCHANGED processing
     ELSE Goes("receipt") /\ processing' = TRUE
  /\ UNCHANGED <<operation, page, pending, receipt, committing, cancelled, cancelling,
                 cancel,
                 locker, vault, saved, timeVars, boundVars>>

\* A receipt of an earlier attempt decides, and is adopted or cleared.
Adopt(m) ==
  /\ Promote(m) /\ DeletePending
  /\ accept' = [at |-> "end", made |-> m, reply |-> "result"]

Again ==
  /\ DeleteReceipt /\ accept' = [Idle EXCEPT !.at = "pending"]
  /\ UNCHANGED <<pending, faults>>

FindReceipt ==
  /\ accept.at = "receipt"
  /\ CASE Load = NoRow ->
            Goes("pending") /\ UNCHANGED <<pending, receipt, faults>>
       [] Load # NoRow /\ StateOf(Load) = "committed"     -> Adopt(Load.made)
       [] Load # NoRow /\ StateOf(Load) = "not-committed" -> Again
       [] OTHER -> /\ Loaded /\ accept' = [accept EXCEPT !.at = "confirm", !.made = Load.made]
                   /\ UNCHANGED <<pending, faults>>
  /\ UNCHANGED <<operation, page, flagVars, cancel, locker, vault, saved, timeVars,
                 attempts, locks>>

ConfirmReceipt ==
  /\ accept.at = "confirm"
  /\ CASE ItemState(accept.made) = "committed"     -> Adopt(accept.made)
       [] ItemState(accept.made) = "not-committed" -> Again
       [] OTHER -> /\ accept' = [accept EXCEPT !.at = "end", !.reply = "unknown"]
                   /\ UNCHANGED <<pending, receipt, faults>>
  /\ UNCHANGED <<operation, page, flagVars, cancel, locker, vault, saved, timeVars,
                 attempts, locks>>

LoadPending ==
  /\ accept.at = "pending"
  /\ CASE ~IsPending           -> Fails("error") /\ DeletePending
       [] IsPending /\ cancelled -> Fails("cancelled") /\ UNCHANGED pending
       [] OTHER -> Goes("status") /\ pending' = [pending EXCEPT !.memory = TRUE]
  /\ UNCHANGED <<operation, page, receipt, flagVars, cancel, locker, vault, saved,
                 timeVars, boundVars>>

CheckVault ==
  /\ accept.at = "status"
  /\ CASE vault = "locked" -> Fails("error")
       [] vault # "locked" /\ cancelled -> Fails("cancelled")
       [] OTHER -> Goes("verify")
  /\ UNCHANGED <<operation, page, pending, receipt, flagVars, cancel, locker, vault, saved,
                 timeVars, boundVars>>

\* verifyPasskeyUserIfRequired and assertPasskeyDocumentCurrent
VerifyUser ==
  /\ accept.at = "verify"
  /\ \/ Fails("cancelled")
     \/ ~cancelled /\ ~expired /\ Goes("make")
  /\ UNCHANGED <<operation, page, pending, receipt, flagVars, cancel, locker, vault, saved,
                 timeVars, boundVars>>

\* createPasskey, or the counter and createAssertion: something new to deliver.
Make ==
  /\ accept.at = "make" /\ attempts < MaxAttempts
  /\ attempts' = attempts + 1
  /\ IF cancelled THEN Fails("cancelled")
     ELSE accept' = [accept EXCEPT !.at = "context", !.made = attempts + 1]
  /\ UNCHANGED <<operation, page, pending, receipt, flagVars, cancel, locker, vault, saved,
                 timeVars, locks, faults>>

\* readPasskeyContext, then the prepared receipt.
Prepare ==
  /\ accept.at = "context"
  /\ IF vault = "locked" THEN Fails("error") /\ UNCHANGED receipt
     ELSE LET row == [made |-> accept.made, status |-> "prepared"]
          IN Goes("prepared") /\ receipt' = [memory |-> row, stored |-> row]
  /\ UNCHANGED <<operation, page, pending, flagVars, cancel, locker, vault, saved,
                 timeVars, boundVars>>

BugCommitAnyway == FALSE
MustStop == cancelled
StartCommit ==
  /\ accept.at = "prepared"
  /\ IF MustStop THEN Fails("cancelled") /\ UNCHANGED committing
     ELSE Goes("commit") /\ committing' = TRUE
  /\ UNCHANGED <<operation, page, pending, receipt, processing, cancelled, cancelling,
                 cancel,
                 locker, vault, saved, timeVars, boundVars>>

\* upsertItem or recordPasskeyUse; the latter is followed by one more look at
\* the document and the time.
Commit ==
  /\ accept.at = "commit"
  /\ IF vault = "locked" THEN Fails("error") /\ UNCHANGED saved
     ELSE /\ saved' = accept.made
          /\ IF operation = "get" /\ expired THEN Fails("cancelled") ELSE Goes("promote")
  /\ UNCHANGED <<operation, page, pending, receipt, flagVars, cancel, locker, vault,
                 timeVars, boundVars>>

PromoteReceipt ==
  /\ accept.at = "promote"
  /\ Promote(accept.made) /\ Goes("forget")
  /\ UNCHANGED <<operation, page, pending, flagVars, cancel, locker, vault, saved, timeVars,
                 attempts, locks>>

ForgetPending ==
  /\ accept.at = "forget"
  /\ DeletePending /\ accept' = [accept EXCEPT !.at = "end", !.reply = "result"]
  /\ UNCHANGED <<operation, page, receipt, flagVars, cancel, locker, vault, saved,
                 timeVars, boundVars>>

\* The receipt this attempt prepared goes with it.
CleanUp ==
  /\ accept.at = "fail"
  /\ IF accept.made # None THEN DeleteReceipt ELSE UNCHANGED receipt
  /\ Goes("end")
  /\ UNCHANGED <<operation, page, pending, flagVars, cancel, locker, vault, saved,
                 timeVars, boundVars>>

End ==
  /\ accept.at = "end"
  /\ Goes("answer")
  /\ processing' = FALSE /\ committing' = FALSE /\ cancelled' = FALSE
  /\ IF expired THEN DeletePending ELSE UNCHANGED pending
  /\ UNCHANGED <<operation, page, receipt, cancelling, cancel, locker, vault, saved,
                 timeVars, boundVars>>
-----------------------------------------------------------------------------
(* dismissPasskeyRequest and cancelPendingPasskeyRequest; the background      *)
(* enters at the second, when the time is over or the document is gone.      *)
Step(w, at) == cancel' = [cancel EXCEPT ![w].at = at]
Says(w, reply) == cancel' = [cancel EXCEPT ![w].at = "answer", ![w].reply = reply]
Gives(w, m) == cancel' = [cancel EXCEPT ![w] = [at |-> "answer", made |-> m, reply |-> "result"]]

\* What the canceller does once it knows whether the request was cancelled.
Concludes(w, done) ==
  CASE w = ByItself -> cancel' = [cancel EXCEPT ![w] = Idle]
    [] w # ByItself /\ done -> Says(w, "cancelled")
    [] OTHER -> Step(w, "look")

DismissArrives ==
  /\ cancel[Dismiss].at = "arrive"
  /\ IF committing THEN Says(Dismiss, "pending") ELSE Step(Dismiss, "receipt")
  /\ UNCHANGED <<operation, page, pending, receipt, flagVars, accept, locker, vault, saved,
                 timeVars, boundVars>>

\* The receipt is looked at before the cancellation and, when that was refused,
\* once more after it.
DismissReads ==
  /\ cancel[Dismiss].at \in {"receipt", "look"}
  /\ LET first == cancel[Dismiss].at = "receipt"
     IN CASE Load = NoRow \/ StateOf(Load) = "not-committed" ->
               /\ IF first THEN Step(Dismiss, "pending") ELSE Says(Dismiss, "pending")
               /\ Loaded /\ UNCHANGED faults
          [] Load # NoRow /\ StateOf(Load) = "committed" ->
               Gives(Dismiss, Load.made) /\ Promote(Load.made)
          [] OTHER ->
               /\ cancel' = [cancel EXCEPT ![Dismiss].at = IF first THEN "confirm" ELSE "relook",
                                           ![Dismiss].made = Load.made]
               /\ Loaded /\ UNCHANGED faults
  /\ UNCHANGED <<operation, page, pending, flagVars, accept, locker, vault, saved, timeVars,
                 attempts, locks>>

DismissConfirms ==
  /\ cancel[Dismiss].at \in {"confirm", "relook"}
  /\ LET state == ItemState(cancel[Dismiss].made)
     IN CASE state = "committed" ->
               Gives(Dismiss, cancel[Dismiss].made) /\ Promote(cancel[Dismiss].made)
          [] state = "not-committed" /\ cancel[Dismiss].at = "confirm" ->
               Step(Dismiss, "pending") /\ UNCHANGED <<receipt, faults>>
          [] OTHER -> Says(Dismiss, "pending") /\ UNCHANGED <<receipt, faults>>
  /\ UNCHANGED <<operation, page, pending, flagVars, accept, locker, vault, saved, timeVars,
                 attempts, locks>>

\* Nothing is known of the request any more, or it is cancelled.
DismissFinds ==
  /\ cancel[Dismiss].at = "pending"
  /\ IF cancel[Dismiss].made = None /\ Load = NoRow /\ ~IsPending /\ ~processing
     THEN Says(Dismiss, "cancelled") ELSE Step(Dismiss, "cancel")
  /\ UNCHANGED <<operation, page, pending, receipt, flagVars, accept, locker, vault, saved,
                 timeVars, boundVars>>

\* The timer of the request (schedulePasskeyExpiry), which the worker takes along.
BackgroundCancels ==
  /\ timer /\ expired
  /\ timer' = FALSE
  /\ cancel' = IF pending.memory \/ pending.stored
               THEN [cancel EXCEPT ![ByItself].at = "cancel"] ELSE cancel
  /\ UNCHANGED <<operation, page, pending, receipt, flagVars, accept, locker, vault, saved,
                 expired, dropped, boundVars>>

IsCommitting == committing
BugFlagAnyway == ~committing
IsProcessing == processing
Ends(w, done) == cancelling' = "none" /\ Concludes(w, done)

\* What is in memory is judged at once; storage and the vault are waited for.
Judge(w) ==
  CASE Load = NoRow \/ StateOf(Load) = "not-committed" ->
         /\ cancelling' = w /\ Step(w, "cancelDelete") /\ DeletePending /\ DeleteReceipt
    [] Load # NoRow /\ StateOf(Load) = "committed" ->
         Ends(w, FALSE) /\ UNCHANGED <<pending, receipt>>
    [] OTHER ->
         /\ cancelling' = w /\ Loaded /\ UNCHANGED pending
         /\ cancel' = [cancel EXCEPT ![w].at = "cancelConfirm", ![w].made = Load.made]

StartCancel(w) ==
  /\ cancel[w].at = "cancel"
  /\ CASE IsCommitting ->
            Concludes(w, FALSE) /\ UNCHANGED <<pending, receipt, cancelled, cancelling>>
       [] ~IsCommitting /\ IsProcessing ->
            /\ cancelled' = TRUE /\ DeletePending /\ DeleteReceipt
            /\ Concludes(w, TRUE) /\ UNCHANGED cancelling
       [] ~IsCommitting /\ ~IsProcessing /\ cancelling # "none" ->
            Concludes(w, TRUE) /\ UNCHANGED <<pending, receipt, cancelled, cancelling>>
       [] OTHER ->
            /\ IF receipt.memory # NoRow THEN Judge(w)
               ELSE cancelling' = w /\ Step(w, "cancelReceipt") /\ UNCHANGED <<pending, receipt>>
            /\ UNCHANGED cancelled
  /\ UNCHANGED <<operation, page, processing, committing, accept, locker, vault, saved,
                 timeVars, boundVars>>

CancelReads(w) ==
  /\ cancel[w].at = "cancelReceipt"
  /\ IF IsCommitting THEN Ends(w, FALSE) /\ UNCHANGED <<pending, receipt>> ELSE Judge(w)
  /\ UNCHANGED <<operation, page, processing, committing, cancelled, accept, locker,
                 vault, saved,
                 timeVars, boundVars>>

CancelDeleted(w) ==
  /\ cancel[w].at = "cancelDelete"
  /\ Ends(w, TRUE)
  /\ UNCHANGED <<operation, page, pending, receipt, processing, committing, cancelled,
                 accept,
                 locker, vault, saved, timeVars, boundVars>>

CancelConfirms(w) ==
  /\ cancel[w].at = "cancelConfirm"
  /\ CASE ItemState(cancel[w].made) = "committed" ->
            Ends(w, FALSE) /\ Promote(cancel[w].made) /\ UNCHANGED pending
       [] ItemState(cancel[w].made) = "unknown" ->
            Ends(w, FALSE) /\ UNCHANGED <<pending, receipt, faults>>
       [] OTHER ->
            /\ Step(w, "cancelDelete") /\ DeletePending /\ DeleteReceipt
            /\ UNCHANGED <<cancelling, faults>>
  /\ UNCHANGED <<operation, page, processing, committing, cancelled, accept, locker,
                 vault, saved,
                 timeVars, attempts, locks>>
-----------------------------------------------------------------------------
(* The lock: by the user (VAULT_LOCK) before the vault is locked, or by the  *)
(* alarm once the session is over.                                           *)
UserLocks ==
  /\ vault = "unlocked" /\ locker.at = "idle" /\ locks < MaxLocks
  /\ locks' = locks + 1
  /\ locker' = [at |-> "listed", listed |-> pending.stored, made |-> None, manual |-> TRUE]
  /\ UNCHANGED <<operation, page, pending, receipt, flagVars, accept, cancel, vault, saved,
                 timeVars, attempts, faults>>

SessionEnds ==
  /\ vault = "unlocked" /\ locker.at = "idle" /\ locks < MaxLocks
  /\ locks' = locks + 1 /\ vault' = "locked"
  /\ locker' = [at |-> "listed", listed |-> pending.stored, made |-> None, manual |-> FALSE]
  /\ UNCHANGED <<operation, page, pending, receipt, flagVars, accept, cancel, saved,
                 timeVars,
                 attempts, faults>>

\* The service serves one call after the other: those made before come first.
ServiceIdle ==
  /\ accept.at \notin {"confirm", "status", "context", "commit"}
  /\ \A w \in Cancellers : cancel[w].at \notin {"confirm", "relook", "cancelConfirm"}
  /\ locker.at = "idle"

UserUnlocks ==
  /\ vault = "locked" /\ ServiceIdle
  /\ vault' = "unlocked"
  /\ UNCHANGED <<operation, page, pending, receipt, flagVars, accept, cancel, locker, saved,
                 timeVars, boundVars>>

Forget ==
  IF locker'.listed THEN DeletePending ELSE UNCHANGED pending

\* What is being worked on is cancelled and its receipt deleted; only then is
\* anything waited for before the pending request is forgotten.
LockFlags ==
  /\ locker.at = "listed"
  /\ LET listed == (locker.listed \/ pending.memory) /\ ~expired
         next   == IF listed THEN "check" ELSE "lock"
     IN IF processing /\ ~committing
        THEN /\ cancelled' = TRUE /\ DeleteReceipt /\ UNCHANGED pending
             /\ dropped' = (dropped \/ (Load # NoRow /\ Load.made = saved))
             /\ locker' = [locker EXCEPT !.at = "forget", !.listed = listed]
        ELSE /\ UNCHANGED <<cancelled, receipt, dropped>>
             /\ locker' = [locker EXCEPT !.at = next, !.listed = listed] /\ Forget
  /\ UNCHANGED <<operation, page, processing, committing, cancelling, accept, cancel,
                 vault, saved, expired, timer, boundVars>>

LockForgets ==
  /\ locker.at = "forget"
  /\ locker' = [locker EXCEPT !.at = IF locker.listed THEN "check" ELSE "lock"] /\ Forget
  /\ UNCHANGED <<operation, page, receipt, flagVars, accept, cancel, vault, saved,
                 timeVars, boundVars>>

\* The page hears of the requests that are not being, and were not, committed.
LockChecks ==
  /\ locker.at = "check"
  /\ CASE committing \/ (Load # NoRow /\ StateOf(Load) = "committed") ->
            locker' = [locker EXCEPT !.at = "lock"] /\ UNCHANGED receipt
       [] ~committing /\ (Load = NoRow \/ StateOf(Load) = "not-committed") ->
            locker' = [locker EXCEPT !.at = "tell"] /\ Loaded
       [] OTHER -> locker' = [locker EXCEPT !.at = "confirm", !.made = Load.made] /\ Loaded
  /\ UNCHANGED <<operation, page, pending, flagVars, accept, cancel, vault, saved,
                 timeVars, boundVars>>

LockConfirms ==
  /\ locker.at = "confirm"
  /\ CASE ItemState(locker.made) = "committed" ->
            locker' = [locker EXCEPT !.at = "lock"] /\ Promote(locker.made)
       [] ItemState(locker.made) = "unknown" ->
            locker' = [locker EXCEPT !.at = "lock"] /\ UNCHANGED <<receipt, faults>>
       [] OTHER -> locker' = [locker EXCEPT !.at = "tell"] /\ UNCHANGED <<receipt, faults>>
  /\ UNCHANGED <<operation, page, pending, flagVars, accept, cancel, vault, saved, timeVars,
                 attempts, locks>>

\* MONICA_CANCEL_PASSKEY
LockTells ==
  /\ locker.at = "tell"
  /\ locker' = [locker EXCEPT !.at = "lock"]
  /\ page' = IF page.ended = "open" THEN Rejected("locked") ELSE page
  /\ UNCHANGED <<operation, pending, receipt, flagVars, accept, cancel, vault, saved,
                 timeVars, boundVars>>

LockEnds ==
  /\ locker.at = "lock"
  /\ vault' = "locked"
  /\ locker' = [at |-> "idle", listed |-> FALSE, made |-> None, manual |-> FALSE]
  /\ UNCHANGED <<operation, page, pending, receipt, flagVars, accept, cancel, saved,
                 timeVars, boundVars>>
-----------------------------------------------------------------------------
TimePasses ==
  /\ ~expired /\ expired' = TRUE
  /\ UNCHANGED <<operation, page, pending, receipt, flagVars, accept, cancel, locker,
                 vault, saved, timer, dropped, boundVars>>

\* purgeExpiredPasskeySessionState, when an alarm or a start of the browser asks.
Purge ==
  /\ expired /\ (pending.memory \/ pending.stored)
  /\ DeletePending
  /\ UNCHANGED <<operation, page, receipt, flagVars, accept, cancel, locker, vault, saved,
                 timeVars, boundVars>>

\* The worker stops at an await. What the page had sent arrives again, at a new
\* worker: the content script retries a broken transport.
WorkerStops ==
  /\ faults < MaxFaults /\ faults' = faults + 1
  /\ pending' = [pending EXCEPT !.memory = FALSE]
  /\ receipt' = [receipt EXCEPT !.memory = NoRow]
  /\ processing' = FALSE /\ committing' = FALSE /\ cancelled' = FALSE /\ cancelling' = "none"
  /\ accept' = IF page.call = "sent" THEN [Idle EXCEPT !.at = "arrive"] ELSE Idle
  /\ cancel' = [w \in Cancellers |-> IF w = Dismiss /\ page.dismissing
                                      THEN [Idle EXCEPT !.at = "arrive"] ELSE Idle]
  /\ locker' = [at |-> "idle", listed |-> FALSE, made |-> None, manual |-> FALSE]
  /\ timer' = FALSE
  /\ UNCHANGED <<operation, page, vault, saved, expired, dropped, attempts, locks>>

AcceptStep ==
  \/ Arrive \/ FindReceipt \/ ConfirmReceipt \/ LoadPending \/ CheckVault \/ VerifyUser
  \/ Make \/ Prepare \/ StartCommit \/ Commit \/ PromoteReceipt \/ ForgetPending
  \/ CleanUp \/ End \/ AcceptAnswered

CancelStep ==
  \/ DismissArrives \/ DismissReads \/ DismissConfirms \/ DismissFinds \/ DismissAnswered
  \/ \E w \in Cancellers : StartCancel(w) \/ CancelReads(w) \/ CancelConfirms(w) \/ CancelDeleted(w)

LockStep ==
  \/ LockFlags \/ LockForgets \/ LockChecks \/ LockConfirms \/ LockTells \/ LockEnds

Next ==
  \/ UserAccepts \/ UserDismisses \/ AcceptStep \/ CancelStep
  \/ BackgroundCancels \/ UserLocks \/ SessionEnds \/ UserUnlocks \/ LockStep
  \/ TimePasses \/ Purge \/ WorkerStops

Spec == Init /\ [][Next]_vars
-----------------------------------------------------------------------------
\* A registration that the page was given is backed by the vault: the credential
\* is the one that is stored (acceptPasskeyRequest, passkeyReceiptCommitState).
\* This and the next two except a record that was dropped, which LockedIsNotSaved
\* is about.
ResultIsSaved ==
  operation = "create" /\ page.ended = "result" /\ ~dropped => saved = page.given

\* A page whose request was cancelled is left no credential: none was stored
\* before, also by a worker that has stopped since, and none is stored afterwards
\* (dismissPasskeyRequest, cancelPendingPasskeyRequest).
CancelledIsNotSaved ==
  operation = "create" /\ page.ended \in {"dismissed", "failed"} /\ ~dropped => saved = None

\* Whatever is asked again, after lost answers, restarts and locks: one request
\* stores one credential.
SavedOnce == [][operation = "create" /\ saved # None /\ ~dropped => saved' = saved]_vars

\* A request that a lock cancels, and whose page is told so, has stored nothing
\* (clearPendingPasskeyRequests).
LockedIsNotSaved == operation = "create" /\ page.ended = "locked" => saved = None
=============================================================================
