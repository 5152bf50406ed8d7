-------------------------- MODULE PasskeyRequestProofs --------------------------
(* What the page gets is in the vault, what was cancelled is not, and one    *)
(* request stores one credential: for every number of attempts, questions,   *)
(* locks and faults.                                                         *)
EXTENDS PasskeyRequest, TLAPS

Pages    == [call : {"none", "sent"}, accepting : BOOLEAN, dismissing : BOOLEAN,
             asks : 0..MaxAsks, ended : {"open", "result", "dismissed", "failed", "locked"},
             given : Made \cup {None}]
Lockers  == [at : {"idle", "listed", "forget", "check", "confirm", "tell", "lock"},
             listed : BOOLEAN, made : Made \cup {None}, manual : BOOLEAN]

Typed ==
  /\ operation \in {"create", "get"} /\ operation \in Operations
  /\ page \in Pages /\ (page.given # None <=> page.ended = "result")
  /\ pending \in [memory : BOOLEAN, stored : BOOLEAN] /\ receipt \in [memory : Rows, stored : Rows]
  /\ processing \in BOOLEAN /\ committing \in BOOLEAN /\ cancelled \in BOOLEAN
  /\ cancelling \in {"none"} \cup Cancellers
  /\ accept \in Accepts /\ cancel \in [Cancellers -> Cancels]
  /\ locker \in Lockers /\ (locker.at = "confirm" => locker.made # None)
  /\ vault \in {"unlocked", "locked"} /\ saved \in Made \cup {None}
  /\ expired \in BOOLEAN /\ timer \in BOOLEAN /\ dropped \in BOOLEAN
  /\ attempts \in Made \cup {None} /\ locks \in 0..MaxLocks /\ faults \in 0..MaxFaults

(* The flags of the accepting handler, and what it has in hand. *)
Accepting ==
  /\ processing <=> accept.at \in Working
  /\ cancelled => processing
  /\ committing => ~cancelled /\ accept.at \in {"commit", "promote", "forget", "fail", "end"}
  /\ accept.at \in {"commit", "promote", "forget"} => committing
  /\ accept.at \in {"confirm", "context", "prepared", "commit", "promote", "forget"}
       => accept.made # None
  /\ accept.reply = "result" => accept.made # None
  /\ page.call = "sent" <=> accept.at # "idle"

(* Only one cancellation judges, and nothing is accepted meanwhile; the      *)
(* background cancels once, what has expired.                                *)
Cancelling ==
  /\ cancelling # "none" => ~processing
  /\ \A w \in Cancellers :
       /\ cancel[w].at \in Judging <=> cancelling = w
       /\ cancel[w].at \in {"confirm", "relook", "cancelConfirm"} => cancel[w].made # None
       /\ cancel[w].reply = "result" => cancel[w].made # None
       /\ cancel[w].at = "cancelDelete" => ~pending.memory /\ ~pending.stored
  /\ cancel[ByItself].at # "idle"
       => expired /\ ~timer /\ cancel[ByItself].at \in {"cancel"} \cup Judging
  /\ ~page.dismissing => cancel[Dismiss].at = "idle"

(* What the properties are about: no record of a credential was dropped. *)
Counts == operation = "create" /\ ~dropped

(* A receipt that says that a credential was stored tells the truth, and so  *)
(* does whoever passes it on.                                                *)
Truthful == Counts =>
  /\ receipt.memory.status = "committed" => receipt.memory.made = saved
  /\ receipt.stored.status = "committed" => receipt.stored.made = saved
  /\ accept.reply = "result" \/ accept.at \in {"promote", "forget"} => accept.made = saved
  /\ cancel[Dismiss].reply = "result" => cancel[Dismiss].made = saved
  /\ page.ended = "result" => page.given = saved

(* What is about to be stored is recorded, unless it was cancelled. *)
Prepares == Counts /\ accept.at \in {"prepared", "commit"} /\ ~cancelled =>
  receipt.memory.made = accept.made /\ receipt.stored.made = accept.made

(* This worker stored the credential, and still knows.                       *)
Fresh ==
  /\ \/ committing
     \/ accept.at = "answer" /\ accept.reply = "result"
     \/ accept.at = "idle" /\ page.ended # "open"
  /\ accept.at # "promote" => receipt.memory.status = "committed"
  /\ accept.at = "end" => accept.reply = "result"
(* Or an earlier one did, and nobody in this one thinks of cancelling it.    *)
Careful ==
  /\ ~timer
  /\ \A w \in Cancellers :
       /\ cancel[w].at \notin {"pending", "cancel"}
       /\ cancel[w].at \in {"confirm", "relook"} => cancel[w].made = saved

(* What is stored is recorded; it is not stored again, nor cancelled.        *)
Recorded == Counts /\ saved # None =>
  /\ receipt.stored.made = saved /\ receipt.memory.made \in {saved, None}
  /\ ~cancelled /\ cancelling = "none"
  /\ accept.at \in {"idle", "arrive", "receipt", "confirm", "promote", "forget", "end", "answer"}
  /\ accept.at \in {"confirm", "promote", "forget"} => accept.made = saved
  /\ accept.at \in {"end", "answer"} => accept.reply \in {"result", "unknown"}
  /\ Fresh \/ Careful

(* A request that is over stores nothing any more.                           *)
Over ==
  /\ saved = None /\ ~IsPending /\ ~committing
  /\ accept.at \in {"status", "verify", "make", "context", "prepared"} => cancelled

Ended == Counts =>
  /\ page.ended = "dismissed" => Over
  /\ page.ended = "failed" => saved = None /\ accept.at = "idle"
  /\ cancel[Dismiss].reply = "cancelled" => Over

Ind == /\ Typed /\ Accepting /\ Cancelling /\ Truthful /\ Prepares /\ Recorded /\ Ended

LEMMA Basics ==
  /\ Cancellers = {Dismiss, ByItself} /\ Dismiss # ByItself /\ None \notin Made
  /\ "none" \notin Cancellers
  /\ NoRow \in Rows /\ NoRow.made = None /\ NoRow.status = "none"
  /\ \A r \in Rows : /\ r.made \in Made \cup {None}
                     /\ r # NoRow => r.made \in Made /\ r.status \in {"prepared", "committed"}
                     /\ r.made # None <=> r # NoRow
                     /\ r.status = "committed" => r # NoRow
  /\ Idle \in Accepts /\ Idle \in Cancels /\ Idle.at = "idle" /\ Idle.made = None
  /\ Idle.reply = "none"
BY DEF Cancellers, Dismiss, ByItself, NoRow, Rows, None, Made, Idle, Handler, Accepts, Cancels, Working,
   Waiting, Asking, Judging, Replies

LEMMA Initially == Init => Ind
<1> USE Basics
<1> SUFFICES ASSUME Init PROVE Ind
  OBVIOUS
<1>1. Typed
  <2>1. operation \in {"create", "get"} /\ operation \in Operations
    BY OperationsAssumption DEF Init
  <2>2. page \in Pages /\ page.given = None /\ page.ended = "open"
    BY BoundsAssumption DEF Init, Pages
  <2>3. locker \in Lockers /\ locker.at = "idle"
    BY DEF Init, Lockers
  <2>4. /\ pending \in [memory : BOOLEAN, stored : BOOLEAN]
        /\ receipt \in [memory : Rows, stored : Rows]
        /\ accept \in Accepts /\ cancel \in [Cancellers -> Cancels]
    BY DEF Init
  <2>5. /\ processing \in BOOLEAN /\ committing \in BOOLEAN /\ cancelled \in BOOLEAN
        /\ cancelling \in {"none"} \cup Cancellers /\ vault \in {"unlocked", "locked"}
        /\ expired \in BOOLEAN /\ timer \in BOOLEAN /\ dropped \in BOOLEAN
    BY DEF Init
  <2>6. saved \in Made \cup {None} /\ attempts \in Made \cup {None} /\ locks \in 0..MaxLocks
        /\ faults \in 0..MaxFaults
    BY BoundsAssumption DEF Init, None
  <2> QED BY <2>1, <2>2, <2>3, <2>4, <2>5, <2>6 DEF Typed
<1>2. Accepting /\ Cancelling
  BY DEF Init, Accepting, Cancelling, Working, Judging
<1>3. /\ saved = None /\ accept = Idle /\ cancel[Dismiss] = Idle /\ page.ended = "open"
      /\ receipt.memory = NoRow /\ receipt.stored = NoRow
  BY DEF Init
<1>4. Truthful /\ Prepares /\ Recorded /\ Ended
  BY <1>3 DEF Truthful, Prepares, Recorded, Ended
<1> QED BY <1>1, <1>2, <1>4 DEF Ind

(* The receipt tells no lie, loses nothing of what is stored, and nothing of *)
(* what is about to be stored without a cancellation.                        *)
ReceiptMoves ==
  /\ receipt' \in [memory : Rows, stored : Rows]
  /\ Counts' =>
       /\ receipt'.memory.status = "committed" => receipt'.memory.made = saved
       /\ receipt'.stored.status = "committed" => receipt'.stored.made = saved
       /\ saved # None =>
            /\ receipt'.stored.made = saved /\ receipt'.memory.made \in {saved, None}
            /\ receipt.memory.status = "committed" => receipt'.memory.status = "committed"
       /\ saved = None /\ accept.at \in {"prepared", "commit"} /\ ~cancelled' =>
            receipt'.memory.made = accept.made /\ receipt'.stored.made = accept.made

(* A step beside the accepting handler.                                      *)
AsideMoves ==
  /\ UNCHANGED <<operation, accept, processing, committing, saved, attempts>>
  /\ pending' \in [memory : BOOLEAN, stored : BOOLEAN]
  /\ pending'.memory => pending.memory
  /\ pending'.stored => pending.stored
  /\ ReceiptMoves
  /\ expired' \in BOOLEAN /\ (expired => expired')
  /\ dropped' \in BOOLEAN /\ (dropped => dropped')
  /\ timer' \in BOOLEAN /\ (timer' => timer)
  /\ cancelled' \in BOOLEAN /\ (cancelled => cancelled')
  /\ cancelled' => \/ cancelled
                   \/ processing /\ ~committing /\ (Counts' => saved = None)
  /\ vault' \in {"unlocked", "locked"} /\ locks' \in 0..MaxLocks /\ faults' \in 0..MaxFaults

(* What the cancelling handlers may do meanwhile. *)
CancelsMove ==
  /\ cancel' \in [Cancellers -> Cancels] /\ cancelling' \in {"none"} \cup Cancellers
  /\ Cancelling'
  /\ Counts' => /\ cancel'[Dismiss].reply = "result" => cancel'[Dismiss].made = saved
                /\ cancel'[Dismiss].reply = "cancelled" => Over'
                /\ saved # None => cancelling' = "none" /\ (Careful => Careful')

(* How the page may end meanwhile. *)
PageMoves ==
  /\ page' \in Pages /\ (page'.given # None <=> page'.ended = "result")
  /\ page'.call = page.call
  /\ \/ page'.ended = page.ended /\ page'.given = page.given
     \/ /\ page.ended = "open" /\ page'.ended # "failed"
        /\ Counts' => /\ page'.ended = "result" => page'.given = saved
                      /\ page'.ended = "dismissed" => Over

LEMMA OverLasts ==
  ASSUME Ind, AsideMoves, Over
  PROVE  Over'
BY DEF AsideMoves, Over, IsPending

LEMMA AsideKeeps ==
  ASSUME Ind, AsideMoves, CancelsMove, PageMoves,
         locker' \in Lockers, locker'.at = "confirm" => locker'.made # None
  PROVE  Ind'
<1> USE Basics
<1>1. Typed'
  BY DEF Ind, Typed, AsideMoves, CancelsMove, PageMoves, ReceiptMoves
<1>2. Accepting'
  BY DEF Ind, Accepting, AsideMoves, PageMoves
<1>3. Cancelling'
  BY DEF CancelsMove
<1>4. Counts' => Counts
  BY DEF Counts, AsideMoves
<1>5. Truthful'
  BY <1>4 DEF Ind, Truthful, AsideMoves, CancelsMove, PageMoves, ReceiptMoves
<1>6. Prepares'
  <2> SUFFICES ASSUME Counts', accept'.at \in {"prepared", "commit"}, ~cancelled'
               PROVE  receipt'.memory.made = accept'.made /\ receipt'.stored.made = accept'.made
    BY DEF Prepares
  <2>1. saved = None
    BY <1>4 DEF Ind, Recorded, AsideMoves
  <2> QED BY <2>1 DEF AsideMoves, ReceiptMoves
<1>7. Recorded'
  <2> SUFFICES ASSUME Counts', saved' # None
               PROVE  Recorded'
    BY DEF Recorded
  <2>1. saved # None /\ saved' = saved /\ accept' = accept /\ Counts /\ Recorded
    BY <1>4 DEF AsideMoves, Ind
  <2>2. receipt'.stored.made = saved /\ receipt'.memory.made \in {saved, None}
    BY <2>1 DEF AsideMoves, ReceiptMoves
  <2>3. ~cancelled' /\ cancelling' = "none"
    BY <2>1 DEF AsideMoves, CancelsMove, Recorded
  <2>4. Fresh \/ Careful
    BY <2>1 DEF Recorded
  <2>5. Fresh => Fresh'
    BY <2>1 DEF Fresh, AsideMoves, ReceiptMoves, PageMoves
  <2>6. Careful => Careful'
    BY <2>1 DEF CancelsMove
  <2>7. Fresh' \/ Careful'
    BY <2>4, <2>5, <2>6
  <2> QED BY <2>1, <2>2, <2>3, <2>7 DEF Recorded
<1>8. Ended'
  <2> SUFFICES ASSUME Counts' PROVE Ended'
    BY DEF Ended
  <2>1. page'.ended = "dismissed" => Over'
    <3>1. page'.ended = "dismissed" => Over
      BY <1>4 DEF Ind, Ended, PageMoves
    <3> QED BY <3>1, OverLasts
  <2>2. page'.ended = "failed" => saved' = None /\ accept'.at = "idle"
    BY <1>4 DEF Ind, Ended, PageMoves, AsideMoves
  <2>3. cancel'[Dismiss].reply = "cancelled" => Over'
    BY DEF CancelsMove
  <2> QED BY <2>1, <2>2, <2>3 DEF Ended
<1> QED BY <1>1, <1>2, <1>3, <1>5, <1>6, <1>7, <1>8 DEF Ind

LEMMA CancelsStay ==
  ASSUME Ind, AsideMoves, UNCHANGED <<cancel, cancelling>>, page.dismissing => page'.dismissing
  PROVE  CancelsMove
<1>1. cancel' \in [Cancellers -> Cancels] /\ cancelling' \in {"none"} \cup Cancellers
  BY DEF Ind, Typed
<1>2. Cancelling'
  BY DEF Ind, Typed, Cancelling, AsideMoves
<1>3. Counts' => Counts
  BY DEF Counts, AsideMoves
<1>4. ASSUME Counts'
      PROVE  /\ cancel'[Dismiss].reply = "result" => cancel'[Dismiss].made = saved
             /\ cancel'[Dismiss].reply = "cancelled" => Over'
  BY <1>3, <1>4, OverLasts DEF Ind, Truthful, Ended
<1>5. ASSUME Counts', saved # None
      PROVE  cancelling' = "none" /\ (Careful => Careful')
  BY <1>3, <1>5 DEF Ind, Recorded, Careful, AsideMoves
<1> QED BY <1>1, <1>2, <1>4, <1>5 DEF CancelsMove

(* One of the cancelling handlers moves. *)
Turned(w, at, m, reply) ==
  cancel' = [cancel EXCEPT ![w] = [at |-> at, made |-> m, reply |-> reply]]

LEMMA CancelTurns ==
  ASSUME Ind, AsideMoves, NEW w \in Cancellers, NEW at \in Asking \cup Judging,
         NEW m \in Made \cup {None}, NEW reply \in Replies, Turned(w, at, m, reply),
         cancelling' \in {cancelling, w, "none"},
         at \in Judging <=> cancelling' = w,
         cancelling' # cancelling /\ cancelling' = w
           => cancelling = "none" /\ ~processing /\ (Counts' => saved = None),
         cancelling' = "none" => cancelling \in {"none", w},
         at \in {"confirm", "relook", "cancelConfirm"} => m # None,
         reply = "result" => m # None,
         at = "cancelDelete" => ~pending'.memory /\ ~pending'.stored,
         w = ByItself /\ at # "idle" => expired /\ ~timer' /\ at \in {"cancel"} \cup Judging,
         page.dismissing /\ ~page'.dismissing => w = Dismiss /\ at = "idle",
         w = Dismiss /\ at # "idle" => page'.dismissing,
         w = Dismiss /\ Counts'
           => (reply = "result" => m = saved) /\ (reply = "cancelled" => Over'),
         Counts' /\ saved # None /\ Careful
           => at \notin {"pending", "cancel"} /\ (at \in {"confirm", "relook"} => m = saved)
  PROVE  CancelsMove
<1> USE Basics
<1> DEFINE new == [at |-> at, made |-> m, reply |-> reply]
<1>1. new \in Cancels /\ new.at = at /\ new.made = m /\ new.reply = reply
  BY DEF Cancels, Handler
<1>2. cancel \in [Cancellers -> Cancels] /\ cancel' = [cancel EXCEPT ![w] = new]
  BY DEF Ind, Typed, Turned
<1> HIDE DEF new
<1>3. /\ cancel' \in [Cancellers -> Cancels] /\ cancel'[w] = new
      /\ \A v \in Cancellers : v # w => cancel'[v] = cancel[v]
  BY <1>1, <1>2
<1>4. cancelling' \in {"none"} \cup Cancellers
  BY DEF Ind, Typed
<1>5. ASSUME NEW v \in Cancellers
      PROVE  /\ cancel'[v].at \in Judging <=> cancelling' = v
             /\ cancel'[v].at \in {"confirm", "relook", "cancelConfirm"} => cancel'[v].made # None
             /\ cancel'[v].reply = "result" => cancel'[v].made # None
             /\ cancel'[v].at = "cancelDelete" => ~pending'.memory /\ ~pending'.stored
  <2>1. CASE v = w
    BY <1>1, <1>3, <2>1
  <2>2. CASE v # w
    <3>1. cancel'[v] = cancel[v]
      BY <1>3, <2>2
    <3>2. cancel[v].at \in Judging <=> cancelling' = v
      BY <2>2 DEF Ind, Cancelling
    <3> QED BY <3>1, <3>2 DEF Ind, Cancelling, AsideMoves
  <2> QED BY <2>1, <2>2
<1>6. cancelling' # "none" => ~processing'
  BY DEF Ind, Cancelling, AsideMoves
<1>7. /\ cancel'[ByItself].at # "idle"
           => expired' /\ ~timer' /\ cancel'[ByItself].at \in {"cancel"} \cup Judging
      /\ ~page'.dismissing => cancel'[Dismiss].at = "idle"
  BY <1>1, <1>3 DEF Ind, Cancelling, AsideMoves
<1>8. Cancelling'
  BY <1>5, <1>6, <1>7 DEF Cancelling
<1>9. Counts' => Counts
  BY DEF Counts, AsideMoves
<1>10. ASSUME Counts'
       PROVE  /\ cancel'[Dismiss].reply = "result" => cancel'[Dismiss].made = saved
              /\ cancel'[Dismiss].reply = "cancelled" => Over'
  <2>1. CASE w = Dismiss
    BY <1>1, <1>3, <1>10, <2>1
  <2>2. CASE w # Dismiss
    <3>1. cancel'[Dismiss] = cancel[Dismiss]
      BY <1>3, <2>2
    <3> QED BY <1>9, <1>10, <3>1, OverLasts DEF Ind, Truthful, Ended
  <2> QED BY <2>1, <2>2
<1>11. ASSUME Counts', saved # None
       PROVE  cancelling' = "none" /\ (Careful => Careful')
  <2>1. cancelling = "none" /\ saved' = saved /\ (timer' => timer)
    BY <1>9, <1>11 DEF Ind, Recorded, AsideMoves
  <2>2. cancelling' = "none"
    BY <1>11, <2>1
  <2>3. ASSUME Careful, NEW v \in Cancellers
        PROVE  /\ cancel'[v].at \notin {"pending", "cancel"}
               /\ cancel'[v].at \in {"confirm", "relook"} => cancel'[v].made = saved
    BY <1>1, <1>3, <1>11, <2>3 DEF Careful
  <2> QED BY <2>1, <2>2, <2>3 DEF Careful
<1> QED BY <1>3, <1>4, <1>8, <1>10, <1>11 DEF CancelsMove

LEMMA StepTurns ==
  ASSUME Ind, NEW w \in Cancellers, NEW at \in Asking \cup Judging, Step(w, at)
  PROVE  Turned(w, at, cancel[w].made, cancel[w].reply)
<1>1. cancel \in [Cancellers -> Cancels] /\ cancel[w] \in Cancels
  BY DEF Ind, Typed
<1>2. [cancel[w] EXCEPT !.at = at] = [at |-> at, made |-> cancel[w].made, reply |-> cancel[w].reply]
  BY <1>1 DEF Cancels, Handler
<1>3. cancel' = [cancel EXCEPT ![w] = [cancel[w] EXCEPT !.at = at]]
  BY DEF Step
<1> QED BY <1>2, <1>3 DEF Turned

LEMMA SaysTurns ==
  ASSUME Ind, NEW w \in Cancellers, NEW reply \in Replies, Says(w, reply)
  PROVE  Turned(w, "answer", cancel[w].made, reply)
<1>1. cancel \in [Cancellers -> Cancels] /\ cancel[w] \in Cancels
  BY DEF Ind, Typed
<1> DEFINE first == [cancel EXCEPT ![w].at = "answer"]
           one == [cancel[w] EXCEPT !.at = "answer"]
<1>2. cancel' = [first EXCEPT ![w].reply = reply]
  BY DEF Says
<1>3. first = [cancel EXCEPT ![w] = one] /\ first[w] = one
  BY <1>1
<1>4. one = [at |-> "answer", made |-> cancel[w].made, reply |-> cancel[w].reply]
  BY <1>1 DEF Cancels, Handler
<1> HIDE DEF first, one
<1>5. cancel' = [first EXCEPT ![w] = [one EXCEPT !.reply = reply]]
  BY <1>2, <1>3
<1>6. [one EXCEPT !.reply = reply] = [at |-> "answer", made |-> cancel[w].made, reply |-> reply]
  BY <1>4
<1> QED BY <1>1, <1>3, <1>5, <1>6 DEF Turned

LEMMA GivesTurns ==
  ASSUME NEW w, NEW m, Gives(w, m)
  PROVE  Turned(w, "answer", m, "result")
BY DEF Gives, Turned

LEMMA IdleTurns ==
  ASSUME NEW w, cancel' = [cancel EXCEPT ![w] = Idle]
  PROVE  Turned(w, "idle", None, "none")
BY DEF Idle, Turned

LEMMA LoadIs ==
  ASSUME Ind
  PROVE  /\ Load \in Rows /\ receipt.memory \in Rows /\ receipt.stored \in Rows
         /\ Counts /\ saved # None => Load # NoRow /\ Load.made = saved
         /\ Counts /\ Load.status = "committed" => Load.made = saved
         /\ Counts /\ StateOf(Load) = "committed" /\ Load # NoRow => Load.made = saved
         /\ Counts /\ StateOf(Load) = "not-committed" => Load = NoRow
         /\ Load # NoRow => Load.made \in Made /\ StateOf(Load) \in {"committed", "not-committed", "ask the vault"}
<1> USE Basics
<1>1. receipt.memory \in Rows /\ receipt.stored \in Rows
  BY DEF Ind, Typed
<1>2. Load \in Rows
  BY <1>1 DEF Load
<1>3. Counts /\ saved # None => Load # NoRow /\ Load.made = saved
  BY <1>1 DEF Ind, Recorded, Load, Typed
<1>4. Counts /\ Load.status = "committed" => Load.made = saved
  BY DEF Ind, Truthful, Load
<1>5. Counts /\ StateOf(Load) = "committed" /\ Load # NoRow => Load.made = saved
  BY <1>2, <1>4 DEF StateOf, Counts
<1>6. Counts /\ StateOf(Load) = "not-committed" => Load = NoRow
  BY <1>2 DEF StateOf, Counts
<1>7. StateOf(Load) \in {"committed", "not-committed", "ask the vault"}
  BY DEF StateOf
<1> QED BY <1>1, <1>2, <1>3, <1>4, <1>5, <1>6, <1>7

(* How a receipt moves beside the accepting handler. *)
LEMMA ReceiptStays ==
  ASSUME Ind, receipt' = receipt, UNCHANGED saved, Counts' => Counts, cancelled => cancelled'
  PROVE  ReceiptMoves
BY DEF Ind, Typed, Truthful, Recorded, Prepares, ReceiptMoves

LEMMA ReceiptLoads ==
  ASSUME Ind, Loaded, UNCHANGED saved, Counts' => Counts, cancelled => cancelled'
  PROVE  ReceiptMoves
<1> USE Basics, LoadIs
<1>1. receipt \in [memory : Rows, stored : Rows] /\ receipt' = [receipt EXCEPT !.memory = Load]
  BY DEF Ind, Typed, Loaded
<1>2. receipt' \in [memory : Rows, stored : Rows] /\ receipt'.memory = Load /\ receipt'.stored = receipt.stored
  BY <1>1
<1>3. receipt.memory.status = "committed" => Load = receipt.memory
  BY <1>1 DEF Load
<1>4. receipt.memory.made # None => Load = receipt.memory
  BY <1>1 DEF Load
<1> QED BY <1>1, <1>2, <1>3, <1>4 DEF Ind, Typed, Accepting, Truthful, Recorded, Prepares, ReceiptMoves

LEMMA ReceiptPromotes ==
  ASSUME Ind, NEW m \in Made, Promote(m), UNCHANGED saved, Counts' => Counts /\ saved = m
  PROVE  ReceiptMoves /\ faults' \in 0..MaxFaults
<1> USE Basics
<1> DEFINE row == [made |-> m, status |-> "committed"]
<1>1. row \in Rows /\ row.made = m /\ row.status = "committed"
  BY DEF Rows
<1>2. /\ receipt \in [memory : Rows, stored : Rows]
      /\ receipt' = [memory |-> row, stored |-> row] \/ receipt' = [receipt EXCEPT !.memory = row]
  BY DEF Ind, Typed, Promote
<1> HIDE DEF row
<1>3. /\ receipt' \in [memory : Rows, stored : Rows] /\ receipt'.memory = row
      /\ receipt'.stored \in {row, receipt.stored}
  BY <1>1, <1>2
<1>4. faults' \in 0..MaxFaults
  BY BoundsAssumption DEF Promote, Ind, Typed
<1> QED BY <1>1, <1>3, <1>4 DEF Ind, Truthful, Recorded, ReceiptMoves

LEMMA ReceiptGoes ==
  ASSUME Ind, DeleteReceipt, Counts' => saved = None,
         accept.at \in {"prepared", "commit"} => cancelled'
  PROVE  ReceiptMoves
BY Basics DEF DeleteReceipt, ReceiptMoves

(* A handler that cancels moves, and nobody else.                            *)
CancelOnly ==
  /\ UNCHANGED <<operation, page, processing, committing, accept, locker, vault, saved, attempts,
                 locks>>
  /\ UNCHANGED <<expired, timer, dropped>>

LEMMA CancelFrame ==
  ASSUME Ind, CancelOnly, ReceiptMoves, pending' = pending \/ DeletePending,
         cancelled' = cancelled
           \/ (cancelled' = TRUE /\ processing /\ ~committing /\ (Counts => saved = None)),
         faults' \in 0..MaxFaults
  PROVE  AsideMoves
<1>1. /\ pending' \in [memory : BOOLEAN, stored : BOOLEAN]
      /\ pending'.memory => pending.memory
      /\ pending'.stored => pending.stored
  <2>1. CASE pending' = pending
    BY <2>1 DEF Ind, Typed
  <2>2. CASE pending' = [memory |-> FALSE, stored |-> FALSE]
    BY <2>2
  <2> QED BY <2>1, <2>2 DEF DeletePending
<1>2. Counts' <=> Counts
  BY DEF CancelOnly, Counts
<1>3. UNCHANGED <<operation, accept, processing, committing, saved, attempts>>
  BY DEF CancelOnly
<1>4. /\ expired' \in BOOLEAN /\ (expired => expired')
      /\ dropped' \in BOOLEAN /\ (dropped => dropped')
      /\ timer' \in BOOLEAN /\ (timer' => timer)
  BY DEF CancelOnly, Ind, Typed
<1>5. vault' \in {"unlocked", "locked"} /\ locks' \in 0..MaxLocks
  BY DEF CancelOnly, Ind, Typed
<1>6. cancelled \in BOOLEAN
  BY DEF Ind, Typed
<1>7. /\ cancelled' \in BOOLEAN /\ (cancelled => cancelled')
      /\ cancelled' => \/ cancelled
                       \/ processing /\ ~committing /\ (Counts' => saved = None)
  <2>1. CASE cancelled' = cancelled
    BY <1>6, <2>1
  <2>2. CASE cancelled' = TRUE /\ processing /\ ~committing /\ (Counts => saved = None)
    BY <1>2, <2>2
  <2> QED BY <2>1, <2>2
<1> QED BY <1>1, <1>3, <1>4, <1>5, <1>7 DEF AsideMoves

LEMMA CancelKeeps ==
  ASSUME Ind, CancelOnly, AsideMoves, CancelsMove
  PROVE  Ind'
<1>1. PageMoves
  BY DEF CancelOnly, PageMoves, Ind, Typed
<1>2. locker' \in Lockers /\ (locker'.at = "confirm" => locker'.made # None)
  BY DEF CancelOnly, Ind, Typed
<1> QED BY <1>1, <1>2, AsideKeeps

LEMMA Handlers ==
  ASSUME Ind, NEW w \in Cancellers
  PROVE  /\ cancel[w] \in Cancels /\ cancel[w].made \in Made \cup {None}
         /\ cancel[w].reply \in Replies /\ cancel[w].at \in Asking \cup Judging
         /\ cancel[w].reply = "result" => cancel[w].made # None
         /\ w = Dismiss /\ cancel[w].at # "idle" => page.dismissing
         /\ w = ByItself /\ cancel[w].at # "idle" => expired /\ ~timer
         /\ w = Dismiss /\ Counts => /\ cancel[w].reply = "result" => cancel[w].made = saved
                                     /\ cancel[w].reply = "cancelled" => Over
<1> USE Basics
<1>1. cancel[w] \in Cancels
  BY DEF Ind, Typed
<1>2. /\ cancel[w].made \in Made \cup {None} /\ cancel[w].reply \in Replies
      /\ cancel[w].at \in Asking \cup Judging
  BY <1>1 DEF Cancels, Handler
<1> QED BY <1>1, <1>2 DEF Ind, Cancelling, Truthful, Ended

(* A handler takes a step and nothing more is known. *)
LEMMA StepMoves ==
  ASSUME Ind, CancelOnly, AsideMoves, NEW w \in Cancellers, NEW at \in Asking \cup Judging,
         Step(w, at), cancel[w].at # "idle",
         cancelling' \in {cancelling, w, "none"},
         at \in Judging <=> cancelling' = w,
         cancelling' # cancelling /\ cancelling' = w
           => cancelling = "none" /\ ~processing /\ (Counts => saved = None),
         cancelling' = "none" => cancelling \in {"none", w},
         at \notin {"confirm", "relook", "cancelConfirm", "cancel"},
         at = "cancelDelete" => ~pending'.memory /\ ~pending'.stored,
         w = ByItself => at \in {"idle"} \cup Judging,
         Counts /\ saved # None /\ Careful => at # "pending"
  PROVE  CancelsMove
<1> DEFINE m == cancel[w].made
           reply == cancel[w].reply
<1>1. /\ Turned(w, at, m, reply) /\ m \in Made \cup {None} /\ reply \in Replies
      /\ reply = "result" => m # None
  BY StepTurns, Handlers
<1>2. (Counts' <=> Counts) /\ page' = page /\ timer' = timer
  BY DEF CancelOnly, Counts
<1>3. w = ByItself /\ at # "idle" => expired /\ ~timer' /\ at \in {"cancel"} \cup Judging
  BY <1>2, Handlers
<1>4. w = Dismiss /\ Counts' => (reply = "result" => m = saved) /\ (reply = "cancelled" => Over')
  BY <1>2, Handlers, OverLasts
<1>5. /\ page.dismissing /\ ~page'.dismissing => w = Dismiss /\ at = "idle"
      /\ w = Dismiss /\ at # "idle" => page'.dismissing
  BY <1>2, Handlers
<1> HIDE DEF m, reply
<1> QED BY <1>1, <1>2, <1>3, <1>4, <1>5, CancelTurns

LEMMA ConcludesMoves ==
  ASSUME Ind, CancelOnly, AsideMoves, NEW w \in Cancellers, NEW done \in BOOLEAN,
         Concludes(w, done), cancel[w].at # "idle",
         cancelling' \in {cancelling, "none"}, cancelling' # w,
         cancelling' = "none" => cancelling \in {"none", w},
         done /\ w = Dismiss /\ Counts => Over'
  PROVE  CancelsMove
<1> USE Basics
<1>1. (Counts' <=> Counts) /\ page' = page /\ timer' = timer
  BY DEF CancelOnly, Counts
<1>2. CASE w = ByItself
  <2>1. Turned(w, "idle", None, "none")
    BY <1>2, IdleTurns DEF Concludes
  <2>2. "idle" \in Asking \cup Judging /\ "idle" \notin Judging /\ "none" \in Replies
    BY DEF Asking, Judging, Replies
  <2> QED BY <1>1, <1>2, <2>1, <2>2, CancelTurns
<1>3. CASE w = Dismiss /\ done
  <2> DEFINE m == cancel[w].made
  <2>1. Says(w, "cancelled") /\ "cancelled" \in Replies
    BY <1>3 DEF Concludes, Replies
  <2>2. Turned(w, "answer", m, "cancelled") /\ m \in Made \cup {None}
    BY <2>1, SaysTurns, Handlers
  <2>3. "answer" \in Asking \cup Judging /\ "answer" \notin Judging
    BY DEF Asking, Judging
  <2>4. page'.dismissing
    BY <1>1, <1>3, Handlers
  <2> HIDE DEF m
  <2> QED BY <1>1, <1>3, <2>1, <2>2, <2>3, <2>4, CancelTurns
<1>4. CASE w = Dismiss /\ ~done
  <2>1. Step(w, "look") /\ "look" \in Asking \cup Judging /\ "look" \notin Judging
    BY <1>4 DEF Concludes, Asking, Judging
  <2> QED BY <1>4, <2>1, StepMoves
<1> QED BY <1>2, <1>3, <1>4

LEMMA AskTurns ==
  ASSUME Ind, NEW w \in Cancellers, NEW at \in Asking \cup Judging, NEW m \in Made \cup {None},
         cancel' = [cancel EXCEPT ![w].at = at, ![w].made = m]
  PROVE  Turned(w, at, m, cancel[w].reply)
<1>1. cancel \in [Cancellers -> Cancels] /\ cancel[w] \in Cancels
  BY DEF Ind, Typed
<1> DEFINE first == [cancel EXCEPT ![w].at = at]
           one == [cancel[w] EXCEPT !.at = at]
<1>2. cancel' = [first EXCEPT ![w].made = m]
  OBVIOUS
<1>3. first = [cancel EXCEPT ![w] = one] /\ first[w] = one
  BY <1>1
<1>4. one = [at |-> at, made |-> cancel[w].made, reply |-> cancel[w].reply]
  BY <1>1 DEF Cancels, Handler
<1> HIDE DEF first, one
<1>5. cancel' = [first EXCEPT ![w] = [one EXCEPT !.made = m]]
  BY <1>2, <1>3
<1>6. [one EXCEPT !.made = m] = [at |-> at, made |-> m, reply |-> cancel[w].reply]
  BY <1>4
<1> QED BY <1>1, <1>3, <1>5, <1>6 DEF Turned

(* The receipt is judged: nothing is accepted meanwhile, and what is stored  *)
(* is known to be.                                                           *)
LEMMA JudgeKeeps ==
  ASSUME Ind, CancelOnly, NEW w \in Cancellers, cancel[w].at \in {"cancel", "cancelReceipt"},
         Judge(w), UNCHANGED <<cancelled, faults>>, ~processing, cancelling \in {"none", w},
         cancelling = "none" /\ Counts /\ saved # None => StateOf(Load) = "committed"
  PROVE  Ind'
<1> USE Basics
<1>1. (Counts' <=> Counts) /\ saved' = saved /\ page' = page /\ timer' = timer
  BY DEF CancelOnly, Counts
<1>2. /\ cancel[w].at # "idle" /\ accept.at \notin {"prepared", "commit"}
      /\ (cancelled => cancelled') /\ faults' \in 0..MaxFaults
  BY DEF Ind, Typed, Accepting, Working
<1>3. cancelling = w /\ Counts => saved = None
  BY DEF Ind, Recorded
<1>4. CASE /\ Load = NoRow \/ StateOf(Load) = "not-committed"
           /\ cancelling' = w /\ Step(w, "cancelDelete") /\ DeletePending /\ DeleteReceipt
  <2>1. Counts => saved = None
    BY <1>4, LoadIs
  <2>2. ReceiptMoves
    BY <1>1, <1>2, <1>4, <2>1, ReceiptGoes
  <2>3. AsideMoves
    BY <1>2, <1>4, <2>2, CancelFrame
  <2>4. /\ ~pending'.memory /\ ~pending'.stored
        /\ "cancelDelete" \in Asking \cup Judging /\ "cancelDelete" \in Judging
    BY <1>4 DEF DeletePending, Judging
  <2>5. CancelsMove
    BY <1>2, <1>4, <2>1, <2>3, <2>4, StepMoves
  <2> QED BY <2>3, <2>5, CancelKeeps
<1>5. CASE cancelling' = "none" /\ Concludes(w, FALSE) /\ UNCHANGED <<pending, receipt>>
  <2>1. ReceiptMoves
    BY <1>1, <1>2, <1>5, ReceiptStays
  <2>2. AsideMoves
    BY <1>2, <1>5, <2>1, CancelFrame
  <2>3. CancelsMove
    <3> DEFINE done == FALSE
    <3>1. Concludes(w, done) /\ done \in BOOLEAN /\ ~done
      BY <1>5
    <3> HIDE DEF done
    <3> QED BY <1>2, <1>5, <2>2, <3>1, ConcludesMoves
  <2> QED BY <2>2, <2>3, CancelKeeps
<1>6. CASE /\ Load # NoRow /\ StateOf(Load) = "ask the vault"
           /\ cancelling' = w /\ Loaded /\ UNCHANGED pending
           /\ cancel' = [cancel EXCEPT ![w].at = "cancelConfirm", ![w].made = Load.made]
  <2> DEFINE m == Load.made
             reply == cancel[w].reply
  <2>1. /\ m \in Made \cup {None} /\ m # None /\ reply \in Replies
        /\ reply = "result" => cancel[w].made # None
    BY <1>6, LoadIs, Handlers
  <2>2. ReceiptMoves
    BY <1>1, <1>2, <1>6, ReceiptLoads
  <2>3. AsideMoves
    BY <1>2, <1>6, <2>2, CancelFrame
  <2>4. Counts => saved = None
    BY <1>3, <1>6
  <2>5. /\ "cancelConfirm" \in Asking \cup Judging /\ "cancelConfirm" \in Judging
    BY DEF Judging
  <2>6. Turned(w, "cancelConfirm", m, reply)
    BY <1>6, <2>1, <2>5, AskTurns
  <2>7. w = Dismiss /\ Counts' => reply # "result" /\ (reply = "cancelled" => Over')
    BY <1>1, <2>3, <2>4, Handlers, OverLasts
  <2>8. /\ w = ByItself => expired /\ ~timer'
        /\ w = Dismiss => page'.dismissing
    BY <1>1, <1>2, Handlers
  <2> HIDE DEF m, reply
  <2>9. CancelsMove
    BY <1>1, <1>6, <2>1, <2>3, <2>4, <2>5, <2>6, <2>7, <2>8, CancelTurns
  <2> QED BY <2>3, <2>9, CancelKeeps
<1> QED BY <1>4, <1>5, <1>6, LoadIs DEF Judge, Ends

(* Who is about to cancel in this worker knows of what the worker stored.    *)
LEMMA StillKnown ==
  ASSUME Ind, NEW w \in Cancellers, cancel[w].at \in {"pending", "cancel"}, Counts, saved # None,
         ~committing
  PROVE  ~processing /\ receipt.memory # NoRow /\ Load # NoRow /\ StateOf(Load) = "committed"
<1> USE Basics
<1>1. ~Careful /\ Recorded
  BY DEF Careful, Ind
<1>2. Fresh
  BY <1>1 DEF Recorded
<1>3. accept.at \in {"answer", "idle"} /\ receipt.memory.status = "committed"
  BY <1>2 DEF Fresh
<1>4. ~processing
  BY <1>3 DEF Ind, Accepting, Working
<1>5. receipt.memory # NoRow /\ Load = receipt.memory
  BY <1>3, LoadIs DEF Load
<1> QED BY <1>3, <1>4, <1>5 DEF StateOf, Counts

(* A handler concludes and nothing else moves. *)
LEMMA ConcludesKeeps ==
  ASSUME Ind, CancelOnly, NEW w \in Cancellers, NEW done \in BOOLEAN, Concludes(w, done),
         UNCHANGED <<pending, receipt, cancelled, faults>>,
         cancel[w].at \notin {"idle", "answer"},
         cancelling' \in {cancelling, "none"}, cancelling' # w,
         cancelling' = "none" => cancelling \in {"none", w},
         done /\ w = Dismiss /\ Counts => Over
  PROVE  Ind'
<1>1. (Counts' <=> Counts) /\ saved' = saved /\ faults' \in 0..MaxFaults
  BY DEF CancelOnly, Counts, Ind, Typed
<1>2. ReceiptMoves
  BY <1>1, ReceiptStays
<1>3. AsideMoves
  BY <1>1, <1>2, CancelFrame
<1>4. done /\ w = Dismiss /\ Counts => Over'
  BY <1>3, OverLasts
<1>5. CancelsMove
  BY <1>3, <1>4, ConcludesMoves
<1> QED BY <1>3, <1>5, CancelKeeps

LEMMA StartCancelKeeps ==
  ASSUME Ind, NEW w \in Cancellers, StartCancel(w)
  PROVE  Ind'
<1> USE Basics
<1>1. CancelOnly /\ cancel[w].at = "cancel" /\ faults' = faults /\ faults' \in 0..MaxFaults
  BY DEF StartCancel, CancelOnly, timeVars, boundVars, Ind, Typed
<1>2. (Counts' <=> Counts) /\ saved' = saved /\ cancelled \in BOOLEAN
  BY <1>1 DEF CancelOnly, Counts, Ind, Typed
<1>3. cancelling # w /\ cancelling \in {"none"} \cup Cancellers
  BY <1>1 DEF Ind, Typed, Cancelling, Judging
<1>4. CASE /\ committing /\ Concludes(w, FALSE)
           /\ UNCHANGED <<pending, receipt, cancelled, cancelling>>
  <2> DEFINE done == FALSE
  <2>1. Concludes(w, done) /\ done \in BOOLEAN /\ ~done
    BY <1>4
  <2> HIDE DEF done
  <2> QED BY <1>1, <1>3, <1>4, <2>1, ConcludesKeeps
<1>5. CASE /\ ~committing /\ processing /\ cancelled' = TRUE /\ DeletePending /\ DeleteReceipt
           /\ Concludes(w, TRUE) /\ UNCHANGED cancelling
  <2>1. Counts => saved = None
    BY <1>1, <1>5, StillKnown
  <2>2. ReceiptMoves
    BY <1>2, <1>5, <2>1, ReceiptGoes
  <2>3. AsideMoves
    BY <1>1, <1>5, <2>1, <2>2, CancelFrame
  <2>4. Counts => Over'
    BY <1>1, <1>2, <1>5, <2>1 DEF Over, IsPending, DeletePending, CancelOnly
  <2> DEFINE done == TRUE
  <2>5. Concludes(w, done) /\ done \in BOOLEAN
    BY <1>5
  <2> HIDE DEF done
  <2>6. CancelsMove
    BY <1>1, <1>3, <1>5, <2>3, <2>4, <2>5, ConcludesMoves
  <2> QED BY <1>1, <2>3, <2>6, CancelKeeps
<1>6. CASE /\ ~committing /\ ~processing /\ cancelling # "none" /\ Concludes(w, TRUE)
           /\ UNCHANGED <<pending, receipt, cancelled, cancelling>>
  <2>1. w = Dismiss => ~IsPending
    BY <1>3, <1>6 DEF Ind, Cancelling, IsPending, Judging
  <2>2. Counts => saved = None
    BY <1>6 DEF Ind, Recorded
  <2>3. w = Dismiss /\ Counts => Over
    BY <1>6, <2>1, <2>2 DEF Ind, Accepting, Over, Working
  <2> DEFINE done == TRUE
  <2>4. Concludes(w, done) /\ done \in BOOLEAN
    BY <1>6
  <2> HIDE DEF done
  <2> QED BY <1>1, <1>3, <1>6, <2>3, <2>4, ConcludesKeeps
<1>7. CASE /\ ~committing /\ ~processing /\ cancelling = "none" /\ UNCHANGED cancelled
           /\ receipt.memory # NoRow /\ Judge(w)
  BY <1>1, <1>7, StillKnown, JudgeKeeps
<1>8. CASE /\ ~committing /\ ~processing /\ cancelling = "none" /\ UNCHANGED cancelled
           /\ receipt.memory = NoRow /\ cancelling' = w /\ Step(w, "cancelReceipt")
           /\ UNCHANGED <<pending, receipt>>
  <2>1. Counts => saved = None
    BY <1>1, <1>8, StillKnown
  <2>2. ReceiptMoves
    BY <1>2, <1>8, ReceiptStays
  <2>3. AsideMoves
    BY <1>1, <1>8, <2>2, CancelFrame
  <2>4. "cancelReceipt" \in Judging
    BY DEF Judging
  <2>5. CancelsMove
    BY <1>1, <1>8, <2>1, <2>3, <2>4, StepMoves
  <2> QED BY <1>1, <2>3, <2>5, CancelKeeps
<1> QED BY <1>4, <1>5, <1>6, <1>7, <1>8 DEF StartCancel, IsCommitting, IsProcessing

(* Who judges is alone, and nothing is stored. *)
LEMMA Alone ==
  ASSUME Ind, NEW w \in Cancellers, cancel[w].at \in Judging
  PROVE  /\ cancelling = w /\ w # "none" /\ ~processing /\ ~committing
         /\ accept.at \notin Working /\ accept.at \notin {"prepared", "commit"}
         /\ Counts => saved = None
BY Basics DEF Ind, Cancelling, Accepting, Recorded, Working

LEMMA CancelReadsKeeps ==
  ASSUME Ind, NEW w \in Cancellers, CancelReads(w)
  PROVE  Ind'
<1> USE Basics
<1>1. CancelOnly /\ cancel[w].at = "cancelReceipt" /\ UNCHANGED <<cancelled, faults>>
  BY DEF CancelReads, CancelOnly, timeVars, boundVars
<1>2. /\ cancelling = w /\ cancelling # "none" /\ ~processing /\ ~committing
  BY <1>1, Alone DEF Judging
<1>3. Judge(w)
  BY <1>2 DEF CancelReads, IsCommitting
<1> QED BY <1>1, <1>2, <1>3, JudgeKeeps

LEMMA CancelDeletedKeeps ==
  ASSUME Ind, NEW w \in Cancellers, CancelDeleted(w)
  PROVE  Ind'
<1> USE Basics
<1>1. /\ CancelOnly /\ cancel[w].at = "cancelDelete" /\ UNCHANGED <<pending, receipt, cancelled, faults>>
      /\ cancelling' = "none"
  BY DEF CancelDeleted, Ends, CancelOnly, timeVars, boundVars
<1>2. /\ cancelling = w /\ w # "none" /\ ~processing /\ ~committing /\ accept.at \notin Working
      /\ Counts => saved = None
  BY <1>1, Alone DEF Judging
<1>3. Counts => Over
  BY <1>1, <1>2 DEF Ind, Cancelling, Over, IsPending, Working
<1> DEFINE done == TRUE
<1>4. Concludes(w, done) /\ done \in BOOLEAN
  BY DEF CancelDeleted, Ends
<1> HIDE DEF done
<1> QED BY <1>1, <1>2, <1>3, <1>4, ConcludesKeeps

LEMMA CancelConfirmsKeeps ==
  ASSUME Ind, NEW w \in Cancellers, CancelConfirms(w)
  PROVE  Ind'
<1> USE Basics
<1> DEFINE m == cancel[w].made
<1>1. CancelOnly /\ cancel[w].at = "cancelConfirm" /\ UNCHANGED cancelled
  BY DEF CancelConfirms, CancelOnly, timeVars
<1>2. /\ cancelling = w /\ w # "none" /\ ~processing /\ ~committing
      /\ accept.at \notin {"prepared", "commit"} /\ (Counts => saved = None)
  BY <1>1, Alone DEF Judging
<1>3. (Counts' <=> Counts) /\ saved' = saved
  BY <1>1 DEF CancelOnly, Counts
<1>4. m \in Made
  BY <1>1, Handlers DEF Ind, Cancelling
<1>5. CASE /\ ItemState(m) = "committed" /\ cancelling' = "none" /\ Concludes(w, FALSE)
           /\ Promote(m) /\ UNCHANGED pending
  <2>1. saved = m
    BY <1>5 DEF ItemState
  <2>2. ReceiptMoves /\ faults' \in 0..MaxFaults
    <3> HIDE DEF m
    <3> QED BY <1>3, <1>4, <1>5, <2>1, ReceiptPromotes
  <2>3. AsideMoves
    BY <1>1, <1>5, <2>2, CancelFrame
  <2> DEFINE done == FALSE
  <2>4. Concludes(w, done) /\ done \in BOOLEAN /\ ~done
    BY <1>5
  <2> HIDE DEF done, m
  <2>5. CancelsMove
    BY <1>1, <1>2, <1>5, <2>3, <2>4, ConcludesMoves
  <2> QED BY <1>1, <2>3, <2>5, CancelKeeps
<1>6. CASE cancelling' = "none" /\ Concludes(w, FALSE) /\ UNCHANGED <<pending, receipt, faults>>
  <2> DEFINE done == FALSE
  <2>1. Concludes(w, done) /\ done \in BOOLEAN /\ ~done
    BY <1>6
  <2> HIDE DEF done
  <2> QED BY <1>1, <1>2, <1>6, <2>1, ConcludesKeeps
<1>7. CASE /\ Step(w, "cancelDelete") /\ DeletePending /\ DeleteReceipt
           /\ UNCHANGED <<cancelling, faults>>
  <2>1. ReceiptMoves /\ faults' \in 0..MaxFaults
    BY <1>2, <1>3, <1>7, ReceiptGoes DEF Ind, Typed
  <2>2. AsideMoves
    BY <1>1, <1>7, <2>1, CancelFrame
  <2>3. "cancelDelete" \in Judging /\ ~pending'.memory /\ ~pending'.stored
    BY <1>7 DEF DeletePending, Judging
  <2>4. CancelsMove
    BY <1>1, <1>2, <1>7, <2>2, <2>3, StepMoves
  <2> QED BY <1>1, <2>2, <2>4, CancelKeeps
<1> QED BY <1>5, <1>6, <1>7 DEF CancelConfirms, Ends

(* The handler of a dismissal answers, and nothing else is known. *)
LEMMA SaysMoves ==
  ASSUME Ind, CancelOnly, AsideMoves, NEW reply \in {"pending", "cancelled"}, Says(Dismiss, reply),
         cancel[Dismiss].at # "idle", cancel[Dismiss].at \notin Judging, cancelling' = cancelling,
         reply = "cancelled" /\ Counts => Over
  PROVE  CancelsMove
<1> USE Basics
<1> DEFINE m == cancel[Dismiss].made
<1>1. (Counts' <=> Counts) /\ page' = page /\ timer' = timer
  BY DEF CancelOnly, Counts
<1>2. reply \in Replies
  BY DEF Replies
<1>3. Turned(Dismiss, "answer", m, reply) /\ m \in Made \cup {None}
  BY <1>2, SaysTurns, Handlers
<1>4. "answer" \in Asking \cup Judging /\ "answer" \notin Judging
  BY DEF Asking, Judging
<1>5. page'.dismissing
  BY <1>1, Handlers
<1>6. reply = "cancelled" /\ Counts => Over'
  BY OverLasts
<1>7. cancelling # Dismiss
  BY DEF Ind, Cancelling
<1> HIDE DEF m
<1> QED BY <1>1, <1>2, <1>3, <1>4, <1>5, <1>6, <1>7, CancelTurns

LEMMA GivesMoves ==
  ASSUME Ind, CancelOnly, AsideMoves, NEW m \in Made, Gives(Dismiss, m),
         cancel[Dismiss].at # "idle", cancel[Dismiss].at \notin Judging, cancelling' = cancelling,
         Counts => m = saved
  PROVE  CancelsMove
<1> USE Basics
<1>1. (Counts' <=> Counts) /\ page' = page /\ timer' = timer
  BY DEF CancelOnly, Counts
<1>2. Turned(Dismiss, "answer", m, "result") /\ "result" \in Replies /\ m # None
  BY GivesTurns DEF Replies
<1>3. "answer" \in Asking \cup Judging /\ "answer" \notin Judging
  BY DEF Asking, Judging
<1>4. page'.dismissing
  BY <1>1, Handlers
<1>5. cancelling # Dismiss
  BY DEF Ind, Cancelling
<1> QED BY <1>1, <1>2, <1>3, <1>4, <1>5, CancelTurns

(* The frames of the actions of a dismissal that look at the receipt. *)
LEMMA DismissOnly ==
  ASSUME Ind, DismissArrives \/ DismissReads \/ DismissConfirms \/ DismissFinds
  PROVE  /\ CancelOnly /\ UNCHANGED <<pending, cancelled, cancelling>>
         /\ cancel[Dismiss].at \in {"arrive", "receipt", "look", "confirm", "relook", "pending"}
         /\ cancel[Dismiss].at # "idle" /\ cancel[Dismiss].at \notin Judging
         /\ cancelling # Dismiss /\ (Counts' <=> Counts) /\ saved' = saved
<1> USE Basics
<1>1. /\ CancelOnly /\ UNCHANGED <<pending, cancelled, cancelling>>
      /\ cancel[Dismiss].at \in {"arrive", "receipt", "look", "confirm", "relook", "pending"}
  BY DEF DismissArrives, DismissReads, DismissConfirms, DismissFinds, CancelOnly, timeVars, flagVars,
         boundVars
<1>2. cancel[Dismiss].at # "idle" /\ cancel[Dismiss].at \notin Judging /\ cancelling # Dismiss
  BY <1>1 DEF Judging, Ind, Cancelling
<1>3. (Counts' <=> Counts) /\ saved' = saved
  BY <1>1 DEF CancelOnly, Counts
<1> QED BY <1>1, <1>2, <1>3

LEMMA DismissArrivesKeeps ==
  ASSUME Ind, DismissArrives
  PROVE  Ind'
<1> USE Basics, DismissOnly
<1>1. receipt' = receipt /\ faults' \in 0..MaxFaults
  BY DEF DismissArrives, boundVars, Ind, Typed
<1>2. ReceiptMoves
  BY <1>1, ReceiptStays
<1>3. AsideMoves
  BY <1>1, <1>2, CancelFrame
<1>4. CASE Says(Dismiss, "pending")
  BY <1>3, <1>4, SaysMoves, CancelKeeps
<1>5. CASE Step(Dismiss, "receipt")
  <2>1. "receipt" \in Asking \cup Judging /\ "receipt" \notin Judging
    BY DEF Asking, Judging
  <2> QED BY <1>3, <1>5, <2>1, StepMoves, CancelKeeps
<1> QED BY <1>4, <1>5 DEF DismissArrives

LEMMA DismissReadsKeeps ==
  ASSUME Ind, DismissReads
  PROVE  Ind'
<1> USE Basics, DismissOnly
<1>1. cancel[Dismiss].at \in {"receipt", "look"} /\ faults \in 0..MaxFaults
  BY DEF DismissReads, Ind, Typed
<1>0. ASSUME Loaded PROVE ReceiptMoves
  BY <1>0, ReceiptLoads
<1>2. CASE /\ Load = NoRow \/ StateOf(Load) = "not-committed"
           /\ Step(Dismiss, "pending") \/ Says(Dismiss, "pending")
           /\ Loaded /\ UNCHANGED faults
  <2>1. Counts => saved = None
    BY <1>2, LoadIs
  <2>2. ReceiptMoves
    BY <1>2, <1>0
  <2>3. AsideMoves
    BY <1>1, <1>2, <2>2, CancelFrame
  <2>4. CASE Step(Dismiss, "pending")
    <3>1. "pending" \in Asking \cup Judging /\ "pending" \notin Judging
      BY DEF Asking, Judging
    <3> QED BY <2>1, <2>3, <2>4, <3>1, StepMoves, CancelKeeps
  <2>5. CASE Says(Dismiss, "pending")
    BY <2>3, <2>5, SaysMoves, CancelKeeps
  <2> QED BY <1>2, <2>4, <2>5
<1>3. CASE /\ Load # NoRow /\ StateOf(Load) = "committed"
           /\ Gives(Dismiss, Load.made) /\ Promote(Load.made)
  <2> DEFINE m == Load.made
  <2>1. m \in Made /\ (Counts => saved = m) /\ Gives(Dismiss, m) /\ Promote(m)
    BY <1>3, LoadIs
  <2> HIDE DEF m
  <2>2. ReceiptMoves /\ faults' \in 0..MaxFaults
    BY <2>1, ReceiptPromotes
  <2>3. AsideMoves
    BY <2>2, CancelFrame
  <2> QED BY <2>1, <2>3, GivesMoves, CancelKeeps
<1>4. CASE /\ Load # NoRow /\ StateOf(Load) = "ask the vault" /\ Loaded /\ UNCHANGED faults
           /\ cancel' = [cancel EXCEPT
                           ![Dismiss].at = IF cancel[Dismiss].at = "receipt" THEN "confirm" ELSE "relook",
                           ![Dismiss].made = Load.made]
  <2> DEFINE m == Load.made
             reply == cancel[Dismiss].reply
             at == IF cancel[Dismiss].at = "receipt" THEN "confirm" ELSE "relook"
  <2>1. ReceiptMoves
    BY <1>4, <1>0
  <2>2. AsideMoves
    BY <1>1, <1>4, <2>1, CancelFrame
  <2>3. at \in Asking \cup Judging /\ at \notin Judging /\ at \in {"confirm", "relook"}
    BY DEF Asking, Judging
  <2>4. m \in Made \cup {None} /\ m # None /\ reply \in Replies
    BY <1>4, LoadIs, Handlers
  <2>5. Turned(Dismiss, at, m, reply)
    <3>1. cancel' = [cancel EXCEPT ![Dismiss].at = at, ![Dismiss].made = m]
      BY <1>4
    <3> HIDE DEF at, m
    <3> QED BY <2>3, <2>4, <3>1, AskTurns
  <2>6. Counts /\ saved # None => m = saved
    BY LoadIs
  <2>7. Counts => (reply = "result" => m = saved) /\ (reply = "cancelled" => Over')
    <3>1. Counts /\ reply = "result" => saved # None
      BY Handlers
    <3> QED BY <2>2, <2>6, <3>1, Handlers, OverLasts
  <2>8. page' = page /\ page.dismissing
    BY Handlers DEF CancelOnly
  <2> HIDE DEF m, reply, at
  <2>9. CancelsMove
    BY <2>2, <2>3, <2>4, <2>5, <2>6, <2>7, <2>8, CancelTurns
  <2> QED BY <2>2, <2>9, CancelKeeps
<1> QED BY <1>2, <1>3, <1>4, LoadIs DEF DismissReads

LEMMA DismissConfirmsKeeps ==
  ASSUME Ind, DismissConfirms
  PROVE  Ind'
<1> USE Basics, DismissOnly
<1> DEFINE m == cancel[Dismiss].made
<1>1. cancel[Dismiss].at \in {"confirm", "relook"} /\ faults \in 0..MaxFaults /\ m \in Made
  BY Handlers DEF DismissConfirms, Ind, Typed, Cancelling
<1>2. CASE ItemState(m) = "committed" /\ Gives(Dismiss, m) /\ Promote(m)
  <2>1. saved = m
    BY <1>2 DEF ItemState
  <2> HIDE DEF m
  <2>2. ReceiptMoves /\ faults' \in 0..MaxFaults
    BY <1>1, <1>2, <2>1, ReceiptPromotes
  <2>3. AsideMoves
    BY <2>2, CancelFrame
  <2> QED BY <1>1, <1>2, <2>1, <2>3, GivesMoves, CancelKeeps
<1>3. ASSUME UNCHANGED <<receipt, faults>>
      PROVE  AsideMoves
  <2>1. ReceiptMoves
    BY <1>3, ReceiptStays
  <2> QED BY <1>1, <1>3, <2>1, CancelFrame
<1>4. CASE /\ ItemState(m) = "not-committed" /\ cancel[Dismiss].at = "confirm"
           /\ Step(Dismiss, "pending") /\ UNCHANGED <<receipt, faults>>
  <2>1. Counts /\ saved # None => ~Careful
    BY <1>4 DEF Careful, ItemState
  <2>2. "pending" \in Asking \cup Judging /\ "pending" \notin Judging
    BY DEF Asking, Judging
  <2> QED BY <1>3, <1>4, <2>1, <2>2, StepMoves, CancelKeeps
<1>5. CASE Says(Dismiss, "pending") /\ UNCHANGED <<receipt, faults>>
  BY <1>3, <1>5, SaysMoves, CancelKeeps
<1> QED BY <1>2, <1>4, <1>5 DEF DismissConfirms

LEMMA DismissFindsKeeps ==
  ASSUME Ind, DismissFinds
  PROVE  Ind'
<1> USE Basics, DismissOnly
<1>1. cancel[Dismiss].at = "pending" /\ receipt' = receipt /\ faults' \in 0..MaxFaults
  BY DEF DismissFinds, boundVars, Ind, Typed
<1>2. ReceiptMoves
  BY <1>1, ReceiptStays
<1>3. AsideMoves
  BY <1>1, <1>2, CancelFrame
<1>4. CASE Load = NoRow /\ ~IsPending /\ ~processing /\ Says(Dismiss, "cancelled")
  <2>1. Counts => saved = None
    BY <1>4, LoadIs
  <2>2. Counts => Over
    BY <1>4, <2>1 DEF Ind, Accepting, Over, Working
  <2> QED BY <1>3, <1>4, <2>2, SaysMoves, CancelKeeps
<1>5. CASE Step(Dismiss, "cancel")
  <2> DEFINE m == cancel[Dismiss].made
             reply == cancel[Dismiss].reply
  <2>1. "cancel" \in Asking \cup Judging /\ "cancel" \notin Judging
    BY DEF Asking, Judging
  <2>2. /\ Turned(Dismiss, "cancel", m, reply) /\ m \in Made \cup {None} /\ reply \in Replies
        /\ reply = "result" => m # None
    BY <1>5, <2>1, StepTurns, Handlers
  <2>3. ~Careful
    BY <1>1 DEF Careful
  <2>4. Counts => (reply = "result" => m = saved) /\ (reply = "cancelled" => Over')
    BY <1>3, Handlers, OverLasts
  <2>5. page' = page /\ page.dismissing
    BY Handlers DEF CancelOnly
  <2> HIDE DEF m, reply
  <2>6. CancelsMove
    BY <1>3, <2>1, <2>2, <2>3, <2>4, <2>5, CancelTurns
  <2> QED BY <1>3, <2>6, CancelKeeps
<1> QED BY <1>4, <1>5 DEF DismissFinds

(* Beside the accepting handler: the lock, the page, the time. *)
LEMMA AsideFrame ==
  ASSUME Ind, UNCHANGED <<operation, accept, processing, committing, cancelled, saved, attempts>>,
         ReceiptMoves, pending' = pending \/ DeletePending, dropped' = dropped,
         expired' = expired \/ expired' = TRUE, timer' = timer \/ timer' = FALSE,
         vault' = vault \/ vault' \in {"unlocked", "locked"}, locks' \in 0..MaxLocks,
         faults' \in 0..MaxFaults
  PROVE  AsideMoves
<1>1. /\ pending' \in [memory : BOOLEAN, stored : BOOLEAN]
      /\ pending'.memory => pending.memory
      /\ pending'.stored => pending.stored
  <2>1. CASE pending' = pending
    BY <2>1 DEF Ind, Typed
  <2>2. CASE pending' = [memory |-> FALSE, stored |-> FALSE]
    BY <2>2
  <2> QED BY <2>1, <2>2 DEF DeletePending
<1>2. /\ expired \in BOOLEAN /\ timer \in BOOLEAN /\ dropped \in BOOLEAN /\ cancelled \in BOOLEAN
      /\ vault \in {"unlocked", "locked"}
  BY DEF Ind, Typed
<1>3. /\ expired' \in BOOLEAN /\ (expired => expired')
      /\ dropped' \in BOOLEAN /\ (dropped => dropped')
  BY <1>2
<1>4. timer' \in BOOLEAN /\ (timer' => timer)
  <2>1. CASE timer' = timer
    BY <1>2, <2>1
  <2>2. CASE timer' = FALSE
    BY <2>2
  <2> QED BY <2>1, <2>2
<1>5. /\ cancelled' \in BOOLEAN /\ (cancelled => cancelled') /\ (cancelled' => cancelled)
      /\ vault' \in {"unlocked", "locked"}
  BY <1>2
<1> QED BY <1>1, <1>3, <1>4, <1>5 DEF AsideMoves

LEMMA ReceiptSame ==
  ASSUME Ind, UNCHANGED <<operation, receipt, saved, dropped, cancelled>>
  PROVE  ReceiptMoves
BY ReceiptStays DEF Counts

(* The page stays, or only what it asks for changes. *)
LEMMA PageStays ==
  ASSUME Ind, page' = page
  PROVE  PageMoves
BY DEF Ind, Typed, PageMoves

LEMMA AgainTurns ==
  ASSUME NEW w, NEW at, cancel' = [cancel EXCEPT ![w] = [Idle EXCEPT !.at = at]]
  PROVE  Turned(w, at, None, "none")
<1>1. [Idle EXCEPT !.at = at] = [at |-> at, made |-> None, reply |-> "none"]
  BY DEF Idle
<1> QED BY <1>1 DEF Turned

LEMMA UserDismissesKeeps ==
  ASSUME Ind, UserDismisses
  PROVE  Ind'
<1> USE Basics
<1>1. /\ UNCHANGED <<operation, pending, receipt, processing, committing, cancelled, cancelling,
                     accept, locker, vault, saved, expired, timer, dropped, attempts, locks, faults>>
      /\ locks' \in 0..MaxLocks /\ faults' \in 0..MaxFaults
  BY DEF UserDismisses, flagVars, timeVars, boundVars, Ind, Typed
<1>2. AsideMoves
  BY <1>1, ReceiptSame, AsideFrame
<1>3. page \in Pages /\ ~page.dismissing /\ page.asks + 1 \in 0..MaxAsks
  <2>1. page \in Pages /\ page.asks \in 0..MaxAsks
    BY DEF Ind, Typed, Pages
  <2>2. ~page.dismissing /\ page.asks < MaxAsks
    BY DEF UserDismisses
  <2> QED BY <2>1, <2>2, BoundsAssumption
<1>4. /\ page' \in Pages /\ page'.dismissing /\ page'.call = page.call /\ page'.ended = page.ended
      /\ page'.given = page.given
  <2> DEFINE asks == page.asks + 1
  <2>1. page' = [page EXCEPT !.dismissing = TRUE, !.asks = asks]
    BY <1>3 DEF UserDismisses
  <2>2. asks \in 0..MaxAsks
    BY <1>3
  <2> HIDE DEF asks
  <2> QED BY <1>3, <2>1, <2>2 DEF Pages
<1>5. PageMoves
  BY <1>4 DEF PageMoves, Ind, Typed
<1>6. Turned(Dismiss, "arrive", None, "none")
  BY AgainTurns DEF UserDismisses
<1>7. "arrive" \in Asking \cup Judging /\ "arrive" \notin Judging /\ "none" \in Replies
  BY DEF Asking, Judging, Replies
<1>8. cancelling # Dismiss
  BY <1>3 DEF Ind, Cancelling, Judging
<1>9. CancelsMove
  BY <1>1, <1>2, <1>4, <1>6, <1>7, <1>8, CancelTurns
<1>10. locker' \in Lockers /\ (locker'.at = "confirm" => locker'.made # None)
  BY <1>1 DEF Ind, Typed
<1> QED BY <1>2, <1>5, <1>9, <1>10, AsideKeeps

LEMMA DismissAnsweredKeeps ==
  ASSUME Ind, DismissAnswered
  PROVE  Ind'
<1> USE Basics
<1>1. /\ UNCHANGED <<operation, pending, receipt, processing, committing, cancelled, cancelling,
                     accept, locker, vault, saved, expired, timer, dropped, attempts, locks, faults>>
      /\ locks' \in 0..MaxLocks /\ faults' \in 0..MaxFaults
  BY DEF DismissAnswered, flagVars, timeVars, boundVars, Ind, Typed
<1>2. AsideMoves
  BY <1>1, ReceiptSame, AsideFrame
<1>3. cancel[Dismiss].at = "answer" /\ page.dismissing /\ page \in Pages /\ cancelling # Dismiss
  BY Handlers DEF DismissAnswered, Ind, Typed, Cancelling, Judging
<1> DEFINE m == cancel[Dismiss].made
           reply == cancel[Dismiss].reply
           at == IF page.ended # "open" \/ reply # "pending" THEN "idle" ELSE "arrive"
<1>4. /\ m \in Made \cup {None} /\ (reply = "result" => m # None)
      /\ Counts => /\ reply = "result" => m = saved
                   /\ reply = "cancelled" => Over
  BY Handlers
<1>5. Turned(Dismiss, at, None, "none") /\ at \in {"idle", "arrive"}
  <2>1. cancel' = [cancel EXCEPT ![Dismiss] = [Idle EXCEPT !.at = at]] /\ at \in {"idle", "arrive"}
    BY DEF DismissAnswered
  <2> HIDE DEF at
  <2> QED BY <2>1, AgainTurns
<1>6. Counts' <=> Counts
  BY <1>1 DEF Counts
<1>7. /\ PageMoves
      /\ page.dismissing /\ ~page'.dismissing => at = "idle"
      /\ at # "idle" => page'.dismissing
  <2>1. CASE page.ended # "open" /\ page' = [page EXCEPT !.dismissing = FALSE]
    <3>1. /\ page' \in Pages /\ page'.call = page.call /\ page'.ended = page.ended
          /\ page'.given = page.given
      BY <1>3, <2>1 DEF Pages
    <3> QED BY <2>1, <3>1 DEF PageMoves, Ind, Typed
  <2>2. CASE /\ page.ended = "open" /\ reply = "result"
             /\ page' = [Resolved(m) EXCEPT !.dismissing = FALSE]
    <3> HIDE DEF m, reply, at
    <3> DEFINE first == [page EXCEPT !.ended = "result", !.given = m]
    <3>1. first \in Pages /\ first.call = page.call /\ first.ended = "result" /\ first.given = m
      BY <1>3, <1>4 DEF Pages
    <3>2. page' = [first EXCEPT !.dismissing = FALSE]
      BY <2>2 DEF Resolved
    <3> HIDE DEF first
    <3>3. /\ page' \in Pages /\ page'.call = page.call /\ page'.ended = "result"
          /\ page'.given = m
      BY <3>1, <3>2 DEF Pages
    <3>4. at = "idle"
      BY <2>2 DEF at
    <3> QED BY <1>4, <1>6, <2>2, <3>3, <3>4 DEF PageMoves
  <2>3. CASE /\ page.ended = "open" /\ reply = "cancelled"
             /\ page' = [Rejected("dismissed") EXCEPT !.dismissing = FALSE]
    <3> HIDE DEF m, reply, at
    <3>1. page' = [page EXCEPT !.ended = "dismissed", !.dismissing = FALSE]
      BY <1>3, <2>3 DEF Rejected, Pages
    <3>2. /\ page' \in Pages /\ page'.call = page.call /\ page'.ended = "dismissed"
          /\ page'.given = page.given
      BY <1>3, <3>1 DEF Pages
    <3>3. page.given = None
      BY <2>3 DEF Ind, Typed
    <3>4. at = "idle"
      BY <2>3 DEF at
    <3> QED BY <1>4, <1>6, <2>3, <3>2, <3>3, <3>4 DEF PageMoves
  <2>4. CASE page' = page
    BY <1>3, <2>4, PageStays
  <2> QED BY <2>1, <2>2, <2>3, <2>4 DEF DismissAnswered
<1>8. {"idle", "arrive"} \cap Judging = {} /\ {"idle", "arrive"} \subseteq Asking /\ "none" \in Replies
  BY DEF Asking, Judging, Replies
<1>9. CancelsMove
  <2> HIDE DEF m, reply, at
  <2>1. at \in Asking \cup Judging /\ at \notin Judging
    BY <1>5, <1>8
  <2> QED BY <1>1, <1>2, <1>3, <1>5, <1>7, <1>8, <2>1, CancelTurns
<1>10. locker' \in Lockers /\ (locker'.at = "confirm" => locker'.made # None)
  BY <1>1 DEF Ind, Typed
<1> QED BY <1>2, <1>7, <1>9, <1>10, AsideKeeps

LEMMA BackgroundCancelsKeeps ==
  ASSUME Ind, BackgroundCancels
  PROVE  Ind'
<1> USE Basics
<1>1. /\ UNCHANGED <<operation, page, pending, receipt, processing, committing, cancelled, cancelling,
                     accept, locker, vault, saved, expired, dropped, attempts, locks, faults>>
      /\ locks' \in 0..MaxLocks /\ faults' \in 0..MaxFaults /\ timer' = FALSE /\ timer /\ expired
  BY DEF BackgroundCancels, flagVars, boundVars, Ind, Typed
<1>2. AsideMoves
  BY <1>1, ReceiptSame, AsideFrame
<1>3. PageMoves
  BY <1>1, PageStays
<1>4. CancelsMove
  <2>1. CASE cancel' = cancel
    BY <1>1, <1>2, <2>1, CancelsStay
  <2>2. CASE Step(ByItself, "cancel")
    <3> DEFINE m == cancel[ByItself].made
               reply == cancel[ByItself].reply
    <3>1. "cancel" \in Asking \cup Judging /\ "cancel" \notin Judging
      BY DEF Asking, Judging
    <3>2. /\ Turned(ByItself, "cancel", m, reply) /\ m \in Made \cup {None} /\ reply \in Replies
          /\ reply = "result" => m # None
      BY <2>2, <3>1, StepTurns, Handlers
    <3>3. cancelling # ByItself /\ ~Careful
      BY <1>1 DEF Ind, Cancelling, Careful, Judging
    <3> HIDE DEF m, reply
    <3> QED BY <1>1, <1>2, <3>1, <3>2, <3>3, CancelTurns
  <2> QED BY <2>1, <2>2 DEF BackgroundCancels, Step
<1>5. locker' \in Lockers /\ (locker'.at = "confirm" => locker'.made # None)
  BY <1>1 DEF Ind, Typed
<1> QED BY <1>2, <1>3, <1>4, <1>5, AsideKeeps

(* The page and the cancelling handlers stay where they are. *)
LEMMA LockKeeps ==
  ASSUME Ind, AsideMoves, PageMoves, UNCHANGED <<cancel, cancelling>>,
         page.dismissing => page'.dismissing, locker' \in Lockers,
         locker'.at = "confirm" => locker'.made # None
  PROVE  Ind'
BY CancelsStay, AsideKeeps

LEMMA LockStartsKeeps ==
  ASSUME Ind, UserLocks \/ SessionEnds
  PROVE  Ind'
<1>1. /\ UNCHANGED <<operation, page, pending, receipt, processing, committing, cancelled, cancelling,
                     cancel, accept, saved, expired, timer, dropped, attempts, faults>>
      /\ faults' \in 0..MaxFaults /\ (vault' = vault \/ vault' \in {"unlocked", "locked"})
  BY DEF UserLocks, SessionEnds, flagVars, timeVars, Ind, Typed
<1>2. locks' \in 0..MaxLocks
  <2>1. locks \in 0..MaxLocks /\ locks < MaxLocks /\ locks' = locks + 1
    BY DEF UserLocks, SessionEnds, Ind, Typed
  <2> QED BY <2>1, BoundsAssumption
<1>3. AsideMoves
  BY <1>1, <1>2, ReceiptSame, AsideFrame
<1>4. locker' \in Lockers /\ locker'.at = "listed"
  <2> DEFINE st == pending.stored
  <2>1. st \in BOOLEAN
    BY DEF Ind, Typed
  <2>2. \/ locker' = [at |-> "listed", listed |-> st, made |-> None, manual |-> TRUE]
        \/ locker' = [at |-> "listed", listed |-> st, made |-> None, manual |-> FALSE]
    BY DEF UserLocks, SessionEnds
  <2> HIDE DEF st
  <2>3. CASE locker' = [at |-> "listed", listed |-> st, made |-> None, manual |-> TRUE]
    BY <2>1, <2>3 DEF Lockers
  <2>4. CASE locker' = [at |-> "listed", listed |-> st, made |-> None, manual |-> FALSE]
    BY <2>1, <2>4 DEF Lockers
  <2> QED BY <2>2, <2>3, <2>4
<1> QED BY <1>1, <1>3, <1>4, PageStays, LockKeeps

LEMMA QuietKeeps ==
  ASSUME Ind, UserUnlocks \/ TimePasses \/ Purge
  PROVE  Ind'
<1>1. /\ UNCHANGED <<operation, page, receipt, processing, committing, cancelled, cancelling,
                     cancel, accept, locker, saved, timer, dropped, attempts, locks, faults>>
      /\ vault' = vault \/ vault' \in {"unlocked", "locked"}
      /\ pending' = pending \/ DeletePending
      /\ expired' = expired \/ expired' = TRUE
  BY DEF UserUnlocks, TimePasses, Purge, flagVars, timeVars, boundVars
<1>2. locks' \in 0..MaxLocks /\ faults' \in 0..MaxFaults
  BY <1>1 DEF Ind, Typed
<1>3. AsideMoves
  BY <1>1, <1>2, ReceiptSame, AsideFrame
<1>4. locker' \in Lockers /\ (locker'.at = "confirm" => locker'.made # None)
  BY <1>1 DEF Ind, Typed
<1> QED BY <1>1, <1>3, <1>4, PageStays, LockKeeps

(* What the lock does to the requests under way. *)
LEMMA LockFlagsKeeps ==
  ASSUME Ind, LockFlags
  PROVE  Ind'
<1> USE Basics
<1>1. /\ UNCHANGED <<operation, page, processing, committing, cancelling, accept, cancel, vault, saved,
                     expired, timer, attempts, locks, faults>>
      /\ locks' \in 0..MaxLocks /\ faults' \in 0..MaxFaults
  BY DEF LockFlags, boundVars, Ind, Typed
<1>2. /\ operation \in {"create", "get"} /\ expired \in BOOLEAN /\ dropped \in BOOLEAN
      /\ timer \in BOOLEAN /\ cancelled \in BOOLEAN /\ vault \in {"unlocked", "locked"}
      /\ pending \in [memory : BOOLEAN, stored : BOOLEAN]
  BY DEF Ind, Typed
<1> DEFINE listed == (locker.listed \/ pending.memory) /\ ~expired
           next == IF listed THEN "check" ELSE "lock"
<1>3. locker \in Lockers /\ listed \in BOOLEAN
  BY DEF Ind, Typed, Lockers
<1>4. CASE /\ processing /\ ~committing /\ cancelled' = TRUE /\ DeleteReceipt /\ UNCHANGED pending
           /\ dropped' = (dropped \/ (Load # NoRow /\ Load.made = saved))
           /\ locker' = [locker EXCEPT !.at = "forget", !.listed = listed]
  <2> HIDE DEF listed, next
  <2>1. Counts' => saved = None
    <3>1. Counts' => Counts /\ ~(Load # NoRow /\ Load.made = saved)
      BY <1>1, <1>4 DEF Counts
    <3> QED BY <3>1, LoadIs
  <2>2. ReceiptMoves
    BY <1>4, <2>1, ReceiptGoes
  <2>3. /\ dropped' \in BOOLEAN /\ (dropped => dropped')
        /\ cancelled' \in BOOLEAN /\ (cancelled => cancelled')
    BY <1>2, <1>4
  <2>4. expired' \in BOOLEAN /\ (expired => expired') /\ timer' \in BOOLEAN /\ (timer' => timer)
    BY <1>1, <1>2
  <2>5. AsideMoves
    BY <1>1, <1>2, <1>4, <2>1, <2>2, <2>3, <2>4 DEF AsideMoves
  <2>6. locker' \in Lockers /\ locker'.at = "forget"
    BY <1>3, <1>4 DEF Lockers
  <2> QED BY <1>1, <2>5, <2>6, PageStays, LockKeeps
<1>5. CASE /\ UNCHANGED <<cancelled, receipt, dropped>>
           /\ locker' = [locker EXCEPT !.at = next, !.listed = listed] /\ Forget
  <2>1. pending' = pending \/ DeletePending
    BY <1>5 DEF Forget
  <2>2. AsideMoves
    BY <1>1, <1>5, <2>1, ReceiptSame, AsideFrame
  <2>3. next \in {"check", "lock"}
    OBVIOUS
  <2> HIDE DEF listed, next
  <2>4. locker' \in Lockers /\ locker'.at = next
    BY <1>3, <1>5, <2>3 DEF Lockers
  <2> QED BY <1>1, <2>2, <2>3, <2>4, PageStays, LockKeeps
<1> QED BY <1>4, <1>5 DEF LockFlags

(* The lock goes on beside everything else. *)
LEMMA LockMoves ==
  ASSUME Ind, UNCHANGED <<operation, page, processing, committing, cancelled, cancelling, cancel,
                          accept, saved, expired, timer, dropped, attempts, locks>>,
         vault' \in {vault, "locked"}, pending' = pending \/ DeletePending, ReceiptMoves,
         faults' \in 0..MaxFaults, locker' \in Lockers, locker'.at = "confirm" => locker'.made # None
  PROVE  Ind'
<1>1. locks' \in 0..MaxLocks /\ (vault' = vault \/ vault' \in {"unlocked", "locked"})
  BY DEF Ind, Typed
<1>2. AsideMoves
  BY <1>1, AsideFrame
<1> QED BY <1>2, PageStays, LockKeeps

LEMMA LockForgetsKeeps ==
  ASSUME Ind, LockForgets
  PROVE  Ind'
<1>1. /\ UNCHANGED <<operation, page, receipt, processing, committing, cancelled, cancelling, cancel,
                     accept, saved, expired, timer, dropped, attempts, locks, vault, faults>>
      /\ pending' = pending \/ DeletePending
  BY DEF LockForgets, Forget, flagVars, timeVars, boundVars
<1>2. ReceiptMoves /\ faults' \in 0..MaxFaults
  BY <1>1, ReceiptSame DEF Ind, Typed
<1>3. locker' \in Lockers /\ locker'.at # "confirm"
  <2>1. /\ locker \in Lockers
        /\ locker' = [locker EXCEPT !.at = "check"] \/ locker' = [locker EXCEPT !.at = "lock"]
    BY DEF LockForgets, Ind, Typed
  <2> QED BY <2>1 DEF Lockers
<1> QED BY <1>1, <1>2, <1>3, LockMoves

LEMMA LockChecksKeeps ==
  ASSUME Ind, LockChecks
  PROVE  Ind'
<1> USE Basics
<1>1. /\ UNCHANGED <<operation, page, pending, processing, committing, cancelled, cancelling, cancel,
                     accept, saved, expired, timer, dropped, attempts, locks, vault, faults>>
      /\ (Counts' => Counts) /\ faults' \in 0..MaxFaults /\ locker \in Lockers
  BY DEF LockChecks, flagVars, timeVars, boundVars, Counts, Ind, Typed
<1>2. CASE locker' = [locker EXCEPT !.at = "lock"] /\ UNCHANGED receipt
  <2>1. locker' \in Lockers /\ locker'.at = "lock"
    BY <1>1, <1>2 DEF Lockers
  <2> QED BY <1>1, <1>2, <2>1, ReceiptSame, LockMoves
<1>3. CASE locker' = [locker EXCEPT !.at = "tell"] /\ Loaded
  <2>1. locker' \in Lockers /\ locker'.at = "tell"
    BY <1>1, <1>3 DEF Lockers
  <2> QED BY <1>1, <1>3, <2>1, ReceiptLoads, LockMoves
<1>4. CASE /\ Load # NoRow /\ locker' = [locker EXCEPT !.at = "confirm", !.made = Load.made]
           /\ Loaded
  <2> DEFINE m == Load.made
  <2>1. m \in Made
    BY <1>4, LoadIs
  <2>2. locker' = [locker EXCEPT !.at = "confirm", !.made = m]
    BY <1>4
  <2> HIDE DEF m
  <2>3. locker' \in Lockers /\ locker'.made # None
    BY <1>1, <2>1, <2>2 DEF Lockers
  <2> QED BY <1>1, <1>4, <2>3, ReceiptLoads, LockMoves
<1> QED BY <1>2, <1>3, <1>4 DEF LockChecks

LEMMA LockConfirmsKeeps ==
  ASSUME Ind, LockConfirms
  PROVE  Ind'
<1> USE Basics
<1> DEFINE m == locker.made
<1>1. /\ UNCHANGED <<operation, page, pending, processing, committing, cancelled, cancelling, cancel,
                     accept, saved, expired, timer, dropped, attempts, locks, vault>>
      /\ (Counts' => Counts) /\ faults \in 0..MaxFaults /\ locker \in Lockers /\ m \in Made
  BY DEF LockConfirms, flagVars, timeVars, Counts, Ind, Typed, Lockers
<1>2. CASE /\ ItemState(m) = "committed"
           /\ locker' = [locker EXCEPT !.at = "lock"] /\ Promote(m)
  <2>1. saved = m
    BY <1>2 DEF ItemState
  <2>2. ReceiptMoves /\ faults' \in 0..MaxFaults
    <3> HIDE DEF m
    <3> QED BY <1>1, <1>2, <2>1, ReceiptPromotes
  <2>3. locker' \in Lockers /\ locker'.at = "lock"
    BY <1>1, <1>2 DEF Lockers
  <2> QED BY <1>1, <2>2, <2>3, LockMoves
<1>3. CASE locker' = [locker EXCEPT !.at = "lock"] /\ UNCHANGED <<receipt, faults>>
  <2>1. locker' \in Lockers /\ locker'.at = "lock"
    BY <1>1, <1>3 DEF Lockers
  <2> QED BY <1>1, <1>3, <2>1, ReceiptSame, LockMoves
<1>4. CASE locker' = [locker EXCEPT !.at = "tell"] /\ UNCHANGED <<receipt, faults>>
  <2>1. locker' \in Lockers /\ locker'.at = "tell"
    BY <1>1, <1>4 DEF Lockers
  <2> QED BY <1>1, <1>4, <2>1, ReceiptSame, LockMoves
<1> QED BY <1>2, <1>3, <1>4 DEF LockConfirms

LEMMA LockTellsKeeps ==
  ASSUME Ind, LockTells
  PROVE  Ind'
<1> USE Basics
<1>1. /\ UNCHANGED <<operation, receipt, pending, processing, committing, cancelled, cancelling, cancel,
                     accept, saved, expired, timer, dropped, attempts, locks, vault, faults>>
      /\ locks' \in 0..MaxLocks /\ faults' \in 0..MaxFaults
  BY DEF LockTells, flagVars, timeVars, boundVars, Ind, Typed
<1>2. AsideMoves
  BY <1>1, ReceiptSame, AsideFrame
<1>3. locker' \in Lockers /\ locker'.at = "lock"
  <2>1. locker \in Lockers /\ locker' = [locker EXCEPT !.at = "lock"]
    BY DEF LockTells, Ind, Typed
  <2> QED BY <2>1 DEF Lockers
<1>4. PageMoves /\ (page.dismissing => page'.dismissing)
  <2>1. CASE page' = page
    BY <2>1, PageStays
  <2>2. CASE page.ended = "open" /\ page' = [page EXCEPT !.ended = "locked"]
    <3>1. page \in Pages /\ page.given = None
      BY <2>2 DEF Ind, Typed
    <3>2. /\ page' \in Pages /\ page'.call = page.call /\ page'.ended = "locked"
          /\ page'.given = None /\ page'.dismissing = page.dismissing
      BY <2>2, <3>1 DEF Pages
    <3> QED BY <2>2, <3>2 DEF PageMoves
  <2> QED BY <2>1, <2>2 DEF LockTells, Rejected
<1> QED BY <1>1, <1>2, <1>3, <1>4, LockKeeps

LEMMA LockEndsKeeps ==
  ASSUME Ind, LockEnds
  PROVE  Ind'
<1>1. /\ UNCHANGED <<operation, page, receipt, pending, processing, committing, cancelled, cancelling,
                     cancel, accept, saved, expired, timer, dropped, attempts, locks, faults>>
      /\ faults' \in 0..MaxFaults /\ vault' = "locked"
  BY DEF LockEnds, flagVars, timeVars, boundVars, Ind, Typed
<1>2. locker' \in Lockers /\ locker'.at = "idle"
  BY DEF LockEnds, Lockers
<1> QED BY <1>1, <1>2, ReceiptSame, LockMoves

(* The accepting handler advances, and nobody else.                          *)
AcceptOnly == UNCHANGED <<operation, page, cancelling, cancel, locker, vault, expired, timer, dropped,
                          locks>>

Advances ==
  /\ accept.at # "idle"
  /\ accept' \in Accepts /\ Accepting'
  /\ processing' \in BOOLEAN /\ committing' \in BOOLEAN /\ cancelled' \in BOOLEAN
  /\ attempts' \in Made \cup {None} /\ faults' \in 0..MaxFaults
  /\ pending' \in [memory : BOOLEAN, stored : BOOLEAN]
  /\ cancelling # "none" => ~processing' /\ pending' = pending
  /\ IsPending' => IsPending

LEMMA AcceptKeeps ==
  ASSUME Ind, AcceptOnly, Advances, saved' = saved, ReceiptMoves,
         Counts /\ (accept'.reply = "result" \/ accept'.at \in {"promote", "forget"})
           => accept'.made = saved,
         Counts /\ accept'.at \in {"prepared", "commit"} /\ ~cancelled'
           => receipt'.memory.made = accept'.made /\ receipt'.stored.made = accept'.made,
         Counts /\ saved # None =>
           /\ ~cancelled'
           /\ accept'.at \in {"idle", "arrive", "receipt", "confirm", "promote", "forget", "end", "answer"}
           /\ accept'.at = "confirm" => accept'.made = saved
           /\ accept'.at \in {"end", "answer"} => accept'.reply \in {"result", "unknown"}
           /\ Fresh' \/ Careful,
         Counts /\ Over => Over'
  PROVE  Ind'
<1> USE Basics
<1>1. (Counts' <=> Counts) /\ (Careful => Careful')
  BY DEF AcceptOnly, Counts, Careful
<1>2. Typed'
  <2>1. receipt' \in [memory : Rows, stored : Rows]
    BY DEF ReceiptMoves
  <2> QED BY <2>1 DEF Ind, Typed, AcceptOnly, Advances
<1>3. Accepting'
  BY DEF Advances
<1>4. Cancelling'
  BY DEF Ind, Cancelling, AcceptOnly, Advances, Judging
<1>5. Truthful'
  BY <1>1 DEF Ind, Truthful, AcceptOnly, ReceiptMoves
<1>6. Prepares'
  BY <1>1 DEF Prepares
<1>7. Recorded'
  <2> SUFFICES ASSUME Counts, saved # None PROVE Recorded'
    BY <1>1 DEF Recorded
  <2>1. receipt'.stored.made = saved' /\ receipt'.memory.made \in {saved', None}
    BY <1>1 DEF ReceiptMoves
  <2>2. cancelling' = "none"
    BY DEF Ind, Recorded, AcceptOnly
  <2>3. accept'.at \in {"promote", "forget"} => accept'.made = saved'
    OBVIOUS
  <2>4. Fresh' \/ Careful'
    BY <1>1
  <2> QED BY <2>1, <2>2, <2>3, <2>4 DEF Recorded
<1>8. Ended'
  <2> SUFFICES ASSUME Counts PROVE Ended'
    BY <1>1 DEF Ended
  <2>1. page'.ended # "failed"
    BY DEF Ind, Ended, AcceptOnly, Advances
  <2>2. (page'.ended = "dismissed" => Over') /\ (cancel'[Dismiss].reply = "cancelled" => Over')
    BY DEF Ind, Ended, AcceptOnly
  <2> QED BY <2>1, <2>2 DEF Ended
<1> QED BY <1>2, <1>3, <1>4, <1>5, <1>6, <1>7, <1>8 DEF Ind

LEMMA GoesIs ==
  ASSUME Ind, NEW at \in Working \cup Waiting, Goes(at)
  PROVE  accept' \in Accepts /\ accept'.at = at /\ accept'.made = accept.made
         /\ accept'.reply = accept.reply
<1>1. accept \in Accepts
  BY DEF Ind, Typed
<1> QED BY <1>1 DEF Goes, Accepts, Handler

LEMMA FailsIs ==
  ASSUME Ind, NEW reply \in Replies, Fails(reply)
  PROVE  accept' \in Accepts /\ accept'.at = "fail" /\ accept'.made = accept.made
         /\ accept'.reply = reply
<1>1. accept \in Accepts /\ "fail" \in Working
  BY DEF Ind, Typed, Working
<1> QED BY <1>1 DEF Fails, Accepts, Handler

(* Before it stores anything, nothing is stored.                             *)
Early == {"pending", "status", "verify", "make", "context", "prepared", "fail"}

LEMMA NothingYet ==
  ASSUME Ind, accept.at \in Early \cup {"commit"}
  PROVE  /\ Counts => saved = None /\ accept.reply # "result"
         /\ processing /\ cancelling = "none" /\ accept.at # "idle"
         /\ accept.at \in Working
BY Basics DEF Ind, Recorded, Truthful, Accepting, Cancelling, Early, Working

LEMMA EarlyKeeps ==
  ASSUME Ind, AcceptOnly, accept.at \in Early, saved' = saved, ReceiptMoves,
         accept' \in Accepts, accept'.at \in Working \ {"confirm", "promote", "forget", "receipt"},
         accept'.reply # "result" \/ (accept'.reply = accept.reply /\ accept'.made # None),
         accept'.at \in {"context", "prepared", "commit"} => accept'.made # None,
         accept'.at \in {"prepared", "commit"} =>
           accept'.made = accept.made /\ receipt'.memory.made = accept.made
             /\ receipt'.stored.made = accept.made,
         accept.at = "pending" => accept'.at = "fail" \/ IsPending,
         accept.at = "fail" => accept'.at = "end",
         UNCHANGED <<processing, cancelled>>,
         \/ committing' = committing /\ accept'.at # "commit"
            /\ (committing => accept'.at \in {"fail", "end"})
         \/ committing' = TRUE /\ accept.at = "prepared" /\ accept'.at = "commit" /\ ~cancelled,
         attempts' \in Made \cup {None}, faults' \in 0..MaxFaults,
         pending' \in [memory : BOOLEAN, stored : BOOLEAN], IsPending' => IsPending
  PROVE  Ind'
<1> USE Basics
<1>1. (Counts => saved = None /\ accept.reply # "result") /\ processing /\ cancelling = "none"
      /\ accept.at # "idle"
  BY NothingYet
<1>2. /\ processing \in BOOLEAN /\ committing \in BOOLEAN /\ cancelled \in BOOLEAN
      /\ processing' = TRUE /\ cancelled' = cancelled
  BY <1>1 DEF Ind, Typed
<1>3. Accepting'
  <2>1. page'.call = "sent"
    BY <1>1 DEF Ind, Accepting, AcceptOnly
  <2>2. accept'.at \in Working /\ accept'.at # "idle"
    BY DEF Working
  <2>3. committing' => ~cancelled' /\ accept'.at \in {"commit", "promote", "forget", "fail", "end"}
    <3>1. CASE committing' = committing /\ (committing => accept'.at \in {"fail", "end"})
      BY <1>2, <3>1 DEF Ind, Accepting
    <3>2. CASE accept'.at = "commit" /\ ~cancelled
      BY <1>2, <3>2
    <3> QED BY <3>1, <3>2
  <2>4. accept'.at \in {"commit", "promote", "forget"} => committing'
    OBVIOUS
  <2>5. accept'.reply = "result" => accept'.made # None
    OBVIOUS
  <2> QED BY <1>2, <2>1, <2>2, <2>3, <2>4, <2>5 DEF Accepting
<1>4. Advances
  <2>1. committing' \in BOOLEAN
    BY <1>2
  <2> QED BY <1>1, <1>2, <1>3, <2>1 DEF Advances
<1>5. Over => Over'
  <2> SUFFICES ASSUME Over PROVE Over'
    OBVIOUS
  <2>1. ~IsPending' /\ saved' = None /\ ~committing
    BY DEF Over
  <2>2. accept.at \in {"status", "verify", "make", "context", "prepared"} => cancelled
    BY DEF Over
  <2>3. ~committing'
    BY <2>1, <2>2
  <2>4. accept'.at \in {"status", "verify", "make", "context", "prepared"} => cancelled'
    BY <1>2, <2>2 DEF Over, Early
  <2> QED BY <2>1, <2>3, <2>4 DEF Over
<1> QED BY <1>1, <1>4, <1>5, AcceptKeeps

LEMMA FailsKeeps ==
  ASSUME Ind, AcceptOnly, accept.at \in Early \ {"fail"}, NEW reply \in {"error", "cancelled"},
         Fails(reply), UNCHANGED <<receipt, processing, committing, cancelled, saved, faults>>,
         attempts' \in Made \cup {None}, pending' = pending \/ DeletePending
  PROVE  Ind'
<1>1. /\ accept' \in Accepts /\ accept'.at = "fail" /\ accept'.reply # "result"
  BY FailsIs DEF Replies
<1>2. ReceiptMoves /\ faults' \in 0..MaxFaults
  BY ReceiptSame DEF AcceptOnly, Ind, Typed
<1>3. "fail" \in Working \ {"confirm", "promote", "forget", "receipt"}
  BY DEF Working
<1>4. pending' \in [memory : BOOLEAN, stored : BOOLEAN] /\ (IsPending' => IsPending)
  <2>1. CASE pending' = pending
    BY <2>1 DEF Ind, Typed, IsPending, AcceptOnly
  <2>2. CASE pending' = [memory |-> FALSE, stored |-> FALSE]
    BY <2>2 DEF IsPending
  <2> QED BY <2>1, <2>2 DEF DeletePending
<1> QED BY <1>1, <1>2, <1>3, <1>4, EarlyKeeps

LEMMA GoesKeeps ==
  ASSUME Ind, AcceptOnly, accept.at \in Early \ {"fail"}, NEW at \in {"status", "verify", "make"},
         Goes(at), UNCHANGED <<receipt, processing, committing, cancelled, saved, attempts, faults>>,
         pending' \in [memory : BOOLEAN, stored : BOOLEAN], IsPending' => IsPending,
         accept.at = "pending" => IsPending
  PROVE  Ind'
<1>1. at \in Working \ {"confirm", "promote", "forget", "receipt"} /\ at \in Working \cup Waiting
  BY DEF Working
<1>2. /\ accept' \in Accepts /\ accept'.at = at /\ accept'.made = accept.made
      /\ accept'.reply = accept.reply
  BY <1>1, GoesIs
<1>3. ReceiptMoves /\ faults' \in 0..MaxFaults /\ attempts' \in Made \cup {None}
  BY ReceiptSame DEF AcceptOnly, Ind, Typed
<1>4. accept.reply = "result" => accept.made # None
  BY DEF Ind, Accepting
<1>5. ~committing
  BY DEF Ind, Accepting, Early
<1> QED BY <1>1, <1>2, <1>3, <1>4, <1>5, EarlyKeeps

LEMMA LoadPendingKeeps ==
  ASSUME Ind, LoadPending
  PROVE  Ind'
<1>1. /\ AcceptOnly /\ accept.at \in Early \ {"fail"} /\ accept.at = "pending"
      /\ UNCHANGED <<receipt, processing, committing, cancelled, saved, attempts, faults>>
      /\ attempts' \in Made \cup {None}
  BY DEF LoadPending, AcceptOnly, Early, flagVars, timeVars, boundVars, Ind, Typed
<1>2. CASE IsPending /\ Goes("status") /\ pending' = [pending EXCEPT !.memory = TRUE]
  <2>1. pending' \in [memory : BOOLEAN, stored : BOOLEAN]
    BY <1>2 DEF Ind, Typed
  <2> QED BY <1>1, <1>2, <2>1, GoesKeeps
<1> QED BY <1>1, <1>2, FailsKeeps DEF LoadPending

LEMMA CheckVaultKeeps ==
  ASSUME Ind, CheckVault
  PROVE  Ind'
<1>1. /\ AcceptOnly /\ accept.at \in Early \ {"fail"} /\ accept.at # "pending"
      /\ UNCHANGED <<pending, receipt, processing, committing, cancelled, saved, attempts, faults>>
      /\ attempts' \in Made \cup {None}
  BY DEF CheckVault, AcceptOnly, Early, flagVars, timeVars, boundVars, Ind, Typed
<1>2. pending' \in [memory : BOOLEAN, stored : BOOLEAN] /\ (IsPending' => IsPending)
  BY <1>1 DEF Ind, Typed, AcceptOnly, IsPending
<1> QED BY <1>1, <1>2, FailsKeeps, GoesKeeps DEF CheckVault

LEMMA VerifyUserKeeps ==
  ASSUME Ind, VerifyUser
  PROVE  Ind'
<1>1. /\ AcceptOnly /\ accept.at \in Early \ {"fail"} /\ accept.at # "pending"
      /\ UNCHANGED <<pending, receipt, processing, committing, cancelled, saved, attempts, faults>>
      /\ attempts' \in Made \cup {None}
  BY DEF VerifyUser, AcceptOnly, Early, flagVars, timeVars, boundVars, Ind, Typed
<1>2. pending' \in [memory : BOOLEAN, stored : BOOLEAN] /\ (IsPending' => IsPending)
  BY <1>1 DEF Ind, Typed, AcceptOnly, IsPending
<1> QED BY <1>1, <1>2, FailsKeeps, GoesKeeps DEF VerifyUser

LEMMA MakeKeeps ==
  ASSUME Ind, Make
  PROVE  Ind'
<1> USE Basics
<1>1. /\ AcceptOnly /\ accept.at \in Early \ {"fail"} /\ accept.at = "make"
      /\ UNCHANGED <<pending, receipt, processing, committing, cancelled, saved, faults>>
      /\ pending \in [memory : BOOLEAN, stored : BOOLEAN]
  BY DEF Make, AcceptOnly, Early, flagVars, timeVars, Ind, Typed
<1>2. attempts + 1 \in Made /\ attempts' = attempts + 1
  <2>1. /\ attempts = 0 \/ attempts \in 1..MaxAttempts
        /\ attempts < MaxAttempts /\ attempts' = attempts + 1
    BY DEF Make, Ind, Typed, Made, None
  <2> QED BY <2>1, BoundsAssumption DEF Made
<1>3. CASE Fails("cancelled")
  BY <1>1, <1>2, <1>3, FailsKeeps
<1>4. CASE accept' = [accept EXCEPT !.at = "context", !.made = attempts + 1]
  <2> DEFINE m == attempts + 1
  <2>1. accept \in Accepts /\ accept' = [accept EXCEPT !.at = "context", !.made = m] /\ m \in Made
    BY <1>2, <1>4 DEF Ind, Typed
  <2> HIDE DEF m
  <2>2. /\ accept' \in Accepts /\ accept'.at = "context" /\ accept'.made = m
        /\ accept'.reply = accept.reply
    BY <2>1 DEF Accepts, Handler, Working
  <2>3. "context" \in Working \ {"confirm", "promote", "forget", "receipt"}
    BY DEF Working
  <2>4. ReceiptMoves /\ faults' \in 0..MaxFaults /\ (IsPending' => IsPending) /\ ~committing
    BY <1>1, ReceiptSame DEF AcceptOnly, Ind, Typed, IsPending, Accepting
  <2>5. attempts' \in Made \cup {None} /\ accept'.made # None
    BY <1>2, <2>1, <2>2
  <2> QED BY <1>1, <2>2, <2>3, <2>4, <2>5, EarlyKeeps
<1> QED BY <1>3, <1>4 DEF Make

LEMMA PrepareKeeps ==
  ASSUME Ind, Prepare
  PROVE  Ind'
<1> USE Basics
<1> DEFINE m == accept.made
           row == [made |-> m, status |-> "prepared"]
<1>1. /\ AcceptOnly /\ accept.at \in Early \ {"fail"} /\ accept.at = "context"
      /\ UNCHANGED <<pending, processing, committing, cancelled, saved, attempts, faults>>
      /\ attempts' \in Made \cup {None} /\ faults' \in 0..MaxFaults
      /\ pending \in [memory : BOOLEAN, stored : BOOLEAN] /\ (IsPending' => IsPending)
  BY DEF Prepare, AcceptOnly, Early, flagVars, timeVars, boundVars, Ind, Typed, IsPending
<1>2. CASE Fails("error") /\ UNCHANGED receipt
  BY <1>1, <1>2, FailsKeeps
<1>3. CASE Goes("prepared") /\ receipt' = [memory |-> row, stored |-> row]
  <2>1. m \in Made
    BY <1>1 DEF Ind, Typed, Accepts, Handler, Accepting
  <2>2. row \in Rows /\ row.made = m /\ row.status = "prepared"
    BY <2>1 DEF Rows
  <2>3. /\ accept' \in Accepts /\ accept'.at = "prepared" /\ accept'.made = m
        /\ accept'.reply = accept.reply
    BY <1>3, GoesIs DEF Working
  <2> HIDE DEF row, m
  <2>4. receipt' \in [memory : Rows, stored : Rows] /\ receipt'.memory = row /\ receipt'.stored = row
    BY <1>3, <2>2
  <2>5. Counts' => saved = None
    BY <1>1, NothingYet DEF Counts, AcceptOnly
  <2>6. ReceiptMoves
    BY <1>1, <2>2, <2>4, <2>5 DEF ReceiptMoves
  <2>7. "prepared" \in Working \ {"confirm", "promote", "forget", "receipt"} /\ ~committing
    BY <1>1 DEF Working, Ind, Accepting
  <2>8. m = accept.made /\ accept'.made # None
    BY <2>1, <2>3 DEF m
  <2> QED BY <1>1, <2>2, <2>3, <2>4, <2>6, <2>7, <2>8, EarlyKeeps
<1> QED BY <1>2, <1>3 DEF Prepare

LEMMA StartCommitKeeps ==
  ASSUME Ind, StartCommit
  PROVE  Ind'
<1> USE Basics
<1>1. /\ AcceptOnly /\ accept.at \in Early \ {"fail"} /\ accept.at = "prepared"
      /\ UNCHANGED <<pending, receipt, processing, cancelled, saved, attempts, faults>>
      /\ attempts' \in Made \cup {None} /\ faults' \in 0..MaxFaults
      /\ pending \in [memory : BOOLEAN, stored : BOOLEAN] /\ (IsPending' => IsPending)
  BY DEF StartCommit, AcceptOnly, Early, timeVars, boundVars, Ind, Typed, IsPending
<1>2. CASE Fails("cancelled") /\ UNCHANGED committing
  BY <1>1, <1>2, FailsKeeps
<1>3. CASE ~cancelled /\ Goes("commit") /\ committing' = TRUE
  <2>1. /\ accept' \in Accepts /\ accept'.at = "commit" /\ accept'.made = accept.made
        /\ accept'.reply = accept.reply
    BY <1>3, GoesIs DEF Working
  <2>2. accept.made # None
    BY <1>1 DEF Ind, Accepting
  <2>3. "commit" \in Working \ {"confirm", "promote", "forget", "receipt"}
    BY DEF Working
  <2>4. ReceiptMoves
    BY <1>1, ReceiptSame DEF AcceptOnly
  <2>5. Advances
    <3>1. Accepting'
      BY <1>1, <1>3, <2>1, <2>2 DEF Ind, Accepting, AcceptOnly, Working
    <3>2. processing' \in BOOLEAN /\ committing' \in BOOLEAN /\ cancelled' \in BOOLEAN
      BY <1>1, <1>3 DEF Ind, Typed
    <3> QED BY <1>1, <2>1, <3>1, <3>2, NothingYet DEF Advances
  <2>6. Counts => /\ receipt'.memory.made = accept'.made /\ receipt'.stored.made = accept'.made
                  /\ saved = None /\ accept'.reply # "result"
    BY <1>1, <1>3, <2>1, NothingYet DEF Ind, Prepares
  <2>7. ~Over
    BY <1>1, <1>3 DEF Over
  <2> QED BY <1>1, <2>1, <2>4, <2>5, <2>6, <2>7, AcceptKeeps
<1> QED BY <1>2, <1>3 DEF StartCommit, MustStop

LEMMA CleanUpKeeps ==
  ASSUME Ind, CleanUp
  PROVE  Ind'
<1> USE Basics
<1>1. /\ AcceptOnly /\ accept.at \in Early /\ accept.at = "fail"
      /\ UNCHANGED <<pending, processing, committing, cancelled, saved, attempts, faults>>
      /\ attempts' \in Made \cup {None} /\ faults' \in 0..MaxFaults
      /\ pending \in [memory : BOOLEAN, stored : BOOLEAN] /\ (IsPending' => IsPending)
  BY DEF CleanUp, AcceptOnly, Early, flagVars, timeVars, boundVars, Ind, Typed, IsPending
<1>2. /\ accept' \in Accepts /\ accept'.at = "end" /\ accept'.made = accept.made
      /\ accept'.reply = accept.reply
  BY GoesIs DEF CleanUp, Working
<1>3. ReceiptMoves
  <2>1. CASE DeleteReceipt
    BY <1>1, <2>1, NothingYet, ReceiptGoes DEF AcceptOnly, Counts
  <2>2. CASE receipt' = receipt
    BY <1>1, <2>2, ReceiptSame DEF AcceptOnly
  <2> QED BY <2>1, <2>2 DEF CleanUp
<1>4. "end" \in Working \ {"confirm", "promote", "forget", "receipt"}
  BY DEF Working
<1>5. accept.reply = "result" => accept.made # None
  BY DEF Ind, Accepting
<1> QED BY <1>1, <1>2, <1>3, <1>4, <1>5, EarlyKeeps

LEMMA ArriveKeeps ==
  ASSUME Ind, Arrive
  PROVE  Ind'
<1> USE Basics
<1>1. /\ AcceptOnly /\ accept.at = "arrive"
      /\ UNCHANGED <<pending, receipt, committing, cancelled, saved, attempts, faults>>
      /\ attempts' \in Made \cup {None} /\ faults' \in 0..MaxFaults
      /\ pending \in [memory : BOOLEAN, stored : BOOLEAN] /\ (IsPending' => IsPending)
      /\ committing \in BOOLEAN /\ cancelled \in BOOLEAN
      /\ cancelling \in {"none"} \cup Cancellers
  BY DEF Arrive, AcceptOnly, timeVars, boundVars, Ind, Typed, IsPending
<1>2. ~processing /\ ~committing /\ ~cancelled /\ page.call = "sent"
  BY <1>1 DEF Ind, Accepting, Working
<1>3. Counts /\ saved # None => Careful /\ cancelling = "none"
  BY <1>1, <1>2 DEF Ind, Recorded, Fresh
<1>4. ReceiptMoves
  BY <1>1, ReceiptSame DEF AcceptOnly
<1>5. CASE /\ cancelling # "none" /\ UNCHANGED processing
           /\ accept' = [accept EXCEPT !.at = "answer", !.reply = "cancelled"]
  <2>1. accept' \in Accepts /\ accept'.at = "answer" /\ accept'.reply = "cancelled"
    BY <1>5 DEF Ind, Typed, Accepts, Handler, Waiting, Replies
  <2>2. Accepting' /\ ~processing'
    BY <1>1, <1>2, <1>5, <2>1 DEF Accepting, AcceptOnly, Working
  <2>3. Advances
    BY <1>1, <1>2, <1>5, <2>1, <2>2 DEF Advances, Ind, Typed
  <2>4. Over => Over'
    BY <1>1, <2>1 DEF Over
  <2> QED BY <1>1, <1>3, <1>4, <1>5, <2>1, <2>3, <2>4, AcceptKeeps
<1>6. CASE cancelling = "none" /\ Goes("receipt") /\ processing' = TRUE
  <2>1. /\ accept' \in Accepts /\ accept'.at = "receipt" /\ accept'.made = accept.made
        /\ accept'.reply = accept.reply
    BY <1>6, GoesIs DEF Working
  <2>2. Accepting'
    BY <1>1, <1>2, <1>6, <2>1 DEF Ind, Accepting, AcceptOnly, Working
  <2>3. Advances
    BY <1>1, <1>2, <1>6, <2>1, <2>2 DEF Advances
  <2>4. Over => Over'
    BY <1>1, <2>1 DEF Over
  <2>5. Counts /\ accept'.reply = "result" => accept'.made = saved
    BY <2>1 DEF Ind, Truthful
  <2> QED BY <1>1, <1>2, <1>3, <1>4, <2>1, <2>3, <2>4, <2>5, AcceptKeeps
<1> QED BY <1>5, <1>6 DEF Arrive

(* What an earlier attempt left is adopted, or cleared. *)
LEMMA Reading ==
  ASSUME Ind, accept.at \in {"receipt", "confirm"}
  PROVE  /\ processing /\ ~committing /\ cancelling = "none" /\ page.call = "sent"
         /\ accept.at \notin {"prepared", "commit"} /\ accept.at # "idle"
         /\ Counts /\ saved # None => Careful /\ ~cancelled
BY DEF Ind, Accepting, Cancelling, Recorded, Fresh, Working

LEMMA AdoptKeeps ==
  ASSUME Ind, AcceptOnly, accept.at \in {"receipt", "confirm"}, NEW m \in Made, Adopt(m),
         Counts => saved = m, UNCHANGED <<processing, committing, cancelled, saved, attempts>>
  PROVE  Ind'
<1> USE Basics
<1>1. /\ processing /\ ~committing /\ cancelling = "none" /\ page.call = "sent"
      /\ accept.at \notin {"prepared", "commit"} /\ accept.at # "idle"
      /\ Counts /\ saved # None => Careful /\ ~cancelled
  BY Reading
<1>2. ReceiptMoves /\ faults' \in 0..MaxFaults
  BY ReceiptPromotes DEF Adopt, AcceptOnly, Counts
<1>3. accept' \in Accepts /\ accept'.at = "end" /\ accept'.made = m /\ accept'.reply = "result"
  BY DEF Adopt, Accepts, Handler, Working, Replies
<1>4. pending' \in [memory : BOOLEAN, stored : BOOLEAN] /\ ~IsPending'
  BY DEF Adopt, DeletePending, IsPending
<1>5. Accepting'
  BY <1>1, <1>3 DEF Ind, Accepting, AcceptOnly, Working
<1>6. Advances
  BY <1>1, <1>2, <1>3, <1>4, <1>5 DEF Advances, Ind, Typed
<1>7. Counts => ~Over
  BY DEF Over
<1>8. Counts /\ saved # None => ~cancelled'
  BY <1>1
<1> QED BY <1>1, <1>2, <1>3, <1>6, <1>7, <1>8, AcceptKeeps

LEMMA AgainKeeps ==
  ASSUME Ind, AcceptOnly, accept.at \in {"receipt", "confirm"}, Again,
         Counts => saved = None, UNCHANGED <<processing, committing, cancelled, saved, attempts>>
  PROVE  Ind'
<1> USE Basics
<1>1. /\ processing /\ ~committing /\ cancelling = "none" /\ page.call = "sent"
      /\ accept.at \notin {"prepared", "commit"} /\ accept.at # "idle"
  BY Reading
<1>2. ReceiptMoves /\ faults' \in 0..MaxFaults
  BY <1>1, ReceiptGoes DEF Again, AcceptOnly, Counts, Ind, Typed
<1>3. accept' \in Accepts /\ accept'.at = "pending" /\ accept'.made = None /\ accept'.reply = "none"
  BY DEF Again, Accepts, Handler, Working, Replies, Idle
<1>4. pending' \in [memory : BOOLEAN, stored : BOOLEAN] /\ (IsPending' => IsPending)
  BY DEF Again, IsPending, AcceptOnly, Ind, Typed
<1>5. Accepting'
  BY <1>1, <1>3 DEF Ind, Accepting, AcceptOnly, Working
<1>6. Advances
  BY <1>1, <1>2, <1>3, <1>4, <1>5 DEF Advances, Ind, Typed
<1>7. Over => Over'
  BY <1>3, <1>4 DEF Over
<1> QED BY <1>1, <1>2, <1>3, <1>6, <1>7, AcceptKeeps

LEMMA FindReceiptKeeps ==
  ASSUME Ind, FindReceipt
  PROVE  Ind'
<1> USE Basics
<1>1. /\ AcceptOnly /\ accept.at = "receipt"
      /\ UNCHANGED <<processing, committing, cancelled, saved, attempts>>
      /\ attempts' \in Made \cup {None} /\ faults \in 0..MaxFaults
      /\ pending \in [memory : BOOLEAN, stored : BOOLEAN]
  BY DEF FindReceipt, AcceptOnly, flagVars, timeVars, Ind, Typed
<1>2. /\ processing /\ ~committing /\ cancelling = "none" /\ page.call = "sent"
      /\ accept.at \notin {"prepared", "commit"} /\ accept.at # "idle"
      /\ Counts /\ saved # None => Careful /\ ~cancelled
  BY <1>1, Reading
<1>3. Counts /\ accept.reply = "result" => accept.made = saved /\ saved # None
  BY DEF Ind, Truthful, Accepting
<1>4. CASE Load = NoRow /\ Goes("pending") /\ UNCHANGED <<pending, receipt, faults>>
  <2>1. Counts => saved = None
    BY <1>4, LoadIs
  <2>2. /\ accept' \in Accepts /\ accept'.at = "pending" /\ accept'.made = accept.made
        /\ accept'.reply = accept.reply
    BY <1>4, GoesIs DEF Working
  <2>3. ReceiptMoves
    BY <1>1, <1>4, ReceiptSame DEF AcceptOnly
  <2>4. Accepting'
    BY <1>1, <1>2, <2>2 DEF Ind, Accepting, AcceptOnly, Working
  <2>5. (IsPending' => IsPending) /\ (Over => Over')
    BY <1>1, <1>4, <2>2 DEF IsPending, Over, AcceptOnly
  <2>6. Advances
    BY <1>1, <1>2, <1>4, <2>2, <2>4, <2>5 DEF Advances, Ind, Typed
  <2> QED BY <1>1, <1>3, <2>1, <2>2, <2>3, <2>5, <2>6, AcceptKeeps
<1>5. CASE Load # NoRow /\ StateOf(Load) = "committed" /\ Adopt(Load.made)
  <2> DEFINE m == Load.made
  <2>1. m \in Made /\ (Counts => saved = m) /\ Adopt(m)
    BY <1>5, LoadIs
  <2> HIDE DEF m
  <2> QED BY <1>1, <2>1, AdoptKeeps
<1>6. CASE Load # NoRow /\ StateOf(Load) = "not-committed" /\ Again
  <2>1. ~Counts
    BY <1>6, LoadIs
  <2> QED BY <1>1, <1>6, <2>1, AgainKeeps
<1>7. CASE /\ Load # NoRow /\ Loaded /\ accept' = [accept EXCEPT !.at = "confirm", !.made = Load.made]
           /\ UNCHANGED <<pending, faults>>
  <2> DEFINE m == Load.made
  <2>1. m \in Made /\ (Counts /\ saved # None => saved = m)
    BY <1>7, LoadIs
  <2>2. /\ accept' \in Accepts /\ accept'.at = "confirm" /\ accept'.made = m
        /\ accept'.reply = accept.reply
    <3>1. accept \in Accepts /\ accept' = [accept EXCEPT !.at = "confirm", !.made = m]
      BY <1>7 DEF Ind, Typed
    <3> HIDE DEF m
    <3> QED BY <2>1, <3>1 DEF Accepts, Handler, Working
  <2> HIDE DEF m
  <2>3. ReceiptMoves
    BY <1>1, <1>7, ReceiptLoads DEF AcceptOnly, Counts
  <2>4. Accepting'
    BY <1>1, <1>2, <2>1, <2>2 DEF Ind, Accepting, AcceptOnly, Working
  <2>5. (IsPending' => IsPending) /\ (Over => Over')
    BY <1>1, <1>7, <2>2 DEF IsPending, Over, AcceptOnly
  <2>6. Advances
    BY <1>1, <1>2, <1>7, <2>2, <2>4, <2>5 DEF Advances, Ind, Typed
  <2>7. Counts /\ saved # None => ~cancelled' /\ accept'.made = saved
    BY <1>1, <1>2, <2>1, <2>2
  <2>8. Counts /\ accept'.reply = "result" => accept'.made = saved
    BY <1>3, <2>1, <2>2
  <2> QED BY <1>1, <1>2, <2>2, <2>3, <2>5, <2>6, <2>7, <2>8, AcceptKeeps
<1> QED BY <1>4, <1>5, <1>6, <1>7 DEF FindReceipt

LEMMA ConfirmReceiptKeeps ==
  ASSUME Ind, ConfirmReceipt
  PROVE  Ind'
<1> USE Basics
<1> DEFINE m == accept.made
<1>1. /\ AcceptOnly /\ accept.at = "confirm" /\ accept \in Accepts
      /\ UNCHANGED <<processing, committing, cancelled, saved, attempts>>
      /\ attempts' \in Made \cup {None} /\ faults \in 0..MaxFaults
      /\ pending \in [memory : BOOLEAN, stored : BOOLEAN]
  BY DEF ConfirmReceipt, AcceptOnly, flagVars, timeVars, Ind, Typed
<1>2. /\ processing /\ ~committing /\ cancelling = "none" /\ page.call = "sent"
      /\ accept.at \notin {"prepared", "commit"} /\ accept.at # "idle"
      /\ Counts /\ saved # None => Careful /\ ~cancelled /\ m = saved
  BY <1>1, Reading DEF Ind, Recorded
<1>3. m \in Made
  BY <1>1 DEF Ind, Accepting, Accepts, Handler
<1>4. CASE ItemState(m) = "committed" /\ Adopt(m)
  <2>1. saved = m
    BY <1>4 DEF ItemState
  <2> HIDE DEF m
  <2> QED BY <1>1, <1>3, <1>4, <2>1, AdoptKeeps
<1>5. CASE ItemState(m) = "not-committed" /\ Again
  <2>1. Counts => saved = None
    BY <1>2, <1>5 DEF ItemState
  <2> QED BY <1>1, <1>5, <2>1, AgainKeeps
<1>6. CASE /\ accept' = [accept EXCEPT !.at = "end", !.reply = "unknown"]
           /\ UNCHANGED <<pending, receipt, faults>>
  <2>1. accept' \in Accepts /\ accept'.at = "end" /\ accept'.reply = "unknown"
    BY <1>1, <1>6 DEF Accepts, Handler, Working, Replies
  <2>2. ReceiptMoves
    BY <1>1, <1>6, ReceiptSame DEF AcceptOnly
  <2>3. Accepting'
    BY <1>1, <1>2, <2>1 DEF Ind, Accepting, AcceptOnly, Working
  <2>4. (IsPending' => IsPending) /\ (Over => Over')
    BY <1>1, <1>6, <2>1 DEF IsPending, Over, AcceptOnly
  <2>5. Advances
    BY <1>1, <1>2, <1>6, <2>1, <2>3, <2>4 DEF Advances, Ind, Typed
  <2> QED BY <1>1, <1>2, <2>1, <2>2, <2>4, <2>5, AcceptKeeps
<1> QED BY <1>4, <1>5, <1>6 DEF ConfirmReceipt

(* The credential is stored: it is recorded already.                         *)
LEMMA CommitKeeps ==
  ASSUME Ind, Commit
  PROVE  Ind'
<1> USE Basics
<1> DEFINE m == accept.made
<1>1. /\ AcceptOnly /\ accept.at = "commit" /\ accept \in Accepts
      /\ UNCHANGED <<pending, receipt, processing, committing, cancelled, attempts, faults>>
      /\ attempts' \in Made \cup {None} /\ faults' \in 0..MaxFaults
      /\ pending' \in [memory : BOOLEAN, stored : BOOLEAN] /\ (IsPending' => IsPending)
      /\ receipt \in [memory : Rows, stored : Rows]
      /\ (Counts' <=> Counts)
  BY DEF Commit, AcceptOnly, flagVars, timeVars, boundVars, Ind, Typed, IsPending, Counts
<1>2. /\ (Counts => saved = None /\ accept.reply # "result") /\ processing /\ cancelling = "none"
      /\ accept.at # "idle"
  BY <1>1, NothingYet
<1>3. committing /\ ~cancelled /\ m \in Made
  BY <1>1 DEF Ind, Accepting, Accepts, Handler
<1>4. page.call = "sent" /\ (processing' <=> processing) /\ (committing' <=> committing)
      /\ (cancelled' <=> cancelled)
  BY <1>1 DEF Ind, Accepting
<1>5. Counts => receipt.memory.made = m /\ receipt.stored.made = m
  BY <1>1, <1>3 DEF Ind, Prepares
<1>6. ASSUME accept' \in Accepts, accept'.at \in {"fail", "promote"}, accept'.made = m,
             accept'.reply # "result" \/ accept'.reply = accept.reply
      PROVE  Accepting' /\ Advances
  <2>1. Accepting'
    BY <1>2, <1>3, <1>4, <1>6 DEF Ind, Accepting, AcceptOnly, Working, Commit
  <2> QED BY <1>1, <1>2, <1>4, <1>6, <2>1 DEF Advances, Ind, Typed
<1>7. CASE saved' = saved /\ Fails("error")
  <2>1. /\ accept' \in Accepts /\ accept'.at = "fail" /\ accept'.made = m
        /\ accept'.reply = "error"
    BY <1>7, FailsIs DEF Replies
  <2>2. Advances
    BY <1>6, <2>1
  <2>3. ReceiptMoves
    BY <1>1, <1>7, ReceiptSame DEF AcceptOnly
  <2>4. Over => Over'
    BY <1>3 DEF Over
  <2> QED BY <1>1, <1>2, <1>7, <2>1, <2>2, <2>3, <2>4, AcceptKeeps
<1>8. CASE /\ saved' = m
           /\ (operation = "get" /\ Fails("cancelled")) \/ Goes("promote")
  <2>1. /\ accept' \in Accepts /\ accept'.at \in {"fail", "promote"} /\ accept'.made = m
        /\ accept'.reply # "result" \/ accept'.reply = accept.reply
        /\ Counts => accept'.at = "promote" /\ accept'.reply = accept.reply
    <3>1. CASE operation = "get" /\ Fails("cancelled")
      BY <3>1, FailsIs DEF Replies, Counts
    <3>2. CASE Goes("promote")
      BY <3>2, GoesIs DEF Working
    <3> QED BY <1>8, <3>1, <3>2
  <2>2. Accepting' /\ Advances
    BY <1>6, <2>1
  <2>3. Typed'
    BY <1>1, <1>3, <1>8, <2>2 DEF Ind, Typed, AcceptOnly, Advances
  <2>4. Cancelling'
    BY <1>1, <1>2 DEF Ind, Cancelling, AcceptOnly, Judging
  <2> HIDE DEF m
  <2>5. ASSUME Counts
        PROVE  /\ receipt'.memory.status # "committed" /\ receipt'.stored.status # "committed"
               /\ cancel'[Dismiss].reply \notin {"result", "cancelled"}
               /\ page'.ended \notin {"result", "dismissed", "failed"}
    <3>1. saved = None /\ ~Over /\ accept.at # "idle"
      BY <1>2, <1>3, <2>5 DEF Over
    <3>2. cancel[Dismiss].reply \notin {"result", "cancelled"}
      BY <2>5, <3>1, Handlers
    <3>3. page.ended \notin {"result", "dismissed", "failed"}
      BY <2>5, <3>1 DEF Ind, Typed, Truthful, Ended
    <3>4. receipt.memory.status # "committed" /\ receipt.stored.status # "committed"
      BY <1>1, <2>5, <3>1 DEF Ind, Truthful
    <3> QED BY <1>1, <3>2, <3>3, <3>4 DEF AcceptOnly
  <2>6. Truthful' /\ Ended'
    BY <1>1, <1>8, <2>1, <2>5 DEF Truthful, Ended
  <2>7. Prepares'
    BY <1>1, <2>1 DEF Prepares
  <2>8. Recorded'
    <3> SUFFICES ASSUME Counts PROVE Recorded'
      BY <1>1 DEF Recorded
    <3>1. accept'.at = "promote" /\ accept'.made = saved' /\ committing' /\ ~cancelled'
          /\ cancelling' = "none"
      BY <1>1, <1>2, <1>3, <1>4, <1>8, <2>1 DEF AcceptOnly
    <3>2. receipt'.stored.made = saved' /\ receipt'.memory.made = saved'
      BY <1>1, <1>5, <1>8
    <3>3. Fresh'
      BY <3>1 DEF Fresh
    <3> QED BY <3>1, <3>2, <3>3 DEF Recorded
  <2> QED BY <2>2, <2>3, <2>4, <2>6, <2>7, <2>8 DEF Ind
<1> QED BY <1>7, <1>8 DEF Commit

LEMMA PromoteReceiptKeeps ==
  ASSUME Ind, PromoteReceipt
  PROVE  Ind'
<1> USE Basics
<1> DEFINE m == accept.made
<1>1. /\ AcceptOnly /\ accept.at = "promote" /\ accept \in Accepts
      /\ UNCHANGED <<pending, processing, committing, cancelled, saved, attempts>>
      /\ attempts' \in Made \cup {None}
      /\ pending' \in [memory : BOOLEAN, stored : BOOLEAN] /\ (IsPending' => IsPending)
  BY DEF PromoteReceipt, AcceptOnly, flagVars, timeVars, Ind, Typed, IsPending
<1>2. /\ processing /\ committing /\ ~cancelled /\ m \in Made /\ page.call = "sent"
      /\ cancelling = "none"
  BY <1>1 DEF Ind, Accepting, Cancelling, Accepts, Handler, Working
<1>3. (Counts => saved = m) /\ Promote(m)
  BY <1>1 DEF Ind, Truthful, PromoteReceipt
<1>4. /\ accept' \in Accepts /\ accept'.at = "forget" /\ accept'.made = m
      /\ accept'.reply = accept.reply
  BY GoesIs DEF PromoteReceipt, Working
<1> HIDE DEF m
<1>5. ReceiptMoves /\ faults' \in 0..MaxFaults
  BY <1>1, <1>2, <1>3, ReceiptPromotes DEF AcceptOnly, Counts
<1>6. receipt'.memory.status = "committed"
  <2> DEFINE row == [made |-> m, status |-> "committed"]
  <2>1. receipt \in [memory : Rows, stored : Rows]
    BY DEF Ind, Typed
  <2>2. receipt' = [memory |-> row, stored |-> row] \/ receipt' = [receipt EXCEPT !.memory = row]
    BY <1>3 DEF Promote
  <2>3. row.status = "committed"
    OBVIOUS
  <2> HIDE DEF row
  <2> QED BY <2>1, <2>2, <2>3
<1>7. (processing' <=> processing) /\ (committing' <=> committing) /\ (cancelled' <=> cancelled)
  BY <1>1
<1>8. Accepting'
  BY <1>1, <1>2, <1>4, <1>7 DEF Ind, Accepting, AcceptOnly, Working
<1>9. Advances
  BY <1>1, <1>2, <1>4, <1>5, <1>8 DEF Advances, Ind, Typed
<1>10. Fresh' /\ ~Over
  BY <1>2, <1>4, <1>6, <1>7 DEF Fresh, Over
<1> QED BY <1>1, <1>2, <1>3, <1>4, <1>5, <1>7, <1>9, <1>10, AcceptKeeps

LEMMA ForgetPendingKeeps ==
  ASSUME Ind, ForgetPending
  PROVE  Ind'
<1> USE Basics
<1>1. /\ AcceptOnly /\ accept.at = "forget" /\ accept \in Accepts
      /\ UNCHANGED <<receipt, processing, committing, cancelled, saved, attempts, faults>>
      /\ attempts' \in Made \cup {None} /\ faults' \in 0..MaxFaults
  BY DEF ForgetPending, AcceptOnly, flagVars, timeVars, boundVars, Ind, Typed
<1>2. pending' \in [memory : BOOLEAN, stored : BOOLEAN] /\ ~IsPending'
  BY DEF ForgetPending, DeletePending, IsPending
<1>3. /\ processing /\ committing /\ ~cancelled /\ accept.made # None /\ page.call = "sent"
      /\ cancelling = "none" /\ (Counts => accept.made = saved)
      /\ Counts /\ saved # None => Fresh \/ Careful
  BY <1>1 DEF Ind, Accepting, Cancelling, Working, Truthful, Recorded
<1>4. /\ accept' \in Accepts /\ accept'.at = "end" /\ accept'.made = accept.made
      /\ accept'.reply = "result"
  BY <1>1 DEF ForgetPending, Accepts, Handler, Working, Replies
<1>5. ReceiptMoves
  BY <1>1, ReceiptSame DEF AcceptOnly
<1>6. (processing' <=> processing) /\ (committing' <=> committing) /\ (cancelled' <=> cancelled)
  BY <1>1
<1>7. Accepting'
  BY <1>1, <1>3, <1>4, <1>6 DEF Ind, Accepting, AcceptOnly, Working
<1>8. Advances
  BY <1>1, <1>2, <1>3, <1>4, <1>7 DEF Advances, Ind, Typed
<1>9. (Fresh => Fresh') /\ ~Over
  BY <1>1, <1>3, <1>4 DEF Fresh, Over
<1> QED BY <1>1, <1>3, <1>4, <1>5, <1>6, <1>8, <1>9, AcceptKeeps

LEMMA EndKeeps ==
  ASSUME Ind, End
  PROVE  Ind'
<1> USE Basics
<1>1. /\ AcceptOnly /\ accept.at = "end" /\ accept \in Accepts
      /\ UNCHANGED <<receipt, saved, attempts, faults>>
      /\ attempts' \in Made \cup {None} /\ faults' \in 0..MaxFaults
      /\ processing' = FALSE /\ committing' = FALSE /\ cancelled' = FALSE
      /\ pending' = pending \/ DeletePending
  BY DEF End, AcceptOnly, timeVars, boundVars, Ind, Typed
<1>2. /\ processing /\ page.call = "sent" /\ cancelling = "none"
      /\ accept.reply = "result" => accept.made # None
      /\ Counts /\ accept.reply = "result" => accept.made = saved
      /\ Counts /\ saved # None => accept.reply \in {"result", "unknown"} /\ (Fresh \/ Careful)
  BY <1>1 DEF Ind, Accepting, Cancelling, Working, Truthful, Recorded
<1>3. /\ accept' \in Accepts /\ accept'.at = "answer" /\ accept'.made = accept.made
      /\ accept'.reply = accept.reply
  BY GoesIs DEF End, Waiting
<1>4. pending' \in [memory : BOOLEAN, stored : BOOLEAN] /\ (IsPending' => IsPending)
  <2>1. CASE pending' = pending
    BY <1>1, <2>1 DEF Ind, Typed, IsPending, AcceptOnly
  <2>2. CASE pending' = [memory |-> FALSE, stored |-> FALSE]
    BY <2>2 DEF IsPending
  <2> QED BY <1>1, <2>1, <2>2 DEF DeletePending
<1>5. receipt' \in [memory : Rows, stored : Rows] /\ ReceiptMoves
  <2>1. Counts' <=> Counts
    BY <1>1 DEF AcceptOnly, Counts
  <2> QED BY <1>1, <2>1 DEF Ind, Typed, Truthful, Recorded, ReceiptMoves
<1>6. Accepting'
  BY <1>1, <1>2, <1>3 DEF Accepting, AcceptOnly, Working
<1>7. Advances
  BY <1>1, <1>2, <1>3, <1>4, <1>6 DEF Advances, Ind, Typed
<1>8. Fresh => Fresh'
  <2>1. Fresh => accept.reply = "result" /\ receipt.memory.status = "committed"
    BY <1>1 DEF Fresh
  <2> QED BY <1>1, <1>3, <2>1 DEF Fresh
<1>9. Over => Over'
  BY <1>1, <1>3, <1>4 DEF Over
<1> QED BY <1>1, <1>2, <1>3, <1>5, <1>7, <1>8, <1>9, AcceptKeeps

(* The page asks, or hears the answer.                                       *)
TalkOnly ==
  UNCHANGED <<operation, pending, receipt, processing, committing, cancelled, cancelling, cancel,
              locker, vault, saved, expired, timer, dropped, attempts, locks, faults>>

LEMMA TalkKeeps ==
  ASSUME Ind, TalkOnly, ~processing, page' \in Pages, page'.given # None <=> page'.ended = "result",
         page'.dismissing = page.dismissing,
         accept' = Idle \/ accept' = [Idle EXCEPT !.at = "arrive"],
         page'.call = "sent" <=> accept'.at # "idle",
         Counts => /\ page'.ended = "result" => page'.given = saved
                   /\ page'.ended = "dismissed" => page.ended = "dismissed"
                   /\ page'.ended = "failed" => saved = None /\ accept'.at = "idle"
                   /\ saved # None => Fresh' \/ Careful
  PROVE  Ind'
<1> USE Basics
<1>1. /\ accept' \in Accepts /\ accept'.at \in {"idle", "arrive"} /\ accept'.made = None
      /\ accept'.reply = "none"
  <2>1. [Idle EXCEPT !.at = "arrive"] = [at |-> "arrive", made |-> None, reply |-> "none"]
    BY DEF Idle
  <2>2. CASE accept' = [at |-> "arrive", made |-> None, reply |-> "none"]
    BY <2>2 DEF Accepts, Handler, Waiting, Replies
  <2>3. CASE accept' = Idle
    BY <2>3
  <2> QED BY <2>1, <2>2, <2>3
<1>2. (Counts' <=> Counts) /\ (Careful => Careful')
  BY DEF TalkOnly, Counts, Careful
<1>3. ~cancelled /\ ~committing
  BY DEF Ind, Accepting, Working
<1>4. Typed'
  BY <1>1 DEF Ind, Typed, TalkOnly
<1>5. Accepting'
  BY <1>1, <1>3 DEF Accepting, TalkOnly, Working
<1>6. Cancelling'
  BY DEF Ind, Cancelling, TalkOnly
<1>7. Truthful'
  BY <1>1, <1>2 DEF Ind, Truthful, TalkOnly
<1>8. Prepares'
  BY <1>1 DEF Prepares
<1>9. Recorded'
  BY <1>1, <1>2, <1>3 DEF Ind, Recorded, TalkOnly
<1>10. Ended'
  <2>1. Over => Over'
    BY <1>1 DEF Over, IsPending, TalkOnly
  <2> QED BY <1>1, <1>2, <2>1 DEF Ind, Ended, TalkOnly
<1> QED BY <1>4, <1>5, <1>6, <1>7, <1>8, <1>9, <1>10 DEF Ind

LEMMA UserAcceptsKeeps ==
  ASSUME Ind, UserAccepts
  PROVE  Ind'
<1> USE Basics
<1>1. TalkOnly /\ accept' = [Idle EXCEPT !.at = "arrive"]
  BY DEF UserAccepts, TalkOnly, flagVars, timeVars, boundVars
<1>2. page.ended = "open" /\ page.call = "none" /\ page \in Pages /\ page.given = None
  BY DEF UserAccepts, Ind, Typed
<1>3. page.asks + 1 \in 0..MaxAsks
  <2>1. page.asks \in 0..MaxAsks /\ page.asks < MaxAsks
    BY <1>2 DEF UserAccepts, Pages
  <2> QED BY <2>1, BoundsAssumption
<1>4. /\ page' \in Pages /\ page'.call = "sent" /\ page'.ended = "open" /\ page'.given = None
      /\ page'.dismissing = page.dismissing
  <2> DEFINE asks == page.asks + 1
  <2>1. page' = [page EXCEPT !.call = "sent", !.accepting = TRUE, !.asks = asks]
    BY <1>2 DEF UserAccepts
  <2>2. asks \in 0..MaxAsks
    BY <1>3
  <2> HIDE DEF asks
  <2> QED BY <1>2, <2>1, <2>2 DEF Pages
<1>5. accept.at = "idle" /\ ~processing /\ ~committing
  BY <1>2 DEF Ind, Accepting, Working
<1>6. Counts /\ saved # None => Careful
  BY <1>2, <1>5 DEF Ind, Recorded, Fresh
<1>7. accept'.at = "arrive"
  BY <1>1 DEF Idle
<1> QED BY <1>1, <1>4, <1>5, <1>6, <1>7, TalkKeeps

LEMMA AcceptAnsweredKeeps ==
  ASSUME Ind, AcceptAnswered
  PROVE  Ind'
<1> USE Basics
<1> DEFINE acc == page.accepting /\ accept.reply \notin {"error", "cancelled"}
           heard == [page EXCEPT !.call = "none", !.accepting = acc]
           m == accept.made
<1>1. TalkOnly /\ accept' = Idle /\ accept.at = "answer" /\ accept'.at = "idle"
  BY DEF AcceptAnswered, TalkOnly, flagVars, timeVars, boundVars
<1>2. page \in Pages /\ acc \in BOOLEAN /\ ~processing /\ ~committing
  BY <1>1 DEF Ind, Typed, Pages, Accepting, Working
<1>3. /\ m \in Made \cup {None} /\ (accept.reply = "result" => m # None)
      /\ Counts => /\ accept.reply = "result" => m = saved
                   /\ page.ended = "result" => page.given = saved
                   /\ page.ended # "failed"
                   /\ saved # None => /\ accept.reply \in {"result", "unknown"}
                                      /\ Fresh \/ Careful
  BY <1>1 DEF Ind, Typed, Accepts, Handler, Accepting, Truthful, Recorded, Ended
<1>4. Fresh => accept.reply = "result" /\ receipt'.memory.status = "committed"
  BY <1>1, <1>2 DEF Fresh, TalkOnly
<1>5. page'.ended # "open" /\ receipt'.memory.status = "committed" => Fresh'
  BY <1>1 DEF Fresh
<1>6. /\ heard \in Pages /\ heard.call = "none" /\ heard.ended = page.ended
      /\ heard.given = page.given /\ heard.dismissing = page.dismissing
  <2> HIDE DEF acc
  <2> QED BY <1>2 DEF Pages
<1>7. page.given # None <=> page.ended = "result"
  BY DEF Ind, Typed
<1>8. CASE page' = heard /\ (page.ended # "open" \/ accept.reply \notin {"result", "cancelled"})
  <2>1. page' \in Pages /\ page'.call = "none" /\ page'.ended = page.ended
        /\ page'.given = page.given /\ page'.dismissing = page.dismissing
    BY <1>6, <1>8
  <2> HIDE DEF acc, heard, m
  <2>2. Counts /\ saved # None => Fresh' \/ Careful
    BY <1>3, <1>4, <1>5, <1>8, <2>1
  <2> QED BY <1>1, <1>2, <1>3, <1>7, <2>1, <2>2, TalkKeeps
<1>9. CASE /\ page.ended = "open" /\ accept.reply = "result"
           /\ page' = [Resolved(m) EXCEPT !.call = "none"]
  <2> HIDE DEF acc, heard
  <2> DEFINE first == [page EXCEPT !.ended = "result", !.given = m]
  <2>1. page' = [first EXCEPT !.call = "none"]
    BY <1>9 DEF Resolved
  <2> HIDE DEF m
  <2>2. first \in Pages /\ first.ended = "result" /\ first.given = m
        /\ first.dismissing = page.dismissing
    BY <1>2, <1>3 DEF Pages
  <2> HIDE DEF first
  <2>3. /\ page' \in Pages /\ page'.call = "none" /\ page'.ended = "result" /\ page'.given = m
        /\ page'.dismissing = page.dismissing
    BY <2>1, <2>2 DEF Pages
  <2>4. Counts /\ saved # None => Fresh' \/ Careful
    BY <1>3, <1>4, <1>5, <2>3
  <2> QED BY <1>1, <1>2, <1>3, <1>9, <2>3, <2>4, TalkKeeps
<1>10. CASE /\ page.ended = "open" /\ accept.reply = "cancelled"
            /\ page' = [heard EXCEPT !.ended = "failed"]
  <2> HIDE DEF acc, heard, m
  <2>1. /\ page' \in Pages /\ page'.call = "none" /\ page'.ended = "failed"
        /\ page'.given = page.given /\ page'.dismissing = page.dismissing
    BY <1>6, <1>10 DEF Pages
  <2>2. Counts => saved = None
    BY <1>3, <1>10
  <2> QED BY <1>1, <1>2, <1>3, <1>7, <1>10, <2>1, <2>2, TalkKeeps
<1> QED BY <1>8, <1>9, <1>10 DEF AcceptAnswered

(* A worker that stops takes its memory along, and what it was about to do.  *)
LEMMA WorkerStopsKeeps ==
  ASSUME Ind, WorkerStops
  PROVE  Ind'
<1> USE Basics
<1>1. /\ UNCHANGED <<operation, page, vault, saved, expired, dropped, attempts, locks>>
      /\ processing' = FALSE /\ committing' = FALSE /\ cancelled' = FALSE /\ cancelling' = "none"
      /\ timer' = FALSE
  BY DEF WorkerStops
<1>2. faults' \in 0..MaxFaults
  <2>1. faults \in 0..MaxFaults /\ faults < MaxFaults /\ faults' = faults + 1
    BY DEF WorkerStops, Ind, Typed
  <2> QED BY <2>1, BoundsAssumption
<1>3. /\ pending' \in [memory : BOOLEAN, stored : BOOLEAN] /\ ~pending'.memory
      /\ pending'.stored = pending.stored
  <2>1. /\ pending \in [memory : BOOLEAN, stored : BOOLEAN]
        /\ pending' = [pending EXCEPT !.memory = FALSE]
    BY DEF WorkerStops, Ind, Typed
  <2> QED BY <2>1
<1>4. /\ receipt' \in [memory : Rows, stored : Rows] /\ receipt'.memory = NoRow
      /\ receipt'.stored = receipt.stored
  <2>1. /\ receipt \in [memory : Rows, stored : Rows]
        /\ receipt' = [receipt EXCEPT !.memory = NoRow]
    BY DEF WorkerStops, Ind, Typed
  <2> QED BY <2>1
<1> DEFINE arrive == [Idle EXCEPT !.at = "arrive"]
<1>5. /\ arrive \in Accepts /\ arrive \in Cancels /\ arrive.at = "arrive" /\ arrive.made = None
      /\ arrive.reply = "none"
  <2>1. arrive = [at |-> "arrive", made |-> None, reply |-> "none"]
    BY DEF Idle
  <2>2. [at |-> "arrive", made |-> None, reply |-> "none"] \in Accepts
    BY DEF Accepts, Handler, Waiting, Replies
  <2>3. [at |-> "arrive", made |-> None, reply |-> "none"] \in Cancels
    BY DEF Cancels, Handler, Asking, Replies
  <2> HIDE DEF arrive
  <2> QED BY <2>1, <2>2, <2>3
<1>6. accept' = (IF page.call = "sent" THEN arrive ELSE Idle)
  BY DEF WorkerStops
<1>7. cancel' = [w \in Cancellers |-> IF w = Dismiss /\ page.dismissing THEN arrive ELSE Idle]
  BY DEF WorkerStops
<1> HIDE DEF arrive
<1>8. /\ accept' \in Accepts /\ accept'.at \in {"idle", "arrive"} /\ accept'.made = None
      /\ accept'.reply = "none" /\ (page.call = "sent" <=> accept'.at # "idle")
  BY <1>5, <1>6
<1>9. /\ cancel' \in [Cancellers -> Cancels]
      /\ \A w \in Cancellers : /\ cancel'[w].at \in {"idle", "arrive"} /\ cancel'[w].made = None
                               /\ cancel'[w].reply = "none"
      /\ cancel'[ByItself].at = "idle"
      /\ ~page.dismissing => cancel'[Dismiss].at = "idle"
  BY <1>5, <1>7
<1>10. locker' \in Lockers /\ locker'.at = "idle"
  BY DEF WorkerStops, Lockers
<1>11. Counts' <=> Counts
  BY <1>1 DEF Counts
<1>12. Typed'
  <2>1. timer' \in BOOLEAN /\ processing' \in BOOLEAN /\ committing' \in BOOLEAN
        /\ cancelled' \in BOOLEAN
    BY <1>1
  <2> QED BY <1>1, <1>2, <1>3, <1>4, <1>8, <1>9, <1>10, <2>1 DEF Ind, Typed
<1>13. Accepting'
  BY <1>1, <1>8 DEF Accepting, Working
<1>14. Cancelling'
  BY <1>1, <1>9 DEF Cancelling, Judging
<1>15. Truthful' /\ Prepares'
  BY <1>1, <1>4, <1>8, <1>9, <1>11 DEF Ind, Truthful, Prepares
<1>16. Recorded'
  <2>1. Careful'
    BY <1>1, <1>9 DEF Careful
  <2> QED BY <1>1, <1>4, <1>8, <1>11, <2>1 DEF Ind, Recorded
<1>17. Ended'
  <2>1. Over => Over'
    BY <1>1, <1>3, <1>8 DEF Over, IsPending
  <2>2. page.ended = "failed" /\ Counts => saved = None /\ page.call # "sent"
    BY DEF Ind, Ended, Accepting
  <2> QED BY <1>1, <1>8, <1>9, <1>11, <2>1, <2>2 DEF Ind, Ended
<1> QED BY <1>12, <1>13, <1>14, <1>15, <1>16, <1>17 DEF Ind

LEMMA AcceptStepKeeps ==
  ASSUME Ind, AcceptStep
  PROVE  Ind'
BY ArriveKeeps, FindReceiptKeeps, ConfirmReceiptKeeps, LoadPendingKeeps, CheckVaultKeeps,
   VerifyUserKeeps, MakeKeeps, PrepareKeeps, StartCommitKeeps, CommitKeeps, PromoteReceiptKeeps,
   ForgetPendingKeeps, CleanUpKeeps, EndKeeps, AcceptAnsweredKeeps DEF AcceptStep

LEMMA CancelStepKeeps ==
  ASSUME Ind, CancelStep
  PROVE  Ind'
<1>1. CASE DismissArrives \/ DismissReads \/ DismissConfirms \/ DismissFinds \/ DismissAnswered
  BY <1>1, DismissArrivesKeeps, DismissReadsKeeps, DismissConfirmsKeeps, DismissFindsKeeps,
     DismissAnsweredKeeps
<1>2. ASSUME NEW w \in Cancellers,
             StartCancel(w) \/ CancelReads(w) \/ CancelConfirms(w) \/ CancelDeleted(w)
      PROVE  Ind'
  BY <1>2, StartCancelKeeps, CancelReadsKeeps, CancelConfirmsKeeps, CancelDeletedKeeps
<1> QED BY <1>1, <1>2 DEF CancelStep

LEMMA LockStepKeeps ==
  ASSUME Ind, LockStep
  PROVE  Ind'
BY LockFlagsKeeps, LockForgetsKeeps, LockChecksKeeps, LockConfirmsKeeps, LockTellsKeeps,
   LockEndsKeeps DEF LockStep

LEMMA StutterKeeps ==
  ASSUME Ind, UNCHANGED vars
  PROVE  Ind'
<1>1. /\ UNCHANGED <<operation, page, pending, receipt, processing, committing, cancelled, cancelling>>
      /\ UNCHANGED <<accept, cancel, locker, vault, saved, expired, timer, dropped, attempts, locks,
                     faults>>
  BY DEF vars, flagVars, timeVars, boundVars
<1>2. Typed' /\ Accepting' /\ Cancelling'
  BY <1>1 DEF Ind, Typed, Accepting, Cancelling
<1>3. (Counts' <=> Counts) /\ (Over' <=> Over)
  BY <1>1 DEF Counts, Over, IsPending
<1>4. Truthful' /\ Prepares'
  BY <1>1, <1>3 DEF Ind, Truthful, Prepares
<1>5. Recorded' /\ Ended'
  BY <1>1, <1>3 DEF Ind, Recorded, Ended, Fresh, Careful
<1> QED BY <1>2, <1>4, <1>5 DEF Ind

LEMMA StepKeeps ==
  ASSUME Ind, [Next]_vars
  PROVE  Ind'
BY AcceptStepKeeps, CancelStepKeeps, LockStepKeeps, StutterKeeps, UserAcceptsKeeps,
   UserDismissesKeeps, BackgroundCancelsKeeps, LockStartsKeeps, QuietKeeps, WorkerStopsKeeps
   DEF Next

LEMMA Always == Spec => []Ind
BY Initially, StepKeeps, PTL DEF Spec

\* Every handler, receipt and flag of the runtime keeps its shape, and the sets
\* of the runtime say where the accepting handler is (acceptPasskeyRequest).
THEOREM TypeCorrect == Spec => []TypeOK
<1>1. ASSUME Ind PROVE TypeOK
  <2>1. (committing \/ cancelled) => processing
    BY <1>1 DEF Ind, Accepting, Working
  <2> QED BY <1>1, <2>1 DEF Ind, Typed, TypeOK, Accepting, Pages, Lockers
<1> QED BY <1>1, Always, PTL

\* A registration that the page is given is the one the vault holds, whichever
\* handler gave it: the attempt that stored it, a later one that found its
\* receipt, or a dismissal that came too late.
THEOREM ResultsAreStored == Spec => []ResultIsSaved
<1>1. ASSUME Ind PROVE ResultIsSaved
  BY <1>1 DEF Ind, Truthful, Counts, ResultIsSaved
<1> QED BY <1>1, Always, PTL

\* A page that is told that its registration was cancelled has none: nothing was
\* stored, and nothing is stored any more.
THEOREM CancelledStoresNothing == Spec => []CancelledIsNotSaved
<1>1. ASSUME Ind PROVE CancelledIsNotSaved
  BY <1>1 DEF Ind, Ended, Over, Counts, CancelledIsNotSaved
<1> QED BY <1>1, Always, PTL

(* Only one place of the handler stores anything. *)
LEMMA OnlyCommitStores ==
  ASSUME [Next]_vars
  PROVE  saved' = saved \/ Commit
<1>1. CASE AcceptStep
  BY <1>1 DEF AcceptStep, Arrive, FindReceipt, ConfirmReceipt, LoadPending, CheckVault, VerifyUser,
     Make, Prepare, StartCommit, PromoteReceipt, ForgetPending, CleanUp, End, AcceptAnswered
<1>2. CASE CancelStep
  BY <1>2 DEF CancelStep, DismissArrives, DismissReads, DismissConfirms, DismissFinds,
     DismissAnswered, StartCancel, CancelReads, CancelConfirms, CancelDeleted
<1>3. CASE LockStep
  BY <1>3 DEF LockStep, LockFlags, LockForgets, LockChecks, LockConfirms, LockTells, LockEnds
<1>4. CASE UserAccepts \/ UserDismisses \/ BackgroundCancels \/ UserLocks \/ SessionEnds
           \/ UserUnlocks \/ TimePasses \/ Purge \/ WorkerStops
  BY <1>4 DEF UserAccepts, UserDismisses, BackgroundCancels, UserLocks, SessionEnds, UserUnlocks,
     TimePasses, Purge, WorkerStops
<1>5. CASE UNCHANGED vars
  BY <1>5 DEF vars
<1> QED BY <1>1, <1>2, <1>3, <1>4, <1>5 DEF Next

\* One request stores one credential, however often it is asked again: after a
\* lost answer, a worker that stopped, or a lock.
THEOREM StoredOnce == Spec => SavedOnce
<1>1. ASSUME Ind, [Next]_vars
      PROVE  [operation = "create" /\ saved # None /\ ~dropped => saved' = saved]_vars
  <2>1. ASSUME Commit, Counts PROVE saved = None
    BY <1>1, <2>1, NothingYet DEF Commit
  <2> QED BY <1>1, <2>1, OnlyCommitStores DEF Counts
<1> QED BY <1>1, Always, PTL DEF Spec, SavedOnce
=============================================================================
