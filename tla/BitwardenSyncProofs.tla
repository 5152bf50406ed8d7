------------------------- MODULE BitwardenSyncProofs -------------------------
(* No create and no soft delete is sent twice, and no edit is lost in a       *)
(* merge, for every set of items and Ciphers and every bound.                 *)
EXTENDS BitwardenSync, FiniteSetTheorems, TLAPS

Acks == [id : Ids, verb : Verbs, cipher : Ciphers, wrote : Nat, followUp : BOOLEAN]
Sending == {"put", "post", "trash", "confirm", "confirmed"}
Steps   == {"none", "revive", "mark"} \cup Sending
Phases  == {"idle", "read", "ready", "write", "commit", "apply", "clear"}
Rounds ==
  [phase : Phases, snap : [Items -> ItemRecords],
   batch : [Items -> Entries \cup {NoEntry}], deferred : SUBSET Ids,
   recs : [Ids -> Receipts \cup {NoReceipt}], seen : [Ciphers -> Copies],
   result : [Items -> ItemRecords], acks : [Items -> Acks \cup {NoAck}],
   found : SUBSET Conflicts, todo : SUBSET Items, item : Items \cup {NoCipher},
   step : Steps, known : Nat]

Typed ==
  /\ local \in [Items -> ItemRecords]
  /\ queue \in [Items -> Entries \cup {NoEntry}]
  /\ receipt \in [Ids -> Receipts \cup {NoReceipt}]
  /\ conflicts \subseteq Conflicts
  /\ remote \in [Ciphers -> Copies]
  /\ run \in Rounds
  /\ nextId \in 1..(MaxIds + 1) /\ now \in Nat
  /\ edits \in Nat /\ others \in Nat /\ faults \in Nat
  /\ sent \subseteq Ids \X {"create", "delete"} /\ reported \subseteq Nat

(* A write is at hand only while the provider writes, and for an entry of the *)
(* batch; what a step sends to a Cipher has one.                              *)
IdOf(i) == run.batch[i].id
OneWrite ==
  /\ run.phase = "idle" => Batched = {}
  /\ run.phase # "write" => run.todo = {} /\ run.step = "none"
  /\ run.todo \subseteq Batched
  /\ run.step # "none" => run.item \in Batched /\ run.item \notin run.todo
  /\ run.step \in {"revive", "put", "trash", "confirm", "confirmed"} => Bound(Base)
  /\ \A i \in Items : run.acks[i] # NoAck => i \in Batched /\ run.acks[i].id = IdOf(i)

(* A committed receipt names its Cipher. *)
Names(r) == r.stage = "committed" => Bound(r)
Recorded == \A d \in Ids : Names(receipt[d]) /\ Names(run.recs[d])

(* From "ready" on, the entries of the batch have receipts that agree.        *)
Agreed ==
  run.phase \notin {"idle", "read"} => \A i \in Batched :
    RecordOf(i) # NoReceipt /\ Agrees(i) /\ run.snap[i] # NoItem

(* Ids are unique. *)
Numbered(q) ==
  /\ \A i \in Items : q[i] # NoEntry => q[i].id < nextId
  /\ \A i, j \in Items : q[i] # NoEntry /\ q[i].id = q[j].id => i = j

(* Until its entry is marked, a receipt is what the round read, or dropped;   *)
(* afterwards it is dropped or no longer "prepared".                          *)
Same(d) == receipt[d] \in {NoReceipt, run.recs[d]}
Unmarked == run.todo \cup {i \in {run.item} : run.step \in {"revive", "mark"}}
Followed ==
  /\ run.phase = "read" => \A d \in Ids : Same(d)
  /\ run.phase = "ready" => \A i \in Batched : Same(IdOf(i))
  /\ \A i \in Unmarked : Same(IdOf(i))
  /\ run.step \in Sending =>
       LET d == IdOf(run.item)
       IN receipt[d] # NoReceipt => /\ receipt[d].stage \in {"attempted", "committed"}
                                    /\ receipt[d].verb = run.recs[d].verb

(* A write that is not settled keeps its receipt, or nothing is queued for it *)
(* any more; what is left to write has not been sent before.                  *)
BatchIds == {IdOf(i) : i \in Batched}
Sticky(d, v) == receipt[d].verb = v /\ receipt[d].stage \in {"attempted", "committed"}
Waiting == run.todo \cup {i \in {run.item} : run.step \in {"revive", "mark", "post", "trash"}}
SentKept ==
  /\ \A s \in sent :
       /\ s[1] < nextId
       /\ Sticky(s[1], s[2]) \/ (s[1] \notin QueuedIds /\ s[1] \notin BatchIds)
  /\ run.phase = "clear" => \A s \in sent : s[1] \notin AckedIds
NotYetSent == \A i \in Waiting :
  /\ <<IdOf(i), "create">> \notin sent
  /\ <<IdOf(i), "delete">> \in sent => ~Bound(run.result[i])

Ind == Typed /\ OneWrite /\ Recorded /\ Numbered(queue) /\ Numbered(run.batch)
         /\ Agreed /\ Followed /\ SentKept /\ NotYetSent

(* An item without a status is no item, a version decoded from the account    *)
(* does not count as changed, and what waits to be created has no reference.  *)
Plain(r) == r.status = "none" => r = NoItem
Edited(r) == Live(r) /\ ItemChanged(r)
Foreign(K) == \A k \in K : Plain(k.remote) /\ (k.id # k.item => ~Edited(k.remote))
CreateUnbound(q, items) ==
  \A i \in Items : q[i].verb = "create" /\ Edited(items[i]) => ~Bound(items[i])
Sane ==
  /\ \A i \in Items : Plain(local[i]) /\ Plain(run.snap[i]) /\ Plain(run.result[i])
  /\ Foreign(conflicts) /\ Foreign(run.found)
  /\ CreateUnbound(queue, local) /\ CreateUnbound(run.batch, run.snap)

(* The provider hands back an edited item as it got it, acknowledges only     *)
(* what the item held when it was read, and leaves no edited item of the      *)
(* batch unanswered: each is acknowledged, in conflict or still to be written.*)
Unwritten == run.todo \cup {i \in {run.item} : run.step # "none"}
Carried(i, ack, after) ==
  LET before == run.snap[i]
  IN IF ack = NoAck
     THEN /\ Edited(before) => after = [before EXCEPT !.rev = after.rev]
          /\ ~Edited(before) => ~Edited(after)
          /\ Present(before) /\ ~Bound(before) => ~Bound(after)
     ELSE ~Committed(i) /\ Live(before) /\ ~ack.followUp => ack.wrote = before.text
Told(i) == \E k \in run.found : k.item = i
Covered(i) ==
  i \in Batched /\ Edited(run.snap[i]) => run.acks[i] # NoAck \/ Told(i) \/ i \in Unwritten
Provided ==
  /\ run.phase \in {"write", "commit", "apply"} =>
       \A i \in Items : Carried(i, run.acks[i], run.result[i]) /\ Covered(i)
  /\ \A i \in Unwritten : run.acks[i] = NoAck /\ run.result[i] = run.snap[i]
  /\ run.step \in {"trash", "confirm", "confirmed"} => ~Live(Base)
-----------------------------------------------------------------------------
(* What the operators of the provider and of the merge return.               *)
LEMMA DecodedType ==
  ASSUME NEW copy \in Copies, NEW c \in Ciphers
  PROVE  Decoded(copy, c) \in ItemRecords
BY DEF Decoded, Copies, ItemRecords, NoItem

LEMMA EmptyType ==
  /\ NoItem \in ItemRecords /\ NoCopy \in Copies
  /\ NoReceipt \notin Receipts /\ NoAck \notin Acks /\ NoEntry \notin Entries
  /\ Idle \in Rounds
<1>1. NoItem \in ItemRecords /\ NoCopy \in Copies
  BY DEF NoItem, ItemRecords, NoCopy, Copies
<1>2. NoReceipt \notin Receipts /\ NoAck \notin Acks /\ NoEntry \notin Entries
  BY DEF NoReceipt, Receipts, NoAck, Acks, NoEntry, Entries, Verbs
<1>3. Idle \in Rounds
  BY <1>1 DEF Idle, Rounds, Phases, Steps, Sending
<1> QED BY <1>1, <1>2, <1>3

LEMMA RecordType ==
  ASSUME Typed, NEW i \in Items
  PROVE  /\ RecordOf(i) \in Receipts \cup {NoReceipt}
         /\ i \in Batched => run.batch[i] \in Entries /\ IdOf(i) \in Ids
         /\ i \notin Batched => run.batch[i] = NoEntry /\ RecordOf(i) = NoReceipt
<1>1. run.batch[i] \in Entries \cup {NoEntry} /\ run.recs \in [Ids -> Receipts \cup {NoReceipt}]
  BY DEF Typed, Rounds
<1> QED BY <1>1 DEF RecordOf, Batched, Entries, IdOf

LEMMA MatchType ==
  ASSUME NEW seen, NEW i \in Items, Proven(i, seen), Attempted(i), RecordOf(i).verb = "create"
  PROVE  ProvenCipher(i, seen) \in Ciphers /\ ProvenCipher(i, seen) \in Matches(i, seen)
<1>1. Cardinality(Matches(i, seen)) = 1
  BY DEF Proven, Attempted, Committed
<1>2. Matches(i, seen) # {}
  BY <1>1, FS_EmptySet
<1>3. Matches(i, seen) \subseteq Ciphers
  BY DEF Matches
<1> QED BY <1>2, <1>3 DEF ProvenCipher

LEMMA ProvenType ==
  ASSUME Typed, Recorded, NEW seen, NEW i \in Items, Proven(i, seen)
  PROVE  ProvenCipher(i, seen) \in Ciphers /\ i \in Batched
<1>1. RecordOf(i) \in Receipts /\ i \in Batched
  BY RecordType DEF Proven, Committed, Attempted, NoReceipt
<1>2. Committed(i) => Bound(RecordOf(i))
  BY <1>1, RecordType DEF Recorded, Names, Committed, RecordOf, IdOf
<1>3. CASE Attempted(i) /\ RecordOf(i).verb = "create"
  BY <1>1, <1>3, MatchType
<1>4. CASE ~(Attempted(i) /\ RecordOf(i).verb = "create")
  <2>1. Bound(RecordOf(i))
    BY <1>2, <1>4 DEF Proven, Bound
  <2> QED BY <1>1, <1>4, <2>1 DEF ProvenCipher, Bound, Receipts
<1> QED BY <1>3, <1>4

LEMMA ScopedType ==
  ASSUME Typed, Recorded, NEW seen \in [Ciphers -> Copies], NEW i \in Items
  PROVE  Scoped(i, seen) \in ItemRecords
<1>1. run.snap[i] \in ItemRecords
  BY DEF Typed, Rounds
<1>2. CASE ~Proven(i, seen)
  BY <1>1, <1>2 DEF Scoped
<1>3. CASE Proven(i, seen)
  <2> DEFINE c == ProvenCipher(i, seen)
             rev == IF Attempted(i) /\ RecordOf(i).verb = "delete" THEN 0
                    ELSE Decoded(seen[c], c).rev
  <2>1. c \in Ciphers
    BY <1>3, ProvenType
  <2>2. rev \in Nat
    BY <2>1, DecodedType DEF ItemRecords
  <2>3. Scoped(i, seen) = [run.snap[i] EXCEPT !.cipher = c, !.rev = rev]
    BY <1>3 DEF Scoped
  <2> HIDE DEF c, rev
  <2> QED BY <1>1, <2>1, <2>2, <2>3 DEF ItemRecords
<1> QED BY <1>2, <1>3

LEMMA SettledType ==
  ASSUME Typed, Recorded, NEW seen \in [Ciphers -> Copies], NEW i \in Items
  PROVE  Settled(i, seen) \in ItemRecords
<1> DEFINE r == Scoped(i, seen)
<1>1. r \in ItemRecords
  BY ScopedType
<1>2. \A c \in Ciphers : Decoded(seen[c], c) \in ItemRecords
  BY DecodedType
<1>3. Bound(r) => r.cipher \in Ciphers
  BY <1>1 DEF Bound, ItemRecords
<1>4. Bound(r) => [r EXCEPT !.rev = seen[r.cipher].rev] \in ItemRecords
  BY <1>1, <1>3 DEF ItemRecords, Copies
<1> HIDE DEF r
<1> QED BY <1>1, <1>2, <1>3, <1>4, EmptyType DEF Settled, r

LEMMA AgainstType ==
  ASSUME Typed, Recorded, NEW seen \in [Ciphers -> Copies], NEW i \in Items
  PROVE  Against(i, seen) \in Conflicts /\ Against(i, seen).item = i
<1> DEFINE c == Scoped(i, seen).cipher
<1>1. c \in Ciphers \cup {NoCipher}
  BY ScopedType DEF ItemRecords
<1>2. c \in Ciphers => Decoded(seen[c], c) \in ItemRecords /\ c \in Items
  BY DecodedType DEF Items
<1> HIDE DEF c
<1> QED BY <1>1, <1>2, EmptyType DEF Against, Conflicts, c

LEMMA AcknowledgeType ==
  ASSUME Typed, NEW i \in Batched, NEW verb \in Verbs, NEW c \in Ciphers, NEW w \in Nat
  PROVE  /\ Acknowledge(i, verb, c, w) \in Acks
         /\ Acknowledge(i, verb, c, w).id = IdOf(i)
<1>1. IdOf(i) \in Ids
  BY RecordType DEF Batched
<1>2. FollowUp(i) \in BOOLEAN
  BY DEF FollowUp
<1> QED BY <1>1, <1>2 DEF Acknowledge, Acks, IdOf

LEMMA RecoveredType ==
  ASSUME Typed, Recorded, NEW seen \in [Ciphers -> Copies], NEW i \in Items
  PROVE  /\ Recovered(i, seen) \in Acks \cup {NoAck}
         /\ Recovered(i, seen) # NoAck => i \in Batched /\ Recovered(i, seen).id = IdOf(i)
<1> DEFINE verb == run.batch[i].verb
           old == Acknowledge(i, verb, RecordOf(i).cipher, RecordOf(i).text)
<1>1. CASE Committed(i)
  <2>1. RecordOf(i) \in Receipts /\ i \in Batched /\ verb \in Verbs
    BY <1>1, RecordType DEF Committed, NoReceipt, Entries
  <2>2. RecordOf(i).cipher \in Ciphers
    BY <1>1, <2>1, RecordType DEF Recorded, Names, Committed, RecordOf, IdOf, Bound, Receipts
  <2>3. old \in Acks /\ old.id = IdOf(i)
    BY <2>1, <2>2, AcknowledgeType DEF Receipts
  <2>4. Recovered(i, seen) = [old EXCEPT !.followUp = FALSE]
    BY <1>1 DEF Recovered
  <2> HIDE DEF old
  <2> QED BY <2>1, <2>3, <2>4 DEF Acks
<1>2. CASE ~Committed(i) /\ Proven(i, seen)
  <2>1. RecordOf(i) \in Receipts /\ i \in Batched /\ verb \in Verbs
    BY <1>2, RecordType, ProvenType DEF Proven, Committed, Attempted, NoReceipt, Entries
  <2> QED BY <1>2, <2>1, ProvenType, AcknowledgeType DEF Recovered, Receipts
<1>3. CASE ~Committed(i) /\ ~Proven(i, seen) /\ Moot(i, seen)
  <2>1. i \in Batched /\ run.snap[i] \in ItemRecords /\ Bound(run.snap[i])
    BY <1>3 DEF Moot, Pending, Vanished, Scoped, Typed, Rounds
  <2> QED BY <1>3, <2>1, AcknowledgeType DEF Recovered, Verbs, Bound, ItemRecords
<1>4. CASE ~Committed(i) /\ ~Proven(i, seen) /\ ~Moot(i, seen)
  BY <1>4 DEF Recovered
<1> QED BY <1>1, <1>2, <1>3, <1>4

LEMMA MergedType ==
  ASSUME Typed, NEW i \in Items
  PROVE  Merged(i) \in ItemRecords
<1>1. local[i] \in ItemRecords /\ run.result[i] \in ItemRecords /\ run.acks[i] \in Acks \cup {NoAck}
  BY DEF Typed, Rounds
<1>2. run.acks[i].cipher \in Ciphers \cup {NoCipher} /\ run.acks[i].wrote \in Nat
  BY <1>1 DEF Acks, NoAck
<1>3. WithReference(i) \in ItemRecords
  BY <1>1, <1>2 DEF WithReference, ItemRecords
<1> QED BY <1>1, <1>3, EmptyType DEF Merged

-----------------------------------------------------------------------------
(* Types, and the order of a round.                                          *)
Shape == Typed /\ OneWrite /\ Recorded
Outside == <<run, remote, others, faults>>

LEMMA InitShape == Init => Shape
<1> SUFFICES ASSUME Init PROVE Shape
  OBVIOUS
<1>1. \A c \in Ciphers : remote[c] \in Copies
  BY EmptyType DEF Init, Copies
<1>2. Typed
  <2>1. remote \in [Ciphers -> Copies]
    BY <1>1 DEF Init
  <2>2. local \in [Items -> ItemRecords]
    <3>1. Held \subseteq Items
      BY NamesAssumption DEF Items
    <3>2. \A i \in Held : Decoded(remote[i], i) \in ItemRecords
      BY <1>1, DecodedType, NamesAssumption
    <3> QED BY <3>1, <3>2, EmptyType DEF Init
  <2>3. run \in Rounds
    BY EmptyType DEF Init
  <2> QED BY <2>1, <2>2, <2>3, BoundsAssumption DEF Init, Typed
<1>3. Batched = {} /\ run.phase = "idle" /\ run.todo = {} /\ run.step = "none"
  BY DEF Init, Idle, Batched
<1>4. OneWrite
  BY <1>3 DEF Init, Idle, OneWrite
<1>5. Recorded
  BY <1>3 DEF Init, Idle, Recorded, Names, NoReceipt
<1> QED BY <1>2, <1>4, <1>5 DEF Shape

LEMMA EnqueueType ==
  ASSUME Typed, NEW i \in Items, NEW item, NEW verb \in Verbs, nextId \in Ids,
         Enqueue(i, item, verb)
  PROVE  queue' \in [Items -> Entries \cup {NoEntry}] /\ nextId' \in 1..(MaxIds + 1)
<1>1. Queued(queue[i], item, verb) \in Entries \cup {NoEntry}
  BY EmptyType DEF Typed, Queued, Entries, Verbs
<1> QED BY <1>1, BoundsAssumption DEF Typed, Enqueue, Ids

LEMMA EditType ==
  ASSUME Typed, NEW i \in Items, Create(i) \/ Edit(i) \/ Delete(i) \/ Restore(i)
  PROVE  Typed'
<1>0. UserActs
  BY Zenon DEF Create, Edit, Delete, Restore
<1>1. local[i] \in ItemRecords /\ now' \in Nat /\ edits' \in Nat /\ nextId \in Ids
  BY <1>0 DEF Typed, UserActs
<1>2. UNCHANGED <<conflicts, remote, run, others, faults, ghosts>>
  BY DEF Create, Edit, Delete, Restore
<1>3. local' \in [Items -> ItemRecords]
  <2>1. ASSUME NEW r \in ItemRecords, Put(i, r) PROVE local' \in [Items -> ItemRecords]
    BY <2>1 DEF Put, Typed
  <2>2. /\ [NoItem EXCEPT !.status = "live", !.text = now', !.at = now'] \in ItemRecords
        /\ [local[i] EXCEPT !.text = now', !.at = now'] \in ItemRecords
        /\ [local[i] EXCEPT !.status = "trash", !.at = now'] \in ItemRecords
        /\ [local[i] EXCEPT !.status = "live", !.at = now'] \in ItemRecords
    BY <1>1, EmptyType DEF ItemRecords
  <2> QED BY <2>1, <2>2 DEF Create, Edit, Delete, Restore
<1>4. /\ queue' \in [Items -> Entries \cup {NoEntry}] /\ nextId' \in 1..(MaxIds + 1)
      /\ receipt' \in [Ids -> Receipts \cup {NoReceipt}]
  <2>1. CASE Create(i) \/ Edit(i) \/ Delete(i)
    BY <2>1, <1>1, EnqueueType DEF Create, Edit, Delete, Verbs, Typed
  <2>2. CASE Restore(i) /\ queue[i].verb # "delete"
    BY <2>2, <1>1, EnqueueType DEF Restore, Verbs, Typed
  <2>3. CASE Restore(i) /\ queue[i].verb = "delete"
    BY <2>3 DEF Restore, Typed
  <2> QED BY <2>1, <2>2, <2>3
<1> QED BY <1>1, <1>2, <1>3, <1>4 DEF Typed, ghosts

LEMMA DecideType ==
  ASSUME Typed, NEW k \in conflicts, KeepLocal(k) \/ UseRemote(k)
  PROVE  Typed'
<1>1. /\ k \in Conflicts /\ now' \in Nat /\ edits' \in Nat /\ nextId \in Ids
      /\ conflicts' \subseteq Conflicts /\ receipt' \in [Ids -> Receipts \cup {NoReceipt}]
      /\ sent' \subseteq Ids \X {"create", "delete"}
  BY DEF Typed, KeepLocal, UseRemote, Decide, UserActs
<1>2. UNCHANGED <<remote, run, others, faults, reported>>
  BY DEF KeepLocal, UseRemote
<1>3. k.item \in Items /\ k.id \in Items /\ k.remote \in ItemRecords /\ local[k.item] \in ItemRecords
  BY <1>1 DEF Conflicts, Typed
<1>4. /\ local' \in [Items -> ItemRecords] /\ queue' \in [Items -> Entries \cup {NoEntry}]
      /\ nextId' \in 1..(MaxIds + 1)
  <2>1. CASE UseRemote(k)
    BY <2>1, <1>3, EmptyType DEF UseRemote, Typed
  <2>2. CASE KeepLocal(k)
    <3> DEFINE kept == [local[k.item] EXCEPT
                 !.cipher = k.remote.cipher, !.rev = k.remote.at, !.basis = k.remote.basis]
               verb == IF Trash(kept) THEN "delete" ELSE "update"
    <3>1. kept \in ItemRecords /\ verb \in Verbs
      BY <1>3 DEF ItemRecords, Verbs
    <3>2. Put(k.item, kept) /\ Enqueue(k.item, kept, verb)
      BY <2>2 DEF KeepLocal
    <3> HIDE DEF kept, verb
    <3> QED BY <1>1, <1>3, <3>1, <3>2, EnqueueType DEF Put, Typed
  <2> QED BY <2>1, <2>2
<1> QED BY <1>1, <1>2, <1>4 DEF Typed

(* Most steps of a synchronization change the run and little else. *)
World == <<local, queue, conflicts, nextId, edits, others, ghosts>>

LEMMA StepType ==
  ASSUME Typed, UNCHANGED World,
         run' \in Rounds, receipt' \in [Ids -> Receipts \cup {NoReceipt}],
         remote' \in [Ciphers -> Copies], now' \in Nat, faults' \in Nat
  PROVE  Typed'
BY DEF Typed, World, ghosts

LEMMA FailureType ==
  ASSUME Shape, At(run.step), run.step # "none", Failed \/ Lost
  PROVE  /\ run' \in Rounds /\ faults' \in Nat /\ OneWrite'
         /\ Batched' = Batched /\ run'.recs = run.recs /\ run'.phase = "write"
<1> DEFINE k == Against(run.item, run.seen)
<1>1. run.item \in Batched /\ run.item \in Items /\ run.seen \in [Ciphers -> Copies]
  BY DEF Shape, OneWrite, Batched, Typed, Rounds
<1>2. k \in Conflicts
  BY <1>1, AgainstType DEF Shape
<1>3. run' = [run EXCEPT !.item = NoCipher, !.step = "none", !.found = @ \cup {k}]
  BY DEF Failed, Lost, GiveUp
<1>4. faults' \in Nat
  BY DEF Failed, Lost, Shape, Typed
<1> HIDE DEF k
<1>5. /\ run' \in Rounds
      /\ run'.batch = run.batch /\ run'.recs = run.recs /\ run'.acks = run.acks
      /\ run'.todo = run.todo /\ run'.phase = run.phase /\ run'.step = "none"
  BY <1>2, <1>3 DEF Shape, Typed, Rounds, Steps
<1> QED BY <1>4, <1>5 DEF Shape, OneWrite, Batched, IdOf, At

LEMMA WrittenType ==
  ASSUME Shape, At(run.step), run.step # "none", NEW verb \in Verbs, NEW c \in Ciphers,
         NEW copy \in Copies, Written(verb, c, copy)
  PROVE  /\ run' \in Rounds /\ faults' \in Nat /\ OneWrite'
         /\ Batched' = Batched /\ run'.recs = run.recs /\ run'.phase = "write"
<1> DEFINE ack == Acknowledge(run.item, verb, c, copy.text)
           r == Decoded(copy, c)
<1>1. run.item \in Batched /\ run.item \in Items
  BY DEF Shape, OneWrite, Batched
<1>2. ack \in Acks /\ ack.id = IdOf(run.item) /\ r \in ItemRecords
  BY <1>1, AcknowledgeType, DecodedType DEF Shape, Copies
<1>3. run' = [run EXCEPT !.item = NoCipher, !.step = "none", !.result[run.item] = r,
                         !.acks[run.item] = ack]
  BY DEF Written
<1>4. faults' \in Nat
  BY DEF Written, Shape, Typed
<1> HIDE DEF ack, r
<1>5. /\ run' \in Rounds
      /\ run'.batch = run.batch /\ run'.recs = run.recs
      /\ run'.acks = [run.acks EXCEPT ![run.item] = ack]
      /\ run'.todo = run.todo /\ run'.phase = run.phase /\ run'.step = "none"
  BY <1>1, <1>2, <1>3 DEF Shape, Typed, Rounds, Steps
<1>6. run.acks \in [Items -> Acks \cup {NoAck}]
  BY DEF Shape, Typed, Rounds
<1> QED BY <1>1, <1>2, <1>4, <1>5, <1>6 DEF Shape, OneWrite, Batched, IdOf, At

LEMMA GivenType ==
  ASSUME Shape, At(run.step), run.step # "none", NEW next \in Sending, Given(next),
         next \notin {"post"} => Bound(Base)
  PROVE  /\ run' \in Rounds /\ faults' \in Nat /\ OneWrite'
         /\ Batched' = Batched /\ run'.recs = run.recs /\ run'.phase = "write"
<1>1. run' = [run EXCEPT !.step = next] /\ faults' \in Nat
  BY DEF Given, Shape, Typed
<1>2. /\ run' \in Rounds
      /\ run'.batch = run.batch /\ run'.recs = run.recs /\ run'.acks = run.acks
      /\ run'.result = run.result /\ run'.item = run.item
      /\ run'.todo = run.todo /\ run'.phase = run.phase /\ run'.step = next
  BY <1>1 DEF Shape, Typed, Rounds, Steps
<1> QED BY <1>1, <1>2 DEF Shape, OneWrite, Batched, IdOf, At, Sending, Base

LEMMA IdleShape ==
  ASSUME Recorded, run' = Idle, \A d \in Ids : Names(receipt'[d])
  PROVE  OneWrite' /\ Recorded' /\ Batched' = {}
BY DEF Idle, OneWrite, Recorded, Batched, Names, NoReceipt

LEMMA ReadShape == ASSUME Shape, Read PROVE Shape'
<1>1. receipt' \in [Ids -> Receipts \cup {NoReceipt}] /\ \A d \in Ids : Names(receipt'[d])
  BY DEF Read, Shape, Typed, Recorded, Names, NoReceipt
<1>2. PICK chosen \in SUBSET Items :
        run' = [Idle EXCEPT
          !.phase = "read", !.snap = local, !.recs = receipt',
          !.batch = [i \in Items |-> IF i \in chosen THEN queue[i] ELSE NoEntry],
          !.deferred = {queue[i].id : i \in Items \ chosen} \ {0}]
  BY DEF Read
<1> DEFINE batch == [i \in Items |-> IF i \in chosen THEN queue[i] ELSE NoEntry]
           deferred == {queue[i].id : i \in Items \ chosen} \ {0}
<1>3. batch \in [Items -> Entries \cup {NoEntry}] /\ deferred \in SUBSET Ids
  BY DEF Shape, Typed, Entries, NoEntry
<1> HIDE DEF batch, deferred
<1>4. /\ run' \in Rounds /\ run'.phase = "read" /\ run'.recs = receipt'
      /\ run'.todo = {} /\ run'.step = "none" /\ run'.acks = [i \in Items |-> NoAck]
  BY <1>1, <1>2, <1>3, EmptyType DEF Rounds, Phases, Idle, Shape, Typed, batch, deferred
<1>5. Typed'
  BY <1>1, <1>4 DEF Read, Shape, Typed, ghosts
<1>6. OneWrite' /\ Recorded'
  BY <1>1, <1>4 DEF OneWrite, Recorded
<1> QED BY <1>5, <1>6 DEF Shape

LEMMA IdleStep ==
  ASSUME Shape, run' = Idle, UNCHANGED <<World, remote, now>>, faults' \in Nat,
         receipt' \in [Ids -> Receipts \cup {NoReceipt}], \A d \in Ids : Names(receipt'[d])
  PROVE  Shape'
<1>1. Typed'
  BY EmptyType, StepType DEF Shape, Typed
<1> QED BY <1>1, IdleShape DEF Shape

LEMMA PrepareShape == ASSUME Shape, Prepare PROVE Shape'
<1> DEFINE needed == {i \in Batched : NeedsReceipt(i)}
           recs == IF needed = {} THEN run.recs ELSE receipt'
<1>1. \A i \in needed : Prepared(i) \in Receipts /\ Prepared(i).stage = "prepared"
                        /\ Prepared(i).item = i /\ Prepared(i).verb = run.batch[i].verb
  <2> SUFFICES ASSUME NEW i \in needed PROVE Prepared(i) \in Receipts
    BY DEF Prepared
  <2>1. i \in Items /\ run.batch[i].verb \in Verbs /\ run.snap[i] \in ItemRecords
    BY RecordType DEF Batched, Entries, Shape, Typed, Rounds
  <2> QED BY <2>1 DEF Prepared, Receipts, ItemRecords
<1>2. receipt' = [d \in Ids |->
          IF \E i \in needed : run.batch[i].id = d
          THEN Prepared(CHOOSE i \in needed : run.batch[i].id = d) ELSE receipt[d]]
  BY Zenon DEF Prepare
<1>3. \A d \in Ids : \/ receipt'[d] = receipt[d]
                     \/ \E i \in needed : run.batch[i].id = d /\ receipt'[d] = Prepared(i)
  BY <1>2
<1>4. receipt' \in [Ids -> Receipts \cup {NoReceipt}] /\ \A d \in Ids : Names(receipt'[d])
  <2>1. \A d \in Ids : receipt'[d] \in Receipts \cup {NoReceipt} /\ Names(receipt'[d])
    BY <1>1, <1>3 DEF Shape, Typed, Recorded, Names
  <2> QED BY <1>2, <2>1
<1>5. recs \in [Ids -> Receipts \cup {NoReceipt}] /\ \A d \in Ids : Names(recs[d])
  BY <1>4 DEF Shape, Typed, Rounds, Recorded
<1>6. run' = IF \A i \in Batched : recs[run.batch[i].id] # NoReceipt
             THEN [run EXCEPT !.phase = "ready", !.recs = recs] ELSE Idle
  BY Zenon DEF Prepare
<1>7. /\ UNCHANGED <<World, remote, now>> /\ faults' \in Nat
      /\ run.phase = "read" /\ \A i \in Batched : Agrees(i) /\ run.snap[i] # NoItem
  BY DEF Prepare, World, Shape, Typed
<1>8. CASE ~ \A i \in Batched : recs[run.batch[i].id] # NoReceipt
  BY <1>4, <1>6, <1>7, <1>8, IdleStep
<1>9. CASE \A i \in Batched : recs[run.batch[i].id] # NoReceipt
  <2> HIDE DEF recs
  <2>1. run' = [run EXCEPT !.phase = "ready", !.recs = recs]
    BY <1>6, <1>9
  <2>2. /\ run' \in Rounds /\ run'.phase = "ready" /\ run'.recs = recs
        /\ run'.batch = run.batch /\ run'.todo = run.todo /\ run'.step = run.step
        /\ run'.acks = run.acks
    BY <2>1, <1>5 DEF Shape, Typed, Rounds, Phases
  <2>3. Typed'
    BY <2>2, <1>4, <1>7, StepType DEF Shape, Typed
  <2>4. OneWrite' /\ Batched' = Batched
    BY <2>2, <1>7 DEF Shape, OneWrite, Batched, IdOf
  <2>5. Recorded'
    BY <2>2, <1>4, <1>5 DEF Recorded
  <2> QED BY <2>3, <2>4, <2>5 DEF Shape
<1> QED BY <1>8, <1>9

(* A step that keeps the receipts. *)
LEMMA RoundShape ==
  ASSUME Shape, UNCHANGED <<World, receipt>>, run' \in Rounds, OneWrite', run'.recs = run.recs,
         remote' \in [Ciphers -> Copies], now' \in Nat, faults' \in Nat
  PROVE  Shape'
BY StepType DEF Shape, Typed, Recorded

LEMMA FetchShape == ASSUME Shape, Fetch PROVE Shape'
<1> DEFINE acks == [i \in Items |-> Recovered(i, remote)]
           result == [i \in Items |-> Settled(i, remote)]
           found == {Against(i, remote) : i \in Disputed(remote)}
<1>1. acks \in [Items -> Acks \cup {NoAck}] /\ result \in [Items -> ItemRecords]
  BY RecoveredType, SettledType DEF Shape, Typed
<1>2. \A i \in Items : acks[i] # NoAck => i \in Batched /\ acks[i].id = IdOf(i)
  BY RecoveredType DEF Shape, Typed
<1>3. found \subseteq Conflicts
  BY AgainstType DEF Disputed, Shape, Typed
<1>4. Writes(remote) \subseteq Batched /\ Batched \subseteq Items
  BY DEF Writes, Pending, Batched
<1>5. run' = [run EXCEPT !.phase = "write", !.seen = remote, !.acks = acks,
                         !.result = result, !.found = found, !.todo = Writes(remote)]
  BY DEF Fetch
<1> HIDE DEF acks, result, found
<1>6. /\ run' \in Rounds /\ run'.phase = "write" /\ run'.recs = run.recs
      /\ run'.batch = run.batch /\ run'.todo = Writes(remote) /\ run'.acks = acks
      /\ run'.step = run.step
  BY <1>1, <1>3, <1>4, <1>5 DEF Shape, Typed, Rounds, Phases
<1>7. UNCHANGED <<World, receipt, remote, now, faults>> /\ run.step = "none"
  BY DEF Fetch, World, vault, Shape, OneWrite
<1>8. OneWrite'
  <2>1. Batched' = Batched
    BY <1>6 DEF Batched
  <2> HIDE DEF Batched
  <2> QED BY <1>2, <1>4, <1>6, <1>7, <2>1 DEF OneWrite, IdOf
<1> QED BY <1>6, <1>7, <1>8, RoundShape DEF Shape, Typed

LEMMA TakeShape == ASSUME Shape, Take PROVE Shape'
<1>1. PICK i \in run.todo :
        LET c == run.result[i].cipher
            revive == Live(run.result[i]) /\ Bound(run.result[i])
                        /\ run.seen[c].status = "trash"
        IN run' = [run EXCEPT
               !.item = i, !.step = IF revive THEN "revive" ELSE "mark",
               !.known = IF c = NoCipher THEN 0 ELSE run.seen[c].rev,
               !.todo = @ \ {i}]
  BY DEF Take
<1> DEFINE c == run.result[i].cipher
           revive == Live(run.result[i]) /\ Bound(run.result[i]) /\ run.seen[c].status = "trash"
           step == IF revive THEN "revive" ELSE "mark"
           known == IF c = NoCipher THEN 0 ELSE run.seen[c].rev
<1>2. i \in Batched /\ i \in Items
  BY DEF Shape, OneWrite, Batched
<1>3. known \in Nat /\ step \in Steps
  <2>1. run.result[i] \in ItemRecords /\ run.seen \in [Ciphers -> Copies]
    BY <1>2 DEF Shape, Typed, Rounds
  <2> QED BY <2>1 DEF ItemRecords, Copies, Steps
<1>4. step \in {"revive", "mark"} /\ (step = "revive" => Bound(run.result[i]))
  OBVIOUS
<1>5. run' = [run EXCEPT !.item = i, !.step = step, !.known = known, !.todo = @ \ {i}]
  BY <1>1
<1> HIDE DEF step, known
<1>6. /\ run' \in Rounds /\ run'.phase = run.phase /\ run'.recs = run.recs
      /\ run'.batch = run.batch /\ run'.todo = run.todo \ {i} /\ run'.acks = run.acks
      /\ run'.step = step /\ run'.item = i /\ run'.result = run.result
  BY <1>2, <1>3, <1>5 DEF Shape, Typed, Rounds
<1>7. run.phase = "write" /\ UNCHANGED <<World, receipt, remote, now, faults>>
  BY DEF Take, At, World, vault, ghosts
<1>8. OneWrite'
  <2>1. Batched' = Batched /\ run.todo \subseteq Batched
    BY <1>6 DEF Batched, Shape, OneWrite
  <2>2. run'.step = "revive" => Bound(Base)'
    BY <1>4, <1>6 DEF Base
  <2>3. \A j \in Items : run.acks[j] # NoAck => j \in Batched /\ run.acks[j].id = IdOf(j)
    BY DEF Shape, OneWrite
  <2> HIDE DEF Batched
  <2> QED BY <1>2, <1>4, <1>6, <1>7, <2>1, <2>2, <2>3 DEF OneWrite, IdOf
<1> QED BY <1>6, <1>7, <1>8, RoundShape DEF Shape, Typed

LEMMA BaseType ==
  ASSUME Shape, run.step # "none"
  PROVE  /\ run.item \in Items /\ Base \in ItemRecords
         /\ run.batch[run.item] \in Entries /\ IdOf(run.item) \in Ids
         /\ run.step \in {"revive", "put", "trash", "confirm", "confirmed"}
              => Base.cipher \in Ciphers /\ remote[Base.cipher] \in Copies
                 /\ run.seen[Base.cipher] \in Copies
<1>1. run.item \in Batched /\ run.item \in Items
  BY DEF Shape, OneWrite, Batched
<1> QED BY <1>1, RecordType DEF Base, Shape, Typed, Rounds, OneWrite, Bound, ItemRecords

LEMMA ReviveShape == ASSUME Shape, Revive PROVE Shape'
<1>1. At("revive") /\ run.step = "revive" /\ UNCHANGED <<vault, nextId, edits, others, ghosts>>
  BY DEF Revive, At
<1>2. remote' \in [Ciphers -> Copies] /\ now' \in Nat
  BY <1>1, BaseType DEF Revive, Shape, Typed, Copies
<1>3. CASE Failed \/ Lost
  BY <1>1, <1>2, <1>3, FailureType, RoundShape DEF World, vault
<1>4. CASE run' = [run EXCEPT !.step = "mark", !.known = now'] /\ UNCHANGED faults
  <2>1. /\ run' \in Rounds /\ run'.phase = run.phase /\ run'.recs = run.recs
        /\ run'.batch = run.batch /\ run'.todo = run.todo /\ run'.acks = run.acks
        /\ run'.step = "mark" /\ run'.item = run.item
    BY <1>2, <1>4 DEF Shape, Typed, Rounds, Steps
  <2>2. OneWrite'
    BY <1>1, <2>1 DEF Shape, OneWrite, Batched, IdOf, At
  <2> QED BY <1>1, <1>2, <1>4, <2>1, <2>2, RoundShape DEF World, vault, Shape, Typed
<1> QED BY <1>3, <1>4 DEF Revive

LEMMA MarkShape == ASSUME Shape, Mark PROVE Shape'
<1>1. At("mark") /\ run.step = "mark" /\ UNCHANGED <<World, remote, now>>
  BY DEF Mark, At, World
<1>2. run.item \in Items /\ Base \in ItemRecords /\ IdOf(run.item) \in Ids
  BY <1>1, BaseType
<1>3. receipt' \in [Ids -> Receipts \cup {NoReceipt}] /\ \A d \in Ids : Names(receipt'[d])
  <2>1. ASSUME NEW r \in Receipts PROVE Marked(r) \in Receipts /\ (Names(r) => Names(Marked(r)))
    BY DEF Marked, Receipts, Names
  <2> QED BY <1>2, <2>1 DEF Mark, IdOf, Shape, Typed, Recorded
<1>4. /\ run' \in Rounds /\ faults' \in Nat /\ OneWrite' /\ run'.recs = run.recs
  <2>1. CASE Failed
    BY <1>1, <2>1, FailureType
  <2>2. CASE ~Failed
    <3> DEFINE next == IF ~Bound(Base) THEN "post"
                    ELSE IF Live(Base) THEN "put"
                    ELSE IF run.seen[Base.cipher].status = "trash" THEN "confirmed"
                    ELSE "trash"
    <3>1. Given(next)
      BY <2>2 DEF Mark
    <3>2. next \in Sending /\ (next # "post" => Bound(Base))
      BY DEF Sending
    <3> HIDE DEF next
    <3> QED BY <1>1, <3>1, <3>2, GivenType
  <2> QED BY <2>1, <2>2
<1>5. Typed'
  BY <1>1, <1>3, <1>4, StepType DEF Shape, Typed
<1> QED BY <1>3, <1>4, <1>5 DEF Shape, Recorded

LEMMA SentAfter ==
  ASSUME SendPut \/ SendPost \/ SendTrash \/ Confirm
  PROVE  \/ sent' = sent
         \/ run.step = "post" /\ sent' = sent \cup Unsettled(IdOf(run.item), "create")
         \/ run.step = "trash" /\ sent' = sent \cup Unsettled(IdOf(run.item), "delete")
<1>1. CASE SendPut \/ Confirm
  BY <1>1 DEF SendPut, Confirm, ghosts
<1>2. CASE SendPost
  BY <1>2 DEF SendPost, IdOf, At
<1>3. CASE SendTrash
  BY <1>3 DEF SendTrash, IdOf, At
<1> QED BY <1>1, <1>2, <1>3

LEMMA SendShape == ASSUME Shape, SendPut \/ SendPost \/ SendTrash \/ Confirm PROVE Shape'
<1>1. /\ At(run.step) /\ run.step \in Sending /\ run.step # "none"
      /\ UNCHANGED <<local, queue, conflicts, receipt, nextId, edits, others, reported>>
  BY DEF SendPut, SendPost, SendTrash, Confirm, At, Sending, vault, ghosts
<1>2. /\ run.item \in Items /\ IdOf(run.item) \in Ids /\ run.batch[run.item].verb \in Verbs
      /\ Base.text \in Nat /\ now \in Nat /\ now + 1 \in Nat
      /\ remote \in [Ciphers -> Copies]
  <2>1. Base \in ItemRecords /\ run.batch[run.item] \in Entries
    BY <1>1, BaseType
  <2> QED BY <1>1, <2>1, BaseType DEF Entries, ItemRecords, Shape, Typed
<1>3. ASSUME SendPost
      PROVE  \A c \in Ciphers :
               [status |-> "live", text |-> Base.text, rev |-> now + 1, origin |-> run.item]
                 \in Copies
  BY <1>2 DEF Copies
<1>4. ASSUME NEW c \in Ciphers
      PROVE  /\ [remote[c] EXCEPT !.text = Base.text, !.rev = now + 1] \in Copies
             /\ [remote[c] EXCEPT !.status = "trash", !.rev = now + 1] \in Copies
  <2>1. remote[c] \in Copies
    BY <1>2
  <2> QED BY <1>2, <2>1 DEF Copies
<1>5. remote' \in [Ciphers -> Copies] /\ now' \in Nat
  <2>1. CASE SendPost
    BY <2>1, <1>2, <1>3 DEF SendPost
  <2>2. CASE SendPut
    <3>1. Base.cipher \in Ciphers
      BY <2>2, <1>1, BaseType DEF SendPut, At
    <3> QED BY <2>2, <3>1, <1>2, <1>4 DEF SendPut
  <2>3. CASE SendTrash
    <3>1. Base.cipher \in Ciphers
      BY <2>3, <1>1, BaseType DEF SendTrash, At
    <3>2. \/ UNCHANGED <<remote, now>>
          \/ /\ remote' = [remote EXCEPT ![Base.cipher] =
                             [remote[Base.cipher] EXCEPT !.status = "trash", !.rev = now + 1]]
             /\ now' = now + 1
      BY <2>3, <3>1, <1>2 DEF SendTrash
    <3> QED BY <3>1, <3>2, <1>2, <1>4
  <2>4. CASE Confirm
    BY <2>4, <1>2 DEF Confirm
  <2> QED BY <2>1, <2>2, <2>3, <2>4
<1>6. sent' \subseteq Ids \X {"create", "delete"}
  <2>1. sent \subseteq Ids \X {"create", "delete"}
    BY DEF Shape, Typed
  <2>2. \A v \in {"create", "delete"} : Unsettled(IdOf(run.item), v) \subseteq Ids \X {"create", "delete"}
    BY <1>2 DEF Unsettled
  <2> QED BY <2>1, <2>2, SentAfter
<1>7. run' \in Rounds /\ faults' \in Nat /\ OneWrite' /\ run'.recs = run.recs
  <2>1. CASE Failed \/ Lost
    BY <2>1, <1>1, FailureType
  <2>2. CASE \E verb \in Verbs, c \in Ciphers, copy \in Copies : Written(verb, c, copy)
    BY <2>2, <1>1, WrittenType
  <2>3. CASE Given("confirm") /\ run.step = "trash"
    BY <2>3, <1>1, GivenType DEF Sending, Shape, OneWrite
  <2>4. CASE SendPut
    <3>1. Base.cipher \in Ciphers /\ remote[Base.cipher] \in Copies
      BY <2>4, <1>1, BaseType DEF SendPut, At
    <3> QED BY <2>4, <3>1, <1>2, <1>4, <2>1, <2>2 DEF SendPut
  <2>5. CASE SendPost
    BY <2>5, <1>2, <1>3, <2>1, <2>2 DEF SendPost
  <2>6. CASE SendTrash
    BY <2>6, <2>1, <2>3 DEF SendTrash, At
  <2>7. CASE Confirm
    <3>1. /\ Base.cipher \in Ciphers /\ remote[Base.cipher] \in Copies
          /\ run.seen[Base.cipher] \in Copies
      BY <2>7, <1>1, BaseType DEF Confirm, At
    <3> QED BY <2>7, <3>1, <2>1, <2>2 DEF Confirm, Verbs
  <2> QED BY <1>1, <2>4, <2>5, <2>6, <2>7
<1>8. Typed'
  BY <1>1, <1>5, <1>6, <1>7 DEF Shape, Typed
<1> QED BY <1>1, <1>7, <1>8 DEF Shape, Recorded

LEMMA ReturnShape == ASSUME Shape, Return PROVE Shape'
<1>1. /\ run' = [run EXCEPT !.phase = "commit"] /\ run.todo = {} /\ run.step = "none"
      /\ UNCHANGED <<World, receipt, remote, now, faults>>
  BY DEF Return, At, World, vault
<1>2. /\ run' \in Rounds /\ run'.phase = "commit" /\ run'.recs = run.recs
      /\ run'.batch = run.batch /\ run'.todo = run.todo /\ run'.acks = run.acks
      /\ run'.step = run.step
  BY <1>1 DEF Shape, Typed, Rounds, Phases
<1>3. OneWrite'
  BY <1>1, <1>2 DEF Shape, OneWrite, Batched, IdOf
<1> QED BY <1>1, <1>2, <1>3, RoundShape DEF Shape, Typed

(* The entry that an acknowledgement names. *)
LEMMA AckedItem ==
  ASSUME NEW d \in AckedIds
  PROVE  AckOf(d) \in Items /\ run.acks[AckOf(d)] # NoAck /\ run.acks[AckOf(d)].id = d
BY DEF AckedIds, AckOf, Acked

LEMMA CommitShape == ASSUME Shape, Commit PROVE Shape'
<1>1. run.phase = "commit" /\ UNCHANGED <<World, remote, now, faults>>
  BY DEF Commit, World
<1>2. CASE run' = Idle /\ UNCHANGED receipt
  BY <1>1, <1>2, IdleStep DEF Shape, Typed, Recorded
<1>3. CASE ~(run' = Idle /\ UNCHANGED receipt)
  <2>1. /\ \A i \in Acked : receipt[run.acks[i].id].item = i
        /\ receipt' = [d \in Ids |->
               IF d \in AckedIds
               THEN [receipt[d] EXCEPT !.stage = "committed",
                                       !.cipher = run.acks[AckOf(d)].cipher]
               ELSE receipt[d]]
        /\ run' = [run EXCEPT !.phase = "apply"]
    BY <1>3 DEF Commit
  <2>2. ASSUME NEW d \in Ids
        PROVE  receipt'[d] \in Receipts \cup {NoReceipt} /\ Names(receipt'[d])
    <3>1. CASE d \notin AckedIds
      BY <2>1, <3>1 DEF Shape, Typed, Recorded
    <3>2. CASE d \in AckedIds
      <4> DEFINE c == run.acks[AckOf(d)].cipher
      <4>1. AckOf(d) \in Acked /\ receipt[d].item = AckOf(d) /\ AckOf(d) \in Items
        BY <2>1, <3>2, AckedItem DEF Acked
      <4>2. receipt[d] \in Receipts
        BY <4>1, NamesAssumption DEF Shape, Typed, NoReceipt, Items
      <4>3. c \in Ciphers
        BY <4>1 DEF Acked, Shape, Typed, Rounds, Acks
      <4>4. receipt'[d] = [receipt[d] EXCEPT !.stage = "committed", !.cipher = c]
        BY <2>1, <3>2
      <4> HIDE DEF c
      <4>5. receipt'[d] \in Receipts /\ receipt'[d].cipher = c
        BY <4>2, <4>3, <4>4 DEF Receipts
      <4> QED BY <4>3, <4>5, NamesAssumption DEF Names, Bound
    <3> QED BY <3>1, <3>2
  <2>3. receipt' \in [Ids -> Receipts \cup {NoReceipt}]
    BY <2>1, <2>2
  <2>4. /\ run' \in Rounds /\ run'.phase = "apply" /\ run'.recs = run.recs
        /\ run'.batch = run.batch /\ run'.todo = run.todo /\ run'.acks = run.acks
        /\ run'.step = run.step
    BY <2>1 DEF Shape, Typed, Rounds, Phases
  <2>5. Typed'
    BY <1>1, <2>3, <2>4, StepType DEF Shape, Typed
  <2>6. OneWrite'
    BY <1>1, <2>4 DEF Shape, OneWrite, Batched, IdOf
  <2> QED BY <2>2, <2>4, <2>5, <2>6 DEF Shape, Recorded
<1> QED BY <1>2, <1>3

LEMMA RequeuedFinite == IsFiniteSet(Requeued) /\ Cardinality(Requeued) \in Nat
<1>1. Requeued \subseteq Items /\ IsFiniteSet(Items)
  BY NamesAssumption DEF Requeued, Items
<1> QED BY <1>1, FS_Subset, FS_CardinalityType

LEMMA ApplyShape == ASSUME Shape, Apply PROVE Shape'
<1>1. run.phase = "apply" /\ UNCHANGED <<receipt, remote, now, edits, others, faults>>
  BY DEF Apply
<1>2. CASE ~Applicable
  BY <1>1, <1>2, IdleStep DEF Apply, World, ghosts, Shape, Typed, Recorded
<1>3. CASE Applicable
  <2> DEFINE n == Cardinality(Requeued)
  <2>1. PICK fresh \in [Requeued -> nextId..(nextId + n - 1)] :
          queue' = [i \in Items |->
                 IF i \in Requeued THEN [id |-> fresh[i], verb |-> "delete"] ELSE NextEntry(i)]
    BY <1>3 DEF Apply
  <2>2. /\ nextId + n <= MaxIds + 1 /\ nextId' = nextId + n
        /\ local' = [i \in Items |-> Merged(i)] /\ conflicts' = Disagreements
        /\ sent' \subseteq sent
        /\ reported' = reported \cup {k.remote.text : k \in Disagreements}
        /\ run' = [run EXCEPT !.phase = "clear"]
    BY <1>3 DEF Apply
  <2>3. n \in Nat
    BY RequeuedFinite
  <2> HIDE DEF n
  <2>4. nextId' \in 1..(MaxIds + 1)
    BY <2>2, <2>3, BoundsAssumption DEF Shape, Typed
  <2>5. local' \in [Items -> ItemRecords]
    BY <2>2, MergedType DEF Shape
  <2>6. conflicts' \subseteq Conflicts
    <3>1. \A i \in Items : [item |-> i, remote |-> run.result[i], id |-> i] \in Conflicts
      BY DEF Conflicts, Shape, Typed, Rounds
    <3>2. run.found \subseteq Conflicts
      BY DEF Shape, Typed, Rounds
    <3> QED BY <2>2, <3>1, <3>2 DEF Disagreements
  <2>7. reported' \subseteq Nat
    BY <2>2, <2>6 DEF Conflicts, ItemRecords, Shape, Typed
  <2>8. queue' \in [Items -> Entries \cup {NoEntry}]
    <3>1. ASSUME NEW i \in Requeued PROVE [id |-> fresh[i], verb |-> "delete"] \in Entries
      <4>1. fresh[i] \in nextId..(nextId + n - 1)
        BY <2>1, <3>1
      <4>2. fresh[i] \in Ids
        BY <4>1, <2>2, <2>3, BoundsAssumption DEF Ids, Shape, Typed
      <4> QED BY <4>2 DEF Entries, Verbs
    <3>2. ASSUME NEW i \in Items PROVE NextEntry(i) \in Entries \cup {NoEntry}
      <4>1. queue[i] \in Entries \cup {NoEntry}
        BY DEF Shape, Typed
      <4>2. VerbOf(i) \in Verbs \cup {queue[i].verb}
        BY DEF VerbOf, Verbs
      <4> QED BY <4>1, <4>2 DEF NextEntry, Entries, Verbs
    <3> QED BY <2>1, <3>1, <3>2
  <2>9. /\ run' \in Rounds /\ run'.phase = "clear" /\ run'.recs = run.recs
        /\ run'.batch = run.batch /\ run'.todo = run.todo /\ run'.acks = run.acks
        /\ run'.step = run.step
    BY <2>2 DEF Shape, Typed, Rounds, Phases
  <2>10. Typed'
    BY <1>1, <2>2, <2>4, <2>5, <2>6, <2>7, <2>8, <2>9 DEF Shape, Typed
  <2>11. OneWrite' /\ Recorded'
    BY <1>1, <2>9 DEF Shape, OneWrite, Batched, IdOf, Recorded
  <2> QED BY <2>10, <2>11 DEF Shape
<1> QED BY <1>2, <1>3

LEMMA ClearShape == ASSUME Shape, Clear PROVE Shape'
<1>1. run' = Idle /\ UNCHANGED <<World, remote, now, faults>>
  BY DEF Clear, World
<1>2. receipt' \in [Ids -> Receipts \cup {NoReceipt}] /\ \A d \in Ids : Names(receipt'[d])
  BY DEF Clear, Shape, Typed, Recorded, Names, NoReceipt
<1> QED BY <1>1, <1>2, IdleStep DEF Shape, Typed

LEMMA StopShape == ASSUME Shape, Stop \/ Refuse PROVE Shape'
<1>1. run' = Idle /\ UNCHANGED <<World, receipt, remote, now>> /\ faults' \in Nat
  BY DEF Stop, Refuse, World, vault, Shape, Typed
<1> QED BY <1>1, IdleStep DEF Shape, Typed, Recorded

(* A user keeps the run and every receipt, or drops one that no unsettled     *)
(* write has.                                                                *)
Dropped(d) == receipt'[d] = NoReceipt /\ (Unsent(d) \/ \A s \in sent' : s[1] # d)

LEMMA UserCases ==
  ASSUME Typed, User
  PROVE  \/ \E i \in Items : Create(i) \/ Edit(i) \/ Delete(i) \/ Restore(i)
         \/ \E k \in conflicts : (KeepLocal(k) \/ UseRemote(k)) /\ k \in Conflicts
BY DEF User, Typed

LEMMA UserReceipts ==
  ASSUME Typed, User
  PROVE  /\ \A d \in Ids : receipt'[d] = receipt[d] \/ Dropped(d)
         /\ sent' \subseteq sent /\ run' = run
<1>1. CASE \E i \in Items : Create(i) \/ Edit(i) \/ Delete(i)
  BY <1>1 DEF Create, Edit, Delete, ghosts
<1>2. ASSUME NEW i \in Items, Restore(i)
      PROVE  /\ \A d \in Ids : receipt'[d] = receipt[d] \/ Dropped(d)
             /\ sent' \subseteq sent /\ run' = run
  <2>1. \/ receipt' = receipt
        \/ Unsent(queue[i].id) /\ receipt' = [receipt EXCEPT ![queue[i].id] = NoReceipt]
    BY <1>2 DEF Restore
  <2>2. run' = run /\ sent' = sent
    BY <1>2 DEF Restore, ghosts
  <2> QED BY <2>1, <2>2 DEF Dropped, Typed
<1>3. ASSUME NEW k \in conflicts, Decide(k)
      PROVE  (\A d \in Ids : receipt'[d] = receipt[d] \/ Dropped(d)) /\ sent' \subseteq sent
  BY <1>3 DEF Decide, Dropped
<1>4. ASSUME NEW k \in conflicts, KeepLocal(k) \/ UseRemote(k)
      PROVE  Decide(k) /\ run' = run
  BY <1>4 DEF KeepLocal, UseRemote
<1> QED BY <1>1, <1>2, <1>3, <1>4, UserCases

LEMMA OutsideShape == ASSUME Shape, User \/ \E c \in Ciphers : OtherDevice(c) PROVE Shape'
<1>1. CASE User
  <2>1. Typed'
    BY <1>1, EditType, DecideType, UserCases DEF Shape
  <2>2. run' = run /\ \A d \in Ids : Names(receipt'[d])
    BY <1>1, UserReceipts DEF Shape, Recorded, Names, NoReceipt, Dropped
  <2> QED BY <2>1, <2>2 DEF Shape, OneWrite, Recorded, Batched, IdOf, Base
<1>2. ASSUME NEW c \in Ciphers, OtherDevice(c) PROVE Shape'
  <2>1. /\ now' \in Nat /\ others' \in Nat
        /\ UNCHANGED <<local, queue, receipt, conflicts, run, nextId, edits, faults, sent, reported>>
    BY <1>2 DEF OtherDevice, vault, ghosts, Shape, Typed
  <2>2. remote' \in [Ciphers -> Copies]
    <3>1. remote \in [Ciphers -> Copies] /\ remote[c] \in Copies
      BY DEF Shape, Typed
    <3>2. \E x \in Copies : remote' = [remote EXCEPT ![c] = x]
      BY <3>1, <2>1, <1>2 DEF OtherDevice, Copies
    <3> QED BY <3>1, <3>2
  <2>3. Typed'
    BY <2>1, <2>2 DEF Shape, Typed
  <2> QED BY <2>1, <2>3 DEF Shape, OneWrite, Recorded, Batched, IdOf, Base
<1> QED BY <1>1, <1>2

LEMMA NextShape == ASSUME Shape, [Next]_vars PROVE Shape'
<1>1. CASE Next
  BY <1>1, OutsideShape, StopShape, ReadShape, PrepareShape, FetchShape, TakeShape, ReviveShape,
     MarkShape, SendShape, ReturnShape, CommitShape, ApplyShape, ClearShape DEF Next, Sync
<1>2. CASE UNCHANGED vars
  BY <1>2 DEF vars, vault, ghosts, Shape, Typed, OneWrite, Recorded, Batched, IdOf, Base
<1> QED BY <1>1, <1>2

(* Every variable keeps its type. *)
THEOREM TypeCorrect == Spec => []TypeOK
<1>1. Shape => TypeOK
  BY DEF Shape, Typed, TypeOK, Rounds, Phases
<1> QED BY <1>1, InitShape, NextShape, PTL DEF Spec

-----------------------------------------------------------------------------
(* Ids: those of the queue and of the batch are unique, and never reused.    *)
LEMMA RunStep ==
  ASSUME Shape, [Next]_vars
  PROVE  \/ Read
         \/ run' = Idle
         \/ /\ run'.batch = run.batch /\ run'.snap = run.snap /\ run'.deferred = run.deferred
            /\ \/ Prepare
               \/ /\ run'.recs = run.recs
                  /\ run'.phase = run.phase \/ run.phase \in {"ready", "write", "commit", "apply"}
<1>1. CASE User \/ (\E c \in Ciphers : OtherDevice(c)) \/ UNCHANGED vars
  BY <1>1, UserReceipts DEF Shape, OtherDevice, vars
<1>2. CASE Stop \/ Refuse \/ Clear
  BY <1>2, Zenon DEF Stop, Refuse, Clear
<1>3. CASE Prepare
  <2>1. ASSUME NEW recs, run' = [run EXCEPT !.phase = "ready", !.recs = recs]
        PROVE  run'.batch = run.batch /\ run'.snap = run.snap /\ run'.deferred = run.deferred
    BY <2>1 DEF Shape, Typed, Rounds
  <2>2. run' = Idle \/ \E recs : run' = [run EXCEPT !.phase = "ready", !.recs = recs]
    BY <1>3, Zenon DEF Prepare
  <2> QED BY <1>3, <2>1, <2>2
<1>4. CASE Fetch
  BY <1>4 DEF Fetch, Shape, Typed, Rounds
<1>5. CASE Take
  BY <1>5 DEF Take, Shape, Typed, Rounds
<1>6. CASE Return \/ Commit \/ Apply
  BY <1>6 DEF Return, Commit, Apply, At, Shape, Typed, Rounds
<1>7. CASE Revive \/ Mark \/ SendPut \/ SendPost \/ SendTrash \/ Confirm
  <2>1. \/ GiveUp \/ \E next : Given(next)
        \/ \E verb, c, copy : Written(verb, c, copy)
        \/ run' = [run EXCEPT !.step = "mark", !.known = now']
    BY <1>7, Zenon DEF Revive, Mark, SendPut, SendPost, SendTrash, Confirm, Failed, Lost
  <2> QED BY <2>1 DEF GiveUp, Given, Written, Shape, Typed, Rounds
<1> QED BY <1>1, <1>2, <1>3, <1>4, <1>5, <1>6, <1>7 DEF Next, Sync

(* An entry of the queue keeps its id; a new one gets a new id. *)
KeepIds == /\ nextId <= nextId'
           /\ \A i \in Items : queue'[i] # NoEntry =>
                \/ queue[i] # NoEntry /\ queue'[i].id = queue[i].id
                \/ nextId <= queue'[i].id /\ queue'[i].id < nextId'
           /\ \A i, j \in Items : queue'[i] # NoEntry /\ queue'[i].id = queue'[j].id
                /\ nextId <= queue'[i].id => i = j

LEMMA EntryIds ==
  ASSUME Typed, NEW i \in Items
  PROVE  /\ queue[i].id \in Nat /\ run.batch[i].id \in Nat /\ nextId \in Nat
         /\ queue[i] # NoEntry <=> queue[i].id \in Ids
         /\ queue[i] # NoEntry <=> queue[i].id # 0
         /\ run.batch[i] # NoEntry <=> run.batch[i].id \in Ids
         /\ run.batch[i] # NoEntry <=> run.batch[i].id # 0
<1>1. queue[i] \in Entries \cup {NoEntry} /\ run.batch[i] \in Entries \cup {NoEntry}
  BY DEF Typed, Rounds
<1>2. \A e \in Entries \cup {NoEntry} :
        /\ e.id \in Nat
        /\ e # NoEntry <=> e.id \in Ids
        /\ e # NoEntry <=> e.id # 0
  BY BoundsAssumption, EmptyType DEF Entries, NoEntry, Ids
<1> QED BY <1>1, <1>2, BoundsAssumption DEF Typed

LEMMA EnqueueIds ==
  ASSUME Typed, Numbered(queue), NEW i \in Items, NEW item, NEW verb \in Verbs, nextId \in Ids,
         Enqueue(i, item, verb)
  PROVE  KeepIds
<1>1. /\ queue' = [queue EXCEPT ![i] = Queued(queue[i], item, verb)]
      /\ nextId' = IF queue[i] = NoEntry THEN nextId + 1 ELSE nextId
  BY DEF Enqueue
<1>2. \/ Queued(queue[i], item, verb) = NoEntry
      \/ Queued(queue[i], item, verb).id = IF queue[i] = NoEntry THEN nextId ELSE queue[i].id
  BY DEF Queued
<1>3. nextId \in Nat /\ \A j \in Items : queue[j].id \in Nat
  BY EntryIds
<1>4. ASSUME NEW j \in Items, j # i PROVE queue'[j] = queue[j]
  BY <1>1, <1>4 DEF Typed
<1>5. queue'[i] = Queued(queue[i], item, verb)
  BY <1>1 DEF Typed
<1>6. \A j \in Items : queue[j] # NoEntry => queue[j].id < nextId
  BY DEF Numbered
<1>7. NoEntry.id = 0 /\ 0 < nextId
  BY BoundsAssumption DEF NoEntry, Ids
<1>8. ASSUME NEW j \in Items, queue'[j] # NoEntry
      PROVE  \/ queue[j] # NoEntry /\ queue'[j].id = queue[j].id
             \/ j = i /\ queue'[j].id = nextId /\ nextId' = nextId + 1
  BY <1>1, <1>2, <1>4, <1>5, <1>8
<1>9. ASSUME NEW j \in Items, NEW k \in Items, queue'[j] # NoEntry,
             queue'[j].id = queue'[k].id, nextId <= queue'[j].id
      PROVE  j = k
  <2>1. j = i
    BY <1>3, <1>6, <1>8, <1>9
  <2>2. k = i
    BY <1>3, <1>6, <1>7, <1>8, <1>9
  <2> QED BY <2>1, <2>2
<1>10. nextId <= nextId'
  BY <1>1, <1>3
<1> QED BY <1>3, <1>8, <1>9, <1>10 DEF KeepIds

LEMMA SameIds ==
  ASSUME Typed, Numbered(queue), nextId' = nextId, \A i \in Items : queue'[i] \in {queue[i], NoEntry}
  PROVE  KeepIds
<1>1. nextId \in Nat /\ \A j \in Items : queue[j].id \in Nat
  BY EntryIds, BoundsAssumption DEF Typed
<1>2. \A j \in Items : queue[j] # NoEntry => queue[j].id < nextId
  BY DEF Numbered
<1>3. \A j \in Items : queue'[j] # NoEntry => queue[j] # NoEntry /\ queue'[j].id = queue[j].id
  OBVIOUS
<1> QED BY <1>1, <1>2, <1>3 DEF KeepIds

LEMMA UserIds == ASSUME Typed, Numbered(queue), User PROVE KeepIds
<1>1. ASSUME NEW i \in Items, Create(i) \/ Edit(i) \/ Delete(i) PROVE KeepIds
  BY <1>1, EnqueueIds DEF Create, Edit, Delete, UserActs, Verbs
<1>2. ASSUME NEW i \in Items, Restore(i), queue[i].verb # "delete" PROVE KeepIds
  BY <1>2, EnqueueIds DEF Restore, UserActs, Verbs
<1>3. ASSUME NEW i \in Items, Restore(i), queue[i].verb = "delete" PROVE KeepIds
  <2>1. nextId' = nextId /\ queue' \in {queue, [queue EXCEPT ![i] = NoEntry]}
    BY <1>3 DEF Restore
  <2>2. \A j \in Items : queue'[j] \in {queue[j], NoEntry}
    BY <2>1 DEF Typed
  <2> QED BY <2>1, <2>2, SameIds
<1>4. ASSUME NEW k \in Conflicts, KeepLocal(k) PROVE KeepIds
  <2> DEFINE kept == [local[k.item] EXCEPT
               !.cipher = k.remote.cipher, !.rev = k.remote.at, !.basis = k.remote.basis]
             verb == IF Trash(kept) THEN "delete" ELSE "update"
  <2>1. Enqueue(k.item, kept, verb) /\ nextId \in Ids /\ verb \in Verbs
    BY <1>4 DEF KeepLocal, Verbs, Decide, UserActs
  <2> HIDE DEF kept, verb
  <2>2. k.item \in Items
    BY DEF Conflicts
  <2> QED BY <2>1, <2>2, EnqueueIds
<1>5. ASSUME NEW k \in Conflicts, UseRemote(k) PROVE KeepIds
  <2>1. nextId' = nextId /\ queue' = [queue EXCEPT ![k.item] = NoEntry]
    BY <1>5 DEF UseRemote
  <2>2. \A j \in Items : queue'[j] \in {queue[j], NoEntry}
    BY <2>1 DEF Typed
  <2> QED BY <2>1, <2>2, SameIds
<1> QED BY <1>1, <1>2, <1>3, <1>4, <1>5, UserCases

LEMMA NextEntryId ==
  ASSUME NEW i \in Items, NextEntry(i) # NoEntry
  PROVE  NextEntry(i).id = queue[i].id
BY DEF NextEntry, VerbOf

LEMMA ApplyIds == ASSUME Typed, Numbered(queue), Apply PROVE KeepIds
<1>1. CASE ~Applicable
  BY <1>1, SameIds DEF Apply
<1>2. CASE Applicable
  <2> DEFINE n == Cardinality(Requeued)
  <2>1. nextId' = nextId + n
    BY <1>2 DEF Apply
  <2>2. PICK fresh \in [Requeued -> nextId..(nextId + n - 1)] :
          /\ \A i, j \in Requeued : i # j => fresh[i] # fresh[j]
          /\ queue' = [i \in Items |->
                 IF i \in Requeued THEN [id |-> fresh[i], verb |-> "delete"] ELSE NextEntry(i)]
    BY <1>2 DEF Apply
  <2>3. n \in Nat /\ nextId \in Nat
    BY RequeuedFinite, EntryIds, BoundsAssumption DEF Typed
  <2> HIDE DEF n
  <2>4. nextId <= nextId' /\ nextId' \in Nat
    BY <2>1, <2>3
  <2>5. ASSUME NEW i \in Requeued
        PROVE  queue'[i].id = fresh[i] /\ nextId <= queue'[i].id /\ queue'[i].id < nextId'
    <3>1. i \in Items /\ fresh[i] \in nextId..(nextId + n - 1)
      BY <2>2 DEF Requeued
    <3>2. queue'[i].id = fresh[i]
      BY <2>2, <3>1
    <3> QED BY <2>1, <2>3, <3>1, <3>2
  <2>6. ASSUME NEW i \in Items, i \notin Requeued, queue'[i] # NoEntry
        PROVE  queue[i] # NoEntry /\ queue'[i].id = queue[i].id /\ queue[i].id < nextId
    <3>1. queue'[i] = NextEntry(i)
      BY <2>2, <2>6
    <3>2. queue[i] # NoEntry
      BY <2>6, <3>1 DEF NextEntry
    <3> QED BY <2>6, <3>1, <3>2, NextEntryId DEF Numbered
  <2>7. \A i \in Items : i \notin Requeued /\ queue'[i] = NoEntry => queue'[i].id = 0
    BY DEF NoEntry
  <2>8. \A i \in Items : queue[i].id \in Nat
    BY EntryIds
  <2>9. ASSUME NEW i \in Items, NEW j \in Items, queue'[i] # NoEntry,
               queue'[i].id = queue'[j].id, nextId <= queue'[i].id
        PROVE  i = j
    <3>1. i \in Requeued
      BY <2>3, <2>6, <2>8, <2>9
    <3>2. j \in Requeued
      <4>1. nextId \in 1..(MaxIds + 1)
        BY DEF Typed
      <4>2. 0 < nextId
        BY <4>1, BoundsAssumption
      <4> QED BY <2>3, <2>6, <2>7, <2>8, <2>9, <4>2
    <3> QED BY <2>2, <2>5, <2>9, <3>1, <3>2
  <2> QED BY <2>4, <2>5, <2>6, <2>9 DEF KeepIds
<1> QED BY <1>1, <1>2

LEMMA NextIds == ASSUME Shape, Numbered(queue), [Next]_vars PROVE KeepIds
<1>1. CASE User
  BY <1>1, UserIds DEF Shape
<1>2. CASE Apply
  BY <1>2, ApplyIds DEF Shape
<1>3. CASE ~User /\ ~Apply
  <2>1. UNCHANGED <<queue, nextId>>
    BY <1>3, Zenon DEF Next, Sync, OtherDevice, Read, Refuse, Prepare, Fetch, Take, Revive, Mark,
       SendPut, SendPost, SendTrash, Confirm, Return, Commit, Clear, Stop, vault, vars
  <2> QED BY <2>1, SameIds DEF Shape
<1> QED BY <1>1, <1>2, <1>3

LEMMA BatchAfter ==
  ASSUME Shape, [Next]_vars, NEW i \in Items
  PROVE  run'.batch[i] \in {run.batch[i], queue[i], NoEntry}
<1>1. CASE Read
  <2>1. PICK chosen \in SUBSET Items : run' = [Idle EXCEPT
          !.phase = "read", !.snap = local, !.recs = receipt',
          !.batch = [j \in Items |-> IF j \in chosen THEN queue[j] ELSE NoEntry],
          !.deferred = {queue[j].id : j \in Items \ chosen} \ {0}]
    BY <1>1 DEF Read
  <2> QED BY <2>1 DEF Idle
<1>2. CASE run' = Idle
  BY <1>2 DEF Idle
<1> QED BY <1>1, <1>2, RunStep

LEMMA NextNumbered ==
  ASSUME Shape, Numbered(queue), Numbered(run.batch), [Next]_vars
  PROVE  /\ Numbered(queue)' /\ Numbered(run.batch)' /\ nextId <= nextId'
         /\ \A d \in QueuedIds' : d < nextId => d \in QueuedIds
         /\ \A d \in BatchIds' : d \in QueuedIds \cup BatchIds
<1>1. Typed' /\ KeepIds /\ nextId \in Nat /\ nextId' \in Nat
  BY NextShape, NextIds, BoundsAssumption DEF Shape, Typed
<1>2. \A i \in Items : /\ queue[i].id \in Nat /\ run.batch[i].id \in Nat
                       /\ queue'[i].id \in Nat /\ run'.batch[i].id \in Nat
                       /\ queue[i] # NoEntry <=> queue[i].id # 0
                       /\ run.batch[i] # NoEntry <=> run.batch[i].id # 0
                       /\ queue'[i] # NoEntry <=> queue'[i].id # 0
                       /\ run'.batch[i] # NoEntry <=> run'.batch[i].id # 0
  <2>1. \A i \in Items : /\ queue'[i].id \in Nat /\ run'.batch[i].id \in Nat
                         /\ queue'[i] # NoEntry <=> queue'[i].id # 0
                         /\ run'.batch[i] # NoEntry <=> run'.batch[i].id # 0
    <3>1. \A i \in Items : queue'[i] \in Entries \cup {NoEntry} /\ run'.batch[i] \in Entries \cup {NoEntry}
      BY <1>1 DEF Typed, Rounds
    <3>2. \A e \in Entries \cup {NoEntry} : e.id \in Nat /\ (e # NoEntry <=> e.id # 0)
      BY BoundsAssumption, EmptyType DEF Entries, NoEntry, Ids
    <3> QED BY <3>1, <3>2
  <2> QED BY <2>1, EntryIds DEF Shape
<1>3. \A i \in Items : queue[i] # NoEntry => queue[i].id < nextId
  BY DEF Numbered
<1>4. \A i \in Items : queue'[i] # NoEntry =>
         \/ queue[i] # NoEntry /\ queue'[i].id = queue[i].id
         \/ nextId <= queue'[i].id /\ queue'[i].id < nextId'
  BY <1>1 DEF KeepIds
<1>5. nextId <= nextId'
  BY <1>1 DEF KeepIds
<1>6. Numbered(queue)'
  <2>1. ASSUME NEW i \in Items, queue'[i] # NoEntry PROVE queue'[i].id < nextId'
    BY <1>1, <1>2, <1>3, <1>4, <1>5, <2>1
  <2>2. ASSUME NEW i \in Items, NEW j \in Items, queue'[i] # NoEntry, queue'[i].id = queue'[j].id
        PROVE  i = j
    <3>1. CASE nextId <= queue'[i].id
      BY <1>1, <2>2, <3>1 DEF KeepIds
    <3>2. CASE ~(nextId <= queue'[i].id)
      <4>1. queue'[j] # NoEntry /\ queue[i] # NoEntry /\ queue'[i].id = queue[i].id
        BY <1>2, <1>4, <2>2, <3>2
      <4>2. queue'[j].id = queue[j].id
        BY <1>4, <2>2, <3>2, <4>1
      <4> QED BY <2>2, <4>1, <4>2 DEF Numbered
    <3> QED BY <3>1, <3>2
  <2> QED BY <2>1, <2>2 DEF Numbered
<1>7. Numbered(run.batch)'
  <2>1. \A i \in Items : run'.batch[i] \in {run.batch[i], queue[i], NoEntry}
    BY BatchAfter
  <2>2. ASSUME NEW i \in Items, run'.batch[i] # NoEntry PROVE run'.batch[i].id < nextId'
    <3>1. run'.batch[i].id < nextId
      BY <2>1, <2>2 DEF Numbered
    <3> QED BY <1>1, <1>2, <1>5, <3>1
  <2>3. ASSUME NEW i \in Items, NEW j \in Items, run'.batch[i] # NoEntry,
               run'.batch[i].id = run'.batch[j].id
        PROVE  i = j
    <3>1. CASE Read
      <4>1. \A k \in Items : run'.batch[k] \in {queue[k], NoEntry}
        BY <3>1 DEF Read, Idle
      <4>2. run'.batch[j] # NoEntry
        BY <1>2, <2>3
      <4> QED BY <2>3, <4>1, <4>2 DEF Numbered
    <3>2. CASE run' = Idle
      BY <2>3, <3>2 DEF Idle
    <3>3. CASE run'.batch = run.batch
      BY <2>3, <3>3 DEF Numbered
    <3> QED BY <3>1, <3>2, <3>3, RunStep
  <2> QED BY <2>2, <2>3 DEF Numbered
<1>8. \A d \in QueuedIds' : d < nextId => d \in QueuedIds
  <2> SUFFICES ASSUME NEW i \in Items, queue'[i].id # 0, queue'[i].id < nextId
               PROVE  queue'[i].id \in QueuedIds
    BY DEF QueuedIds
  <2>1. queue'[i].id = queue[i].id
    BY <1>1, <1>2, <1>4
  <2> QED BY <2>1 DEF QueuedIds
<1>9. \A d \in BatchIds' : d \in QueuedIds \cup BatchIds
  <2> SUFFICES ASSUME NEW i \in Items, run'.batch[i] # NoEntry
               PROVE  run'.batch[i].id \in QueuedIds \cup BatchIds
    BY DEF BatchIds, Batched, IdOf
  <2>1. CASE run'.batch[i] = run.batch[i]
    BY <2>1 DEF BatchIds, Batched, IdOf
  <2>2. CASE run'.batch[i] = queue[i]
    BY <1>2, <2>2 DEF QueuedIds
  <2> QED BY <2>1, <2>2, BatchAfter
<1> QED BY <1>5, <1>6, <1>7, <1>8, <1>9

-----------------------------------------------------------------------------
(* The receipts that a round prepares agree with its batch.                  *)
LEMMA SameRecords ==
  ASSUME run'.batch = run.batch, run'.recs = run.recs
  PROVE  /\ Batched' = Batched /\ BatchIds' = BatchIds
         /\ \A i \in Items : IdOf(i)' = IdOf(i) /\ RecordOf(i)' = RecordOf(i)
                             /\ Agrees(i)' = Agrees(i)
BY DEF Batched, BatchIds, IdOf, RecordOf, Agrees

LEMMA Prepares ==
  ASSUME Shape, Numbered(run.batch), Followed, Prepare, run' # Idle, NEW i \in Batched
  PROVE  /\ \/ run'.recs[IdOf(i)] = run.recs[IdOf(i)] /\ run.recs[IdOf(i)] # NoReceipt
            \/ run'.recs[IdOf(i)] = Prepared(i)
         /\ receipt'[IdOf(i)] \in {NoReceipt, run'.recs[IdOf(i)]}
<1> DEFINE needed == {j \in Batched : NeedsReceipt(j)}
           recs == IF needed = {} THEN run.recs ELSE receipt'
<1>1. /\ run' = IF \A j \in Batched : recs[run.batch[j].id] # NoReceipt
                THEN [run EXCEPT !.phase = "ready", !.recs = recs] ELSE Idle
      /\ receipt' = [d \in Ids |->
          IF \E j \in needed : run.batch[j].id = d
          THEN Prepared(CHOOSE j \in needed : run.batch[j].id = d) ELSE receipt[d]]
  BY Zenon DEF Prepare
<1>2. run.phase = "read"
  BY DEF Prepare
<1>3. i \in Items /\ IdOf(i) \in Ids /\ Same(IdOf(i))
  BY <1>2, RecordType DEF Shape, Batched, Followed
<1>4. recs[IdOf(i)] # NoReceipt
  BY <1>1 DEF IdOf
<1>5. run'.recs = recs
  <2> HIDE DEF recs
  <2>1. run' = [run EXCEPT !.phase = "ready", !.recs = recs]
    BY <1>1
  <2> QED BY <2>1 DEF Shape, Typed, Rounds
<1>6. CASE needed = {}
  <2>1. receipt'[IdOf(i)] = receipt[IdOf(i)]
    BY <1>1, <1>3, <1>6
  <2> QED BY <1>3, <1>4, <1>5, <1>6, <2>1 DEF Same
<1>7. CASE needed # {}
  <2>1. CASE i \in needed
    <3>1. \A j \in needed : run.batch[j].id = IdOf(i) => j = i
      BY DEF Numbered, Batched, IdOf
    <3>2. (CHOOSE j \in needed : run.batch[j].id = IdOf(i)) = i
      BY <2>1, <3>1 DEF IdOf
    <3>3. receipt'[IdOf(i)] = Prepared(i)
      BY <1>1, <1>3, <2>1, <3>2 DEF IdOf
    <3> QED BY <1>5, <1>7, <3>3
  <2>2. CASE i \notin needed
    <3>1. \A j \in needed : run.batch[j].id # IdOf(i)
      BY <2>2 DEF Numbered, Batched, IdOf
    <3>2. receipt'[IdOf(i)] = receipt[IdOf(i)]
      BY <1>1, <1>3, <3>1
    <3> QED BY <1>3, <1>4, <1>5, <1>7, <3>2 DEF Same
  <2> QED BY <2>1, <2>2
<1> QED BY <1>6, <1>7

LEMMA NextAgreed ==
  ASSUME Shape, Numbered(run.batch), Agreed, Followed, [Next]_vars
  PROVE  Agreed'
<1>1. CASE Read
  BY <1>1 DEF Read, Idle, Agreed
<1>2. CASE run' = Idle
  BY <1>2 DEF Idle, Agreed
<1>3. CASE Prepare /\ run' # Idle
  <2>1. run'.batch = run.batch /\ run'.snap = run.snap
    BY <1>3, RunStep DEF Prepare, Read
  <2>2. \A i \in Batched : Agrees(i) /\ run.snap[i] # NoItem
    BY <1>3 DEF Prepare
  <2> SUFFICES ASSUME NEW i \in Batched
               PROVE  (RecordOf(i) # NoReceipt /\ Agrees(i) /\ run.snap[i] # NoItem)'
    BY <2>1 DEF Agreed, Batched
  <2>3. \/ run'.recs[IdOf(i)] = run.recs[IdOf(i)] /\ run.recs[IdOf(i)] # NoReceipt
        \/ run'.recs[IdOf(i)] = Prepared(i)
    BY <1>3, Prepares
  <2>4. Prepared(i) # NoReceipt /\ Prepared(i).item = i /\ Prepared(i).verb = run.batch[i].verb
    BY DEF Prepared, NoReceipt
  <2>5. i \in Batched' /\ IdOf(i)' = IdOf(i)
    BY <2>1 DEF Batched, IdOf
  <2>6. RecordOf(i)' = run'.recs[IdOf(i)] /\ RecordOf(i) = run.recs[IdOf(i)]
    BY <2>1, <2>5 DEF RecordOf, IdOf
  <2> QED BY <2>1, <2>2, <2>3, <2>4, <2>6 DEF Agrees
<1>4. CASE /\ run'.batch = run.batch /\ run'.snap = run.snap /\ run'.recs = run.recs
           /\ run'.phase = run.phase \/ run.phase \in {"ready", "write", "commit", "apply"}
  <2>1. Batched' = Batched /\ \A i \in Items : RecordOf(i)' = RecordOf(i) /\ Agrees(i)' = Agrees(i)
    BY <1>4, SameRecords
  <2>2. Batched \subseteq Items
    BY DEF Batched
  <2> HIDE DEF Batched
  <2> QED BY <1>4, <2>1, <2>2 DEF Agreed
<1> QED BY <1>1, <1>2, <1>3, <1>4, RunStep

-----------------------------------------------------------------------------
(* What becomes of a receipt.                                                *)
LEMMA ReceiptAfter ==
  ASSUME Shape, [Next]_vars, NEW d \in Ids
  PROVE  \/ receipt'[d] = receipt[d]
         \/ User /\ Dropped(d)
         \/ Read /\ receipt'[d] = NoReceipt /\ d \notin QueuedIds
         \/ Prepare /\ \E i \in Batched : IdOf(i) = d /\ NeedsReceipt(i) /\ receipt'[d] = Prepared(i)
         \/ /\ Mark /\ d = IdOf(run.item) /\ receipt[d] # NoReceipt
            /\ receipt'[d] = Marked(receipt[d])
         \/ /\ Commit /\ receipt'[d].stage = "committed" /\ receipt'[d].verb = receipt[d].verb
         \/ Clear /\ d \in AckedIds /\ receipt'[d] = NoReceipt
<1>1. CASE User
  BY <1>1, UserReceipts DEF Shape
<1>2. CASE Read
  BY <1>2 DEF Read, Orphan
<1>3. CASE Prepare
  <2> DEFINE needed == {i \in Batched : NeedsReceipt(i)}
  <2>1. receipt' = [e \in Ids |->
          IF \E i \in needed : run.batch[i].id = e
          THEN Prepared(CHOOSE i \in needed : run.batch[i].id = e) ELSE receipt[e]]
    BY <1>3, Zenon DEF Prepare
  <2> QED BY <1>3, <2>1 DEF IdOf
<1>4. CASE Mark
  BY <1>4 DEF Mark, IdOf, Shape, Typed
<1>5. CASE Commit
  <2>1. receipt'[d] = receipt[d]
        \/ receipt'[d] = [receipt[d] EXCEPT !.stage = "committed", !.cipher = run.acks[AckOf(d)].cipher]
    BY <1>5 DEF Commit
  <2>2. receipt[d] \in Receipts \cup {NoReceipt}
    BY DEF Shape, Typed
  <2> QED BY <1>5, <2>1, <2>2 DEF Receipts, NoReceipt
<1>6. CASE Clear
  BY <1>6 DEF Clear
<1>7. CASE ~(User \/ Read \/ Prepare \/ Mark \/ Commit \/ Clear)
  <2>1. UNCHANGED receipt
    BY <1>7, Zenon DEF Next, Sync, OtherDevice, Refuse, Fetch, Take, Revive,
       SendPut, SendPost, SendTrash, Confirm, Return, Apply, Stop, vault, vars
  <2> QED BY <2>1
<1> QED BY <1>1, <1>2, <1>3, <1>4, <1>5, <1>6, <1>7

(* What becomes of the writes of a round. *)
LEMMA WritingAfter ==
  ASSUME Shape, [Next]_vars, run'.phase = "write"
  PROVE  \/ run' = run /\ sent' \subseteq sent /\ (User \/ UNCHANGED receipt)
         \/ /\ Fetch /\ run'.todo = Writes(remote) /\ run'.step = "none" /\ UNCHANGED <<receipt, sent>>
            /\ run'.result = [i \in Items |-> Settled(i, remote)]
         \/ /\ Take /\ run'.item \in run.todo /\ run'.todo = run.todo \ {run'.item}
            /\ run'.step \in {"revive", "mark"} /\ run'.result = run.result
            /\ run.step = "none" /\ UNCHANGED <<receipt, sent>>
         \/ /\ run.step # "none" /\ run.phase = "write" /\ run'.todo = run.todo
            /\ \A i \in Items : i # run.item => run'.result[i] = run.result[i]
            /\ \/ run'.step = "none" /\ UNCHANGED receipt
               \/ run'.item = run.item /\ run'.result = run.result /\ run'.step = "mark"
                    /\ Revive /\ run.step = "revive" /\ UNCHANGED receipt
               \/ run'.item = run.item /\ run'.result = run.result /\ run'.step \in Sending
                    /\ Mark /\ run.step = "mark" /\ receipt[IdOf(run.item)] # NoReceipt
                    /\ receipt'[IdOf(run.item)] = Marked(receipt[IdOf(run.item)])
               \/ run'.item = run.item /\ run'.result = run.result /\ run'.step = "confirm"
                    /\ SendTrash /\ run.step = "trash" /\ UNCHANGED receipt
<1>1. CASE User \/ (\E c \in Ciphers : OtherDevice(c)) \/ UNCHANGED vars
  BY <1>1, UserReceipts DEF Shape, OtherDevice, vars, ghosts, vault
<1>2. CASE Fetch
  <2>1. run' = [run EXCEPT
          !.phase = "write", !.seen = remote,
          !.acks = [i \in Items |-> Recovered(i, remote)],
          !.result = [i \in Items |-> Settled(i, remote)],
          !.found = {Against(i, remote) : i \in Disputed(remote)},
          !.todo = Writes(remote)]
        /\ UNCHANGED <<receipt, sent>> /\ run.step = "none"
    BY <1>2 DEF Fetch, vault, ghosts, Shape, OneWrite
  <2> QED BY <1>2, <2>1 DEF Shape, Typed, Rounds
<1>3. CASE Take
  BY <1>3 DEF Take, At, vault, ghosts, Shape, Typed, Rounds
<1>4. CASE ~(User \/ (\E c \in Ciphers : OtherDevice(c)) \/ UNCHANGED vars \/ Fetch \/ Take)
  <2>1. CASE Read \/ Refuse \/ Prepare \/ Return \/ Commit \/ Apply \/ Clear \/ Stop
    <3>1. CASE run' = Idle \/ Read
      <4>1. Read => run'.phase = "read"
        BY DEF Read, Idle
      <4> QED BY <3>1, <4>1 DEF Idle
    <3>2. CASE run' # Idle /\ Prepare
      <4>1. \E recs : run' = [run EXCEPT !.phase = "ready", !.recs = recs]
        BY <3>2, Zenon DEF Prepare
      <4> QED BY <4>1 DEF Shape, Typed, Rounds
    <3>3. CASE run' # Idle /\ (Return \/ Commit \/ Apply)
      BY <3>3 DEF Return, Commit, Apply, Shape, Typed, Rounds
    <3> QED BY <2>1, <3>1, <3>2, <3>3 DEF Refuse, Clear, Stop
  <2>2. CASE Revive \/ Mark \/ SendPut \/ SendPost \/ SendTrash \/ Confirm
    <3>1. run.phase = "write" /\ run.step # "none"
      BY <2>2 DEF Revive, Mark, SendPut, SendPost, SendTrash, Confirm, At
    <3>2. ASSUME GiveUp PROVE /\ run'.todo = run.todo /\ run'.step = "none"
                              /\ run'.result = run.result
      BY <3>2 DEF GiveUp, Shape, Typed, Rounds
    <3>3. ASSUME NEW verb, NEW c, NEW copy, Written(verb, c, copy)
          PROVE  /\ run'.todo = run.todo /\ run'.step = "none"
                 /\ \A i \in Items : i # run.item => run'.result[i] = run.result[i]
      BY <3>3 DEF Written, Shape, Typed, Rounds
    <3>4. ASSUME NEW next, Given(next)
          PROVE  /\ run'.todo = run.todo /\ run'.step = next /\ run'.item = run.item
                 /\ run'.result = run.result
      BY <3>4 DEF Given, Shape, Typed, Rounds
    <3>5. CASE SendPut \/ SendPost \/ Confirm
      <4>1. (GiveUp \/ \E verb, c, copy : Written(verb, c, copy)) /\ UNCHANGED receipt
        BY <3>5, Zenon DEF SendPut, SendPost, Confirm, Failed, Lost, vault
      <4> QED BY <3>1, <3>2, <3>3, <4>1
    <3>6. CASE SendTrash
      <4>1. run.step = "trash" /\ (GiveUp \/ Given("confirm")) /\ UNCHANGED receipt
        BY <3>6, Zenon DEF SendTrash, Failed, Lost, At, vault
      <4> QED BY <3>1, <3>2, <3>4, <3>6, <4>1
    <3>7. CASE Revive
      <4>1. /\ run.step = "revive" /\ UNCHANGED receipt
            /\ GiveUp \/ run' = [run EXCEPT !.step = "mark", !.known = now']
        BY <3>7, Zenon DEF Revive, Failed, Lost, At, vault
      <4>2. ASSUME run' = [run EXCEPT !.step = "mark", !.known = now']
            PROVE  /\ run'.todo = run.todo /\ run'.step = "mark" /\ run'.item = run.item
                   /\ run'.result = run.result
        BY <4>2 DEF Shape, Typed, Rounds
      <4> QED BY <3>1, <3>2, <3>7, <4>1, <4>2
    <3>8. CASE Mark
      <4> DEFINE next == IF ~Bound(Base) THEN "post"
                    ELSE IF Live(Base) THEN "put"
                    ELSE IF run.seen[Base.cipher].status = "trash" THEN "confirmed"
                    ELSE "trash"
      <4>1. \/ GiveUp /\ UNCHANGED receipt
            \/ /\ Given(next) /\ receipt[IdOf(run.item)] # NoReceipt
               /\ receipt' = [receipt EXCEPT ![IdOf(run.item)] = Marked(@)]
        BY <3>8 DEF Mark, Failed, IdOf
      <4>2. next \in Sending /\ run.step = "mark"
        BY <3>8 DEF Sending, Mark, At
      <4>3. IdOf(run.item) \in Ids
        BY <3>1, BaseType
      <4> HIDE DEF next
      <4>4. CASE GiveUp
        <5>1. run'.step = "none"
          BY <3>2, <4>4
        <5>2. next # "none"
          BY <4>2 DEF Sending
        <5>3. ~Given(next)
          BY <3>4, <5>1, <5>2
        <5> QED BY <3>1, <3>2, <4>1, <4>4, <5>3
      <4>5. CASE ~GiveUp
        <5>1. receipt'[IdOf(run.item)] = Marked(receipt[IdOf(run.item)])
          BY <4>1, <4>3, <4>5 DEF Shape, Typed
        <5> QED BY <3>1, <3>4, <3>8, <4>1, <4>2, <4>5, <5>1
      <4> QED BY <4>4, <4>5
    <3> QED BY <2>2, <3>5, <3>6, <3>7, <3>8
  <2> QED BY <1>4, <2>1, <2>2 DEF Next, Sync
<1> QED BY <1>1, <1>2, <1>3, <1>4

LEMMA PhaseAfter ==
  ASSUME Shape, [Next]_vars
  PROVE  \/ run' = run /\ sent' \subseteq sent /\ (User \/ UNCHANGED receipt)
         \/ run' = Idle /\ sent' \subseteq sent
         \/ Read /\ run'.phase = "read" /\ run'.recs = receipt' /\ run'.snap = local
                 /\ sent' = sent
         \/ Prepare /\ run'.phase = "ready" /\ sent' = sent
         \/ Fetch /\ run'.phase = "write" /\ sent' = sent
         \/ run.phase = "write" /\ run'.phase = "write" /\ sent \subseteq sent'
         \/ Return /\ run'.phase = "commit" /\ sent' = sent
         \/ Commit /\ run'.phase = "apply" /\ sent' = sent
         \/ Apply /\ Applicable /\ run'.phase = "clear"
              /\ sent' = {s \in sent : s[1] \notin AckedIds}
<1>1. CASE User \/ (\E c \in Ciphers : OtherDevice(c)) \/ UNCHANGED vars
  BY <1>1, UserReceipts DEF Shape, OtherDevice, vars, ghosts, vault
<1>2. CASE Stop \/ Refuse \/ Clear
  BY <1>2, Zenon DEF Stop, Refuse, Clear, ghosts
<1>3. CASE Prepare
  <2>1. (run' = Idle \/ \E recs : run' = [run EXCEPT !.phase = "ready", !.recs = recs]) /\ sent' = sent
    BY <1>3, Zenon DEF Prepare, ghosts
  <2> QED BY <1>3, <2>1 DEF Shape, Typed, Rounds
<1>4. CASE Read
  <2>1. \E batch, deferred : run' = [Idle EXCEPT !.phase = "read", !.snap = local,
            !.recs = receipt', !.batch = batch, !.deferred = deferred]
    BY <1>4, Zenon DEF Read
  <2>2. sent' = sent
    BY <1>4 DEF Read, ghosts
  <2> QED BY <1>4, <2>1, <2>2 DEF Idle
<1>5. CASE Fetch
  BY <1>5 DEF Fetch, ghosts, Shape, Typed, Rounds
<1>6. CASE Take
  BY <1>6 DEF Take, At, ghosts, Shape, Typed, Rounds
<1>7. CASE Return \/ Commit
  BY <1>7 DEF Return, Commit, At, ghosts, Shape, Typed, Rounds
<1>8. CASE Apply
  BY <1>8 DEF Apply, ghosts, Shape, Typed, Rounds
<1>9. CASE Revive \/ Mark \/ SendPut \/ SendPost \/ SendTrash \/ Confirm
  <2>1. \/ GiveUp \/ \E next : Given(next)
        \/ \E verb, c, copy : Written(verb, c, copy)
        \/ run' = [run EXCEPT !.step = "mark", !.known = now']
    BY <1>9, Zenon DEF Revive, Mark, SendPut, SendPost, SendTrash, Confirm, Failed, Lost
  <2>2. run'.phase = run.phase
    BY <2>1 DEF GiveUp, Given, Written, Shape, Typed, Rounds
  <2>3. run.phase = "write" /\ sent \subseteq sent'
    BY <1>9, SentAfter DEF Revive, Mark, SendPut, SendPost, SendTrash, Confirm, At, ghosts
  <2> QED BY <2>2, <2>3
<1> QED BY <1>1, <1>2, <1>3, <1>4, <1>5, <1>6, <1>7, <1>8, <1>9 DEF Next, Sync

LEMMA QuietSame ==
  ASSUME Shape, run' = run, User \/ UNCHANGED receipt, NEW d \in Ids
  PROVE  receipt'[d] \in {receipt[d], NoReceipt}
BY UserReceipts DEF Shape, Dropped

LEMMA NextFollowed ==
  ASSUME Shape, Numbered(run.batch), Followed, [Next]_vars
  PROVE  Followed'
<1>0. OneWrite'
  BY NextShape DEF Shape
<1>1. CASE run'.phase \notin {"read", "ready", "write"}
  <2>1. run'.todo = {} /\ run'.step = "none" /\ Unmarked' = {}
    BY <1>0, <1>1 DEF OneWrite, Unmarked
  <2> QED BY <1>1, <2>1 DEF Followed, Sending
<1>2. CASE run' = run /\ (User \/ UNCHANGED receipt)
  <2>1. \A d \in Ids : receipt'[d] \in {receipt[d], NoReceipt}
    BY <1>2, QuietSame
  <2>2. \A i \in Items : IdOf(i)' = IdOf(i) /\ Batched' = Batched
    BY <1>2 DEF IdOf, Batched
  <2>3. Unmarked' = Unmarked /\ Unmarked \subseteq Batched /\ Batched \subseteq Items
    BY <1>2 DEF Unmarked, Shape, OneWrite, Batched
  <2>4. \A i \in Batched : IdOf(i) \in Ids
    BY RecordType DEF Shape, Batched
  <2>5. \A d \in Ids : Same(d) => Same(d)'
    BY <1>2, <2>1 DEF Same
  <2>6. run.step \in Sending => run.item \in Batched
    BY DEF Shape, OneWrite, Sending
  <2> HIDE DEF Batched
  <2>7. \A i \in Batched : IdOf(i)' = IdOf(i)
    BY <2>2, <2>3
  <2>8. (\A i \in Unmarked : Same(IdOf(i)))'
    BY <2>3, <2>4, <2>5, <2>7 DEF Followed
  <2>9. (run.phase = "read" => \A d \in Ids : Same(d))'
        /\ (run.phase = "ready" => \A i \in Batched : Same(IdOf(i)))'
    <3>1. Batched' = Batched /\ run' = run
      BY <1>2 DEF Batched
    <3>2. (run.phase = "read" => \A d \in Ids : Same(d))'
      BY <2>5, <3>1 DEF Followed
    <3>3. run.phase = "ready" => \A i \in Batched : Same(IdOf(i))'
      BY <2>4, <2>5, <2>7 DEF Followed
    <3> QED BY <3>1, <3>2, <3>3
  <2>10. ASSUME run.step \in Sending
         PROVE  LET d == IdOf(run.item)
                IN receipt'[d] # NoReceipt => /\ receipt'[d].stage \in {"attempted", "committed"}
                                              /\ receipt'[d].verb = run.recs[d].verb
    BY <2>1, <2>4, <2>6, <2>10 DEF Followed
  <2> QED BY <1>2, <2>6, <2>7, <2>8, <2>9, <2>10 DEF Followed
<1>3. CASE Read /\ run'.phase = "read" /\ run'.recs = receipt'
  <2>1. run'.todo = {} /\ run'.step = "none" /\ Unmarked' = {}
    BY <1>0, <1>3 DEF OneWrite, Unmarked
  <2> QED BY <1>3, <2>1 DEF Followed, Same, Sending
<1>4. CASE Prepare /\ run'.phase = "ready"
  <2>1. run'.todo = {} /\ run'.step = "none" /\ Unmarked' = {}
    BY <1>0, <1>4 DEF OneWrite, Unmarked
  <2>2. run' # Idle /\ run'.batch = run.batch
    <3>1. run' # Idle
      BY <1>4 DEF Idle
    <3>2. ~Read
      BY <1>4 DEF Prepare, Read
    <3> QED BY <3>1, <3>2, RunStep
  <2>3. \A i \in Batched : receipt'[IdOf(i)] \in {NoReceipt, run'.recs[IdOf(i)]}
    BY <1>4, <2>2, Prepares
  <2> QED BY <1>4, <2>1, <2>2, <2>3 DEF Followed, Same, Sending, Batched, IdOf
<1>5. CASE Fetch /\ run'.phase = "write"
  <2>1. run'.batch = run.batch /\ run'.recs = run.recs /\ receipt' = receipt
    BY <1>5 DEF Fetch, vault, Shape, Typed, Rounds
  <2>2. run'.step = "none" /\ run'.todo \subseteq Batched
    BY <1>0, <1>5, <2>1, WritingAfter DEF Fetch, OneWrite, Shape, Batched
  <2>3. Unmarked' \subseteq Batched
    BY <2>2 DEF Unmarked
  <2>4. \A i \in Batched : Same(IdOf(i))
    BY <1>5 DEF Fetch, Followed
  <2>5. \A i \in Items : Same(IdOf(i))' = Same(IdOf(i))
    BY <2>1 DEF Same, IdOf
  <2>6. Batched \subseteq Items
    BY DEF Batched
  <2> HIDE DEF Batched
  <2> QED BY <1>5, <2>2, <2>3, <2>4, <2>5, <2>6 DEF Followed, Sending
<1>6. CASE run.phase = "write" /\ run'.phase = "write" /\ ~(run' = run /\ (User \/ UNCHANGED receipt))
  <2>1. run'.batch = run.batch /\ run'.recs = run.recs
    <3>1. ~Read /\ ~Prepare /\ run' # Idle
      BY <1>6 DEF Read, Prepare, Idle
    <3> QED BY <3>1, RunStep
  <2>2. Batched' = Batched /\ \A i \in Items : IdOf(i)' = IdOf(i)
    BY <2>1, SameRecords
  <2>3. /\ run.todo \subseteq Batched /\ run.todo \subseteq Items
        /\ run.step # "none" => run.item \in Batched /\ run.item \in Items /\ run.item \notin run.todo
    BY DEF Shape, OneWrite, Batched
  <2>4. CASE UNCHANGED receipt /\ Unmarked' \subseteq Unmarked
             /\ (run'.step \in Sending => run.step \in Sending /\ run'.item = run.item)
    <3>1. \A i \in Items : Same(IdOf(i))' = Same(IdOf(i))
      BY <2>1, <2>4 DEF Same, IdOf
    <3>2. Unmarked \subseteq Items
      BY <2>3 DEF Unmarked
    <3>3. (\A i \in Unmarked : Same(IdOf(i)))'
      BY <2>4, <3>1, <3>2 DEF Followed
    <3>4. run'.step \in Sending => run.item \in Items /\ run'.item = run.item /\ run.step \in Sending
      BY <2>3, <2>4 DEF Sending
    <3>5. (run.step \in Sending =>
            LET d == IdOf(run.item)
            IN receipt[d] # NoReceipt => /\ receipt[d].stage \in {"attempted", "committed"}
                                         /\ receipt[d].verb = run.recs[d].verb)'
      BY <2>1, <2>2, <2>4, <3>4 DEF Followed
    <3> QED BY <1>6, <3>3, <3>5 DEF Followed
  <2>5. CASE Mark /\ run.step = "mark" /\ run'.step \in Sending /\ run'.todo = run.todo
             /\ run'.item = run.item /\ receipt[IdOf(run.item)] # NoReceipt
             /\ receipt'[IdOf(run.item)] = Marked(receipt[IdOf(run.item)])
    <3> DEFINE d == IdOf(run.item)
    <3>1. d \in Ids /\ receipt[d] = run.recs[d] /\ run.item \in Batched
      <4>1. run.item \in Unmarked /\ run.item \in Batched
        BY <2>3, <2>5 DEF Unmarked
      <4> QED BY <2>5, <4>1, RecordType DEF Followed, Same, Shape, Batched
    <3>2. receipt'[d] = Marked(receipt[d])
      BY <2>5
    <3>3. receipt[d] \in Receipts /\ receipt[d] # NoReceipt
      BY <2>5, <3>1 DEF Shape, Typed
    <3> HIDE DEF d
    <3>4. receipt'[d].stage \in {"attempted", "committed"} /\ receipt'[d].verb = run.recs[d].verb
      BY <3>1, <3>2, <3>3 DEF Marked, Receipts
    <3>5. Unmarked' = run.todo
      BY <2>5 DEF Unmarked, Sending
    <3>6. ASSUME NEW i \in run.todo PROVE Same(IdOf(i))'
      <4>1. IdOf(i) # d /\ i \in Batched /\ i \in Items
        BY <2>3, <2>5, <3>1 DEF Numbered, Batched, IdOf, d
      <4>2. IdOf(i) \in Ids
        BY <4>1, RecordType DEF Shape
      <4>3. receipt'[IdOf(i)] = receipt[IdOf(i)]
        <5>1. receipt' = receipt \/ receipt' = [receipt EXCEPT ![d] = Marked(@)]
          BY <2>5 DEF Mark, IdOf, d
        <5> QED BY <4>1, <4>2, <5>1 DEF Shape, Typed
      <4>4. Same(IdOf(i))
        BY DEF Followed, Unmarked
      <4> QED BY <2>1, <4>3, <4>4 DEF Same, IdOf
    <3>7. (IdOf(run.item))' = d
      BY <2>1, <2>5 DEF IdOf, d
    <3> QED BY <1>6, <2>1, <2>5, <3>4, <3>5, <3>6, <3>7 DEF Followed
  <2>6. CASE UNCHANGED receipt /\ run'.step \in {"none", "revive", "mark"}
    <3>1. Unmarked' \subseteq Unmarked
      <4>1. run'.step = "none" => run'.todo \subseteq run.todo
        BY <1>6, <2>6, WritingAfter DEF Fetch, Shape, OneWrite
      <4>2. run'.step # "none" => \/ run.step \in {"revive", "mark"} /\ run'.item = run.item
                                       /\ run'.todo = run.todo
                                  \/ run'.item \in run.todo /\ run'.todo \subseteq run.todo
        BY <1>6, <2>6, WritingAfter DEF Fetch, Sending
      <4> QED BY <2>6, <4>1, <4>2 DEF Unmarked
    <3> QED BY <2>4, <2>6, <3>1 DEF Sending
  <2>7. CASE UNCHANGED receipt /\ run'.step = "confirm" /\ run.step = "trash"
             /\ run'.item = run.item /\ run'.todo = run.todo
    <3>1. Unmarked' \subseteq Unmarked
      BY <2>7 DEF Unmarked
    <3> QED BY <2>4, <2>7, <3>1 DEF Sending
  <2> QED BY <1>6, <2>5, <2>6, <2>7, WritingAfter DEF Fetch
<1> QED BY <1>1, <1>2, <1>3, <1>4, <1>5, <1>6, PhaseAfter DEF Idle

-----------------------------------------------------------------------------
(* What was sent.                                                            *)
LEMMA SentBy ==
  ASSUME Shape, [Next]_vars, NEW s \in sent', s \notin sent
  PROVE  /\ run.step \in {"post", "trash"} /\ run' # run /\ UNCHANGED <<receipt, nextId>>
         /\ s[1] = IdOf(run.item) /\ receipt[s[1]].verb = s[2]
         /\ s[2] = IF run.step = "post" THEN "create" ELSE "delete"
<1>1. CASE SendPut \/ SendPost \/ SendTrash \/ Confirm
  <2>1. UNCHANGED <<receipt, nextId>>
    BY <1>1 DEF SendPut, SendPost, SendTrash, Confirm, vault
  <2>2. \A d, v : s \in Unsettled(d, v) => s[1] = d /\ s[2] = v /\ receipt[d].verb = v
    BY DEF Unsettled
  <2>3. ASSUME SendPost \/ SendTrash PROVE run'.step # run.step
    <3>1. /\ run.step \in {"post", "trash"}
          /\ GiveUp \/ Given("confirm") \/ \E verb, c, copy : Written(verb, c, copy)
      BY <2>3, Zenon DEF SendPost, SendTrash, Failed, Lost, At
    <3> QED BY <3>1 DEF GiveUp, Given, Written, Shape, Typed, Rounds
  <2>4. SendPost \/ SendTrash
    BY <1>1, Zenon DEF SendPut, Confirm, ghosts
  <2> QED BY <1>1, <2>1, <2>2, <2>3, <2>4, SentAfter
<1>2. CASE User
  BY <1>2, UserReceipts DEF Shape
<1>3. CASE Apply
  BY <1>3 DEF Apply, ghosts
<1>4. CASE ~(SendPut \/ SendPost \/ SendTrash \/ Confirm \/ User \/ Apply)
  <2>1. sent' = sent
    BY <1>4, Zenon DEF Next, Sync, OtherDevice, Read, Refuse, Prepare, Fetch, Take, Revive, Mark,
       Return, Commit, Clear, Stop, ghosts, vars
  <2> QED BY <2>1
<1> QED BY <1>1, <1>2, <1>3, <1>4

LEMMA ReadIds ==
  ASSUME Shape, Read
  PROVE  BatchIds' \subseteq QueuedIds /\ QueuedIds' = QueuedIds
<1>1. PICK chosen \in SUBSET Items : run' = [Idle EXCEPT
        !.phase = "read", !.snap = local, !.recs = receipt',
        !.batch = [j \in Items |-> IF j \in chosen THEN queue[j] ELSE NoEntry],
        !.deferred = {queue[j].id : j \in Items \ chosen} \ {0}]
  BY DEF Read
<1>2. \A i \in Items : run'.batch[i] \in {queue[i], NoEntry}
  BY <1>1 DEF Idle
<1>3. \A i \in Items : queue[i] # NoEntry => queue[i].id # 0
  BY EntryIds DEF Shape
<1>4. queue' = queue
  BY DEF Read
<1> QED BY <1>2, <1>3, <1>4 DEF BatchIds, QueuedIds, Batched, IdOf

LEMMA NextSentKept ==
  ASSUME Shape, Numbered(queue), Numbered(run.batch), Followed, SentKept, [Next]_vars
  PROVE  SentKept'
<1>1. /\ nextId <= nextId' /\ nextId \in Nat /\ nextId' \in Nat
      /\ \A d \in QueuedIds' : d < nextId => d \in QueuedIds
      /\ \A d \in BatchIds' : d \in QueuedIds \cup BatchIds
  <2>1. Typed'
    BY NextShape DEF Shape
  <2> QED BY <2>1, NextNumbered, BoundsAssumption DEF Shape, Typed
<1>2. ASSUME NEW s \in sent', s \notin sent
      PROVE  s[1] < nextId' /\ Sticky(s[1], s[2])'
  <2>1. /\ run.step \in {"post", "trash"} /\ UNCHANGED <<receipt, nextId>>
        /\ s[1] = IdOf(run.item) /\ receipt[s[1]].verb = s[2] /\ s[2] \in {"create", "delete"}
    BY <1>2, SentBy
  <2>2. run.item \in Batched
    BY <2>1 DEF Shape, OneWrite
  <2>3. s[1] < nextId
    BY <2>1, <2>2 DEF Numbered, Batched, IdOf
  <2>4. receipt[s[1]] # NoReceipt
    BY <2>1 DEF NoReceipt
  <2>5. Sticky(s[1], s[2])
    BY <2>1, <2>4 DEF Followed, Sending, Sticky
  <2> QED BY <2>1, <2>3, <2>5 DEF Sticky
<1>3. ASSUME NEW s \in sent', s \in sent
      PROVE  s[1] < nextId' /\ (Sticky(s[1], s[2]) \/ (s[1] \notin QueuedIds /\ s[1] \notin BatchIds))'
  <2> DEFINE d == s[1]
             v == s[2]
  <2>1. d < nextId /\ d \in Ids /\ v \in {"create", "delete"}
    BY <1>3 DEF SentKept, Shape, Typed
  <2>2. d \in Nat /\ d < nextId'
    BY <1>1, <2>1, BoundsAssumption DEF Ids
  <2>3. CASE d \notin QueuedIds /\ d \notin BatchIds
    BY <1>1, <2>1, <2>2, <2>3
  <2>4. CASE Sticky(d, v)
    <3> HIDE DEF d, v
    <3>1. CASE receipt'[d] = receipt[d]
      BY <2>2, <2>4, <3>1 DEF Sticky, d, v
    <3>2. CASE User /\ Dropped(d)
      <4>1. ~Unsent(d)
        BY <2>1, <2>4 DEF Sticky, Unsent, NoReceipt
      <4> QED BY <3>2, <4>1 DEF Dropped, d
    <3>3. CASE Read /\ d \notin QueuedIds
      BY <2>2, <3>3, ReadIds DEF d
    <3>4. CASE Prepare /\ \E i \in Batched : IdOf(i) = d /\ NeedsReceipt(i)
      <4>1. PICK i \in Batched : IdOf(i) = d /\ NeedsReceipt(i)
        BY <3>4
      <4>2. receipt[d] \in {NoReceipt, run.recs[d]} /\ RecordOf(i) = run.recs[d]
        BY <2>1, <3>4, <4>1 DEF Prepare, Followed, Same, RecordOf, IdOf
      <4>3. receipt[d].stage \in {"none", "prepared"}
        BY <4>1, <4>2 DEF NeedsReceipt, NoReceipt
      <4> QED BY <2>4, <4>3 DEF Sticky
    <3>5. CASE receipt[d] # NoReceipt /\ receipt'[d] = Marked(receipt[d])
      <4>1. receipt[d] \in Receipts
        BY <2>1, <3>5 DEF Shape, Typed
      <4>2. Marked(receipt[d]).verb = receipt[d].verb /\ Marked(receipt[d]).stage \in {"attempted", "committed"}
        BY <4>1 DEF Marked, Receipts
      <4> QED BY <2>2, <2>4, <3>5, <4>2 DEF Sticky, d, v
    <3>6. CASE receipt'[d].stage = "committed" /\ receipt'[d].verb = receipt[d].verb
      BY <2>2, <2>4, <3>6 DEF Sticky, d, v
    <3>7. CASE Clear /\ d \in AckedIds
      BY <1>3, <3>7 DEF Clear, SentKept, d
    <3> QED BY <2>1, <3>1, <3>2, <3>3, <3>4, <3>5, <3>6, <3>7, ReceiptAfter
  <2> QED BY <1>3, <2>3, <2>4 DEF SentKept
<1>4. ASSUME run'.phase = "clear", NEW s \in sent' PROVE s[1] \notin AckedIds'
  <2>1. CASE run' = run
    <3>1. s \in sent
      <4>1. run.step = "none"
        BY <1>4, <2>1 DEF Shape, OneWrite
      <4> QED BY <4>1, SentBy
    <3> QED BY <1>4, <2>1, <3>1 DEF SentKept, AckedIds, Acked
  <2>2. CASE Apply /\ sent' = {x \in sent : x[1] \notin AckedIds}
    <3>1. run'.acks = run.acks
      BY <1>4, <2>2 DEF Apply, Idle, Shape, Typed, Rounds
    <3> QED BY <2>2, <3>1 DEF AckedIds, Acked
  <2> QED BY <1>4, <2>1, <2>2, PhaseAfter DEF Idle
<1> QED BY <1>2, <1>3, <1>4 DEF SentKept

LEMMA NotWrittenTwice ==
  ASSUME Shape, Followed, SentKept, run.phase = "ready", NEW i \in Writes(remote)
  PROVE  /\ <<IdOf(i), "create">> \notin sent
         /\ <<IdOf(i), "delete">> \in sent => ~Bound(Settled(i, remote))
<1>1. i \in Batched /\ i \in Items /\ IdOf(i) \in Ids /\ IdOf(i) \in BatchIds
  BY RecordType DEF Writes, Pending, Batched, BatchIds, Shape
<1>2. ~Proven(i, remote) /\ ~Blocked(i, remote) /\ ~Committed(i)
  BY DEF Writes, Pending
<1>3. ASSUME NEW v \in {"create", "delete"}, <<IdOf(i), v>> \in sent
      PROVE  Attempted(i) /\ RecordOf(i).verb = v
  <2>1. Sticky(IdOf(i), v)
    BY <1>1, <1>3 DEF SentKept
  <2>2. receipt[IdOf(i)] = RecordOf(i)
    <3>1. receipt[IdOf(i)] # NoReceipt
      BY <2>1 DEF Sticky, NoReceipt
    <3> QED BY <1>1, <3>1 DEF Followed, Same, RecordOf, IdOf
  <2> QED BY <1>2, <2>1, <2>2 DEF Sticky, Attempted, Committed
<1>4. <<IdOf(i), "create">> \notin sent
  BY <1>2, <1>3 DEF Blocked
<1>5. ASSUME <<IdOf(i), "delete">> \in sent PROVE ~Bound(Settled(i, remote))
  <2>1. Uncertain(i, remote)
    BY <1>2, <1>3, <1>5 DEF Uncertain
  <2>2. Live(run.snap[i]) /\ ~Bound(run.snap[i])
    BY <2>1 DEF Writes
  <2>3. Scoped(i, remote) = run.snap[i]
    BY <1>2 DEF Scoped
  <2>4. Settled(i, remote) = run.snap[i]
    BY <2>2, <2>3 DEF Settled, Present, Live
  <2> QED BY <2>2, <2>4
<1> QED BY <1>4, <1>5

LEMMA NextNotYetSent ==
  ASSUME Shape, Numbered(run.batch), Followed, SentKept, NotYetSent, [Next]_vars
  PROVE  NotYetSent'
<1>0. OneWrite'
  BY NextShape DEF Shape
<1>1. CASE run'.phase # "write"
  <2>1. Waiting' = {}
    BY <1>0, <1>1 DEF OneWrite, Waiting
  <2> QED BY <2>1 DEF NotYetSent
<1>2. CASE run'.phase = "write" /\ Fetch
  <2>1. /\ Waiting' = Writes(remote) /\ sent' = sent
        /\ run'.result = [i \in Items |-> Settled(i, remote)]
        /\ run'.batch = run.batch /\ run.phase = "ready"
    <3>1. run' = [run EXCEPT
          !.phase = "write", !.seen = remote,
          !.acks = [i \in Items |-> Recovered(i, remote)],
          !.result = [i \in Items |-> Settled(i, remote)],
          !.found = {Against(i, remote) : i \in Disputed(remote)},
          !.todo = Writes(remote)]
          /\ sent' = sent /\ run.step = "none" /\ run.phase = "ready"
      BY <1>2 DEF Fetch, ghosts, Shape, OneWrite
    <3> QED BY <3>1 DEF Shape, Typed, Rounds, Waiting
  <2>2. \A i \in Writes(remote) : i \in Items /\ IdOf(i)' = IdOf(i)
    BY <2>1 DEF Writes, IdOf
  <2> QED BY <2>1, <2>2, NotWrittenTwice DEF NotYetSent
<1>3. CASE run'.phase = "write" /\ ~Fetch
  <2>0. run'.batch = run.batch
    <3>1. ~Read /\ ~Prepare /\ run' # Idle
      <4>1. Read => run'.phase = "read"
        BY DEF Read, Idle
      <4>2. Prepare => run'.phase # "write"
        BY PhaseAfter DEF Prepare, Idle
      <4> QED BY <1>3, <4>1, <4>2 DEF Idle
    <3> QED BY <3>1, RunStep
  <2>1. Waiting' \subseteq Waiting
    BY <1>3, WritingAfter DEF Waiting, Sending, Shape, OneWrite
  <2>2. Waiting \subseteq Batched /\ Batched \subseteq Items
    BY DEF Waiting, Shape, OneWrite, Batched
  <2>3. \A i \in Waiting' : run'.result[i] = run.result[i]
    BY <1>3, <2>2, WritingAfter DEF Waiting, Sending, Shape, OneWrite
  <2>4. ASSUME NEW i \in Waiting', NEW v, <<IdOf(i), v>> \in sent', <<IdOf(i), v>> \notin sent
        PROVE  FALSE
    <3>1. run.step \in {"post", "trash"} /\ IdOf(i) = IdOf(run.item)
      BY <2>4, SentBy
    <3>2. i = run.item
      BY <2>1, <2>2, <3>1 DEF Numbered, Batched, IdOf, Shape, OneWrite
    <3>3. run' # run
      BY <2>4, SentBy
    <3> QED BY <1>3, <2>4, <3>1, <3>2, <3>3, WritingAfter DEF Waiting, Shape, OneWrite, Sending
  <2>5. \A i \in Items : IdOf(i)' = IdOf(i)
    BY <2>0 DEF IdOf
  <2> QED BY <2>1, <2>2, <2>3, <2>4, <2>5 DEF NotYetSent, Bound
<1> QED BY <1>1, <1>2, <1>3

-----------------------------------------------------------------------------
LEMMA InitInd == Init => Ind
<1> SUFFICES ASSUME Init PROVE Ind
  OBVIOUS
<1>1. Shape
  BY InitShape
<1>2. /\ run = Idle /\ sent = {} /\ \A i \in Items : queue[i] = NoEntry /\ run.batch[i] = NoEntry
  BY DEF Init, Idle
<1>3. run.phase = "idle" /\ run.todo = {} /\ run.step = "none"
  BY <1>2 DEF Idle
<1>4. Numbered(queue) /\ Numbered(run.batch)
  BY <1>2 DEF Numbered
<1>5. Agreed /\ Followed /\ SentKept /\ NotYetSent
  BY <1>2, <1>3 DEF Agreed, Followed, Unmarked, Sending, SentKept, NotYetSent, Waiting
<1> QED BY <1>1, <1>4, <1>5 DEF Ind, Shape

LEMMA NextInd == ASSUME Ind, [Next]_vars PROVE Ind'
<1>1. Shape
  BY DEF Ind, Shape
<1>2. Shape'
  BY <1>1, NextShape
<1>3. Numbered(queue)' /\ Numbered(run.batch)'
  BY <1>1, NextNumbered DEF Ind
<1>4. Agreed' /\ Followed' /\ SentKept' /\ NotYetSent'
  BY <1>1, NextAgreed, NextFollowed, NextSentKept, NextNotYetSent DEF Ind
<1> QED BY <1>2, <1>3, <1>4 DEF Ind, Shape

(* A create or a soft delete that took effect is not sent again.             *)
THEOREM WritesAreNotRepeated == Spec => NoRepeatedWrite
<1>1. ASSUME Ind
      PROVE  /\ run.step = "post" => <<run.batch[run.item].id, "create">> \notin sent
             /\ run.step = "trash" => <<run.batch[run.item].id, "delete">> \notin sent
  <2>1. run.step \in {"post", "trash"} => run.item \in Waiting
    BY DEF Waiting
  <2>2. run.step = "trash" => Bound(run.result[run.item])
    BY <1>1 DEF Ind, OneWrite, Base
  <2> QED BY <1>1, <2>1, <2>2 DEF Ind, NotYetSent, IdOf
<1> QED BY <1>1, InitInd, NextInd, PTL DEF Spec, NoRepeatedWrite

-----------------------------------------------------------------------------
(* What the read of the account says of an item.                             *)
LEMMA DecodedPlain ==
  ASSUME NEW copy, NEW c
  PROVE  Plain(Decoded(copy, c)) /\ ~Edited(Decoded(copy, c))
BY DEF Decoded, Plain, Edited, Live, Trash, ItemChanged, NoItem

LEMMA EmptyPlain == Plain(NoItem) /\ ~Edited(NoItem) /\ ~Bound(NoItem) /\ ~Present(NoItem)
BY DEF Plain, Edited, Live, Bound, Present, NoItem

LEMMA SettledPlain ==
  ASSUME NEW seen, NEW i \in Items
  PROVE  Plain(Settled(i, seen))
<1> DEFINE r == Scoped(i, seen)
<1>1. CASE ~Present(r)
  BY <1>1, DecodedPlain, EmptyPlain DEF Settled
<1>2. CASE Present(r)
  <2>1. Plain(r) /\ r.status # "none"
    BY <1>2 DEF Plain, Present
  <2>2. Plain([r EXCEPT !.rev = seen[r.cipher].rev])
    <3> DEFINE n == [r EXCEPT !.rev = seen[r.cipher].rev]
    <3>1. n.status = r.status \/ n.status # "none"
      BY DEF Scoped
    <3> QED BY <2>1, <3>1 DEF Plain
  <2> HIDE DEF r
  <2> QED BY <1>2, <2>1, <2>2, DecodedPlain, EmptyPlain DEF Settled, r
<1> QED BY <1>1, <1>2

LEMMA AgainstForeign ==
  ASSUME NEW seen, NEW i
  PROVE  /\ Plain(Against(i, seen).remote) /\ Against(i, seen).item = i
         /\ Against(i, seen).id # i => ~Edited(Against(i, seen).remote)
BY DecodedPlain, EmptyPlain DEF Against

LEMMA FetchCarried ==
  ASSUME Shape, Agreed, Sane, run.phase = "ready", NEW i \in Items
  PROVE  Carried(i, Recovered(i, remote), Settled(i, remote))
<1> DEFINE before == run.snap[i]
           after == Settled(i, remote)
           ack == Recovered(i, remote)
<1>0. /\ Typed /\ Recorded /\ Plain(before) /\ before \in ItemRecords
      /\ i \in Batched => RecordOf(i) # NoReceipt /\ Agrees(i) /\ before # NoItem
  BY DEF Shape, Sane, Agreed, Typed, Rounds
<1>1. CASE Committed(i) \/ Proven(i, remote) \/ Moot(i, remote)
  <2>1. ack # NoAck
    <3>1. i \in Batched
      BY <1>0, <1>1, ProvenType, RecordType DEF Committed, NoReceipt, Moot, Pending, Shape, Typed
    <3>2. NoAck.id = 0 /\ IdOf(i) # 0
      BY <1>0, <3>1, EntryIds DEF NoAck, IdOf, Batched
    <3>3. ack.id = IdOf(i)
      BY <1>1 DEF Recovered, Acknowledge, IdOf
    <3> QED BY <3>2, <3>3
  <2>2. ASSUME ~Committed(i), Live(before), ~ack.followUp
        PROVE  ack.wrote = before.text
    <3>1. Proven(i, remote)
      BY <1>1, <2>2 DEF Moot, Live, Trash
    <3>2. i \in Batched
      BY <1>0, <3>1, ProvenType DEF Shape, Typed
    <3>3. ack = Acknowledge(i, run.batch[i].verb, ProvenCipher(i, remote), RecordOf(i).text)
      BY <2>2, <3>1 DEF Recovered
    <3>4. ~FollowUp(i)
      BY <2>2, <3>3 DEF Acknowledge
    <3>5. RecordOf(i).verb # "delete" /\ RecordOf(i).text = before.text
      BY <1>0, <2>2, <3>2, <3>4 DEF FollowUp
    <3> QED BY <1>0, <3>2, <3>3, <3>5 DEF Agrees, Acknowledge
  <2> QED BY <2>1, <2>2 DEF Carried
<1>2. CASE ~Committed(i) /\ ~Proven(i, remote) /\ ~Moot(i, remote)
  <2>1. ack = NoAck /\ Scoped(i, remote) = before
    BY <1>2 DEF Recovered, Scoped
  <2>2. CASE ~Present(before)
    <3>1. ~Edited(before) /\ ~Edited(after)
      BY <2>1, <2>2, DecodedPlain, EmptyPlain DEF Settled, Edited, Present, Live
    <3> QED BY <2>1, <2>2, <3>1 DEF Carried
  <2>3. CASE Present(before) /\ ~Bound(before)
    <3>1. after = before \/ (after = NoItem /\ ~Live(before))
      BY <2>1, <2>3 DEF Settled
    <3>2. before = [before EXCEPT !.rev = before.rev]
      BY <1>0 DEF ItemRecords
    <3> QED BY <2>1, <2>3, <3>1, <3>2, EmptyPlain DEF Carried, Edited
  <2>4. CASE Present(before) /\ Bound(before)
    <3>1. CASE Edited(before)
      <4>1. ~Blocked(i, remote)
        <5>1. Attempted(i) /\ RecordOf(i).verb = "create" => FALSE
          <6>1. Attempted(i) => i \in Batched
            BY <1>0, RecordType DEF Attempted, NoReceipt
          <6>2. run.batch[i].verb # "create"
            BY <2>4, <3>1 DEF Sane, CreateUnbound
          <6> QED BY <1>0, <6>1, <6>2 DEF Agrees
        <5> QED BY <1>2, <5>1 DEF Blocked
      <4>2. after = before \/ after = [before EXCEPT !.rev = remote[before.cipher].rev]
        BY <1>2, <2>1, <2>4, <3>1, <4>1 DEF Settled, Open, Edited
      <4>3. after = [before EXCEPT !.rev = after.rev]
        BY <1>0, <4>2 DEF ItemRecords
      <4> QED BY <2>1, <2>4, <3>1, <4>3 DEF Carried
    <3>2. CASE ~Edited(before)
      <4>1. \/ after = before \/ after = NoItem
            \/ after = [before EXCEPT !.rev = remote[before.cipher].rev] /\ ItemChanged(before)
            \/ after = Decoded(remote[before.cipher], before.cipher)
        BY <2>1, <2>4 DEF Settled, Open
      <4>2. ~Edited(after)
        <5>1. ItemChanged(before) => ~Live([before EXCEPT !.rev = remote[before.cipher].rev])
          BY <1>0, <3>2 DEF Edited, Live, ItemRecords
        <5> HIDE DEF after, before
        <5> QED BY <3>2, <4>1, <5>1, DecodedPlain, EmptyPlain DEF Edited
      <4> QED BY <2>1, <2>4, <3>2, <4>2 DEF Carried
    <3> QED BY <3>1, <3>2
  <2> QED BY <2>2, <2>3, <2>4
<1> QED BY <1>1, <1>2

LEMMA FetchCovered ==
  ASSUME Shape, Sane, run.phase = "ready", NEW i \in Items, i \in Batched, Edited(run.snap[i])
  PROVE  Recovered(i, remote) # NoAck \/ i \in Disputed(remote) \/ i \in Writes(remote)
<1>1. CASE Committed(i) \/ Proven(i, remote) \/ Moot(i, remote)
  <2>1. NoAck.id = 0 /\ IdOf(i) # 0
    BY EntryIds DEF NoAck, IdOf, Batched, Shape
  <2>2. Recovered(i, remote).id = IdOf(i)
    BY <1>1 DEF Recovered, Acknowledge, IdOf
  <2> QED BY <2>1, <2>2
<1>2. CASE Blocked(i, remote) \/ Uncertain(i, remote)
  BY <1>2 DEF Disputed
<1>3. CASE /\ ~Committed(i) /\ ~Proven(i, remote) /\ ~Moot(i, remote)
           /\ ~Blocked(i, remote) /\ ~Uncertain(i, remote)
  <2>1. Scoped(i, remote) = run.snap[i] /\ Pending(i) /\ Open(i, remote)
    BY <1>3 DEF Scoped, Pending, Open, Edited
  <2>2. Live(run.snap[i]) /\ Present(run.snap[i])
    BY DEF Edited, Live, Present
  <2>3. CASE ~Bound(run.snap[i])
    BY <1>3, <2>1, <2>2, <2>3 DEF Writes
  <2>4. CASE Bound(run.snap[i]) /\ Found(i, remote)
    BY <1>3, <2>1, <2>4 DEF Writes, Disputed
  <2>5. CASE Bound(run.snap[i]) /\ ~Found(i, remote)
    BY <1>3, <2>1, <2>2, <2>5 DEF Vanished, Disputed, Edited
  <2> QED BY <2>3, <2>4, <2>5
<1> QED BY <1>1, <1>2, <1>3

LEMMA FetchWrites ==
  ASSUME Shape, Agreed, Sane, run.phase = "ready", NEW i \in Writes(remote)
  PROVE  Recovered(i, remote) = NoAck /\ Settled(i, remote) = run.snap[i]
<1>1. /\ i \in Items /\ i \in Batched /\ ~Committed(i) /\ Pending(i)
      /\ ~Proven(i, remote) /\ ~Blocked(i, remote)
  BY DEF Writes, Pending
<1>2. Scoped(i, remote) = run.snap[i]
  BY <1>1 DEF Scoped
<1>3. Present(run.snap[i])
  <2>1. run.snap[i] # NoItem /\ Plain(run.snap[i]) /\ run.snap[i] \in ItemRecords
    BY <1>1 DEF Agreed, Sane, Shape, Typed, Rounds
  <2> QED BY <2>1 DEF Plain, Present, ItemRecords
<1>4. CASE Live(run.snap[i]) /\ ~Bound(run.snap[i])
  BY <1>1, <1>2, <1>3, <1>4 DEF Settled, Recovered, Moot, Live, Trash
<1>5. CASE Found(i, remote) /\ ~Uncertain(i, remote) /\ Open(i, remote)
  <2>1. Bound(run.snap[i])
    BY <1>2, <1>5 DEF Found
  <2> QED BY <1>1, <1>2, <1>3, <1>5, <2>1 DEF Settled, Recovered, Moot, Vanished
<1> QED BY <1>4, <1>5 DEF Writes

(* How a write changes the round: it is taken up, is given up, succeeds or    *)
(* advances.                                                                 *)
Untold == run'.acks = run.acks /\ run'.result = run.result /\ run'.found = run.found
Over   == run.step # "none" /\ run'.step = "none" /\ run'.todo = run.todo
Taken ==
  /\ Untold /\ run'.item \in run.todo /\ run'.todo = run.todo \ {run'.item}
  /\ run.step = "none" /\ run'.step \in {"revive", "mark"}
GivenUp ==
  /\ Over /\ run'.acks = run.acks /\ run'.result = run.result
  /\ run'.found = run.found \cup {Against(run.item, run.seen)}
Succeeds(verb, c, copy) ==
  /\ Over /\ run'.found = run.found
  /\ run'.result = [run.result EXCEPT ![run.item] = Decoded(copy, c)]
  /\ run'.acks = [run.acks EXCEPT ![run.item] = Acknowledge(run.item, verb, c, copy.text)]
  /\ \/ verb = run.batch[run.item].verb /\ copy.text = Base.text
     \/ run.step \in {"confirm", "confirmed"}
Advances ==
  /\ Untold /\ run'.item = run.item /\ run'.todo = run.todo
  /\ run.step # "none" /\ run'.step # "none"
  /\ run'.step \in {"trash", "confirm", "confirmed"} =>
       ~Live(Base) \/ run.step \in {"trash", "confirm", "confirmed"}

LEMMA WriteKinds ==
  ASSUME Shape, [Next]_vars, run.phase = "write", run'.phase = "write", run' # run
  PROVE  \/ Taken \/ GivenUp \/ Advances
         \/ \E verb \in Verbs, c \in Ciphers, copy \in Copies : Succeeds(verb, c, copy)
<1>1. CASE Take
  BY <1>1 DEF Take, At, Shape, Typed, Rounds, Taken, Untold
<1>2. CASE Revive \/ Mark \/ SendPut \/ SendPost \/ SendTrash \/ Confirm
  <2>1. run.step # "none" /\ run.item \in Items
    <3>1. run.step # "none"
      BY <1>2 DEF Revive, Mark, SendPut, SendPost, SendTrash, Confirm, At
    <3> QED BY <3>1, BaseType
  <2>2. ASSUME GiveUp
        PROVE  GivenUp
    BY <2>1, <2>2 DEF GiveUp, Shape, Typed, Rounds, GivenUp, Over
  <2>3. ASSUME NEW verb, NEW c, NEW copy, Written(verb, c, copy),
               \/ verb = run.batch[run.item].verb /\ copy.text = Base.text
               \/ run.step \in {"confirm", "confirmed"}
        PROVE  Succeeds(verb, c, copy)
    BY <2>1, <2>3 DEF Written, Shape, Typed, Rounds, Succeeds, Over
  <2>4. ASSUME NEW next, Given(next)
        PROVE  /\ Untold /\ run'.item = run.item /\ run'.todo = run.todo
               /\ run.step # "none" /\ run'.step = next
    BY <2>1, <2>4 DEF Given, Shape, Typed, Rounds, Untold
  <2>5. CASE Revive
    <3>1. GiveUp \/ run' = [run EXCEPT !.step = "mark", !.known = now']
      BY <2>5, Zenon DEF Revive, Failed, Lost
    <3>2. run' = [run EXCEPT !.step = "mark", !.known = now'] => Advances
      BY <2>1 DEF Shape, Typed, Rounds, Untold, Advances
    <3> QED BY <2>2, <3>1, <3>2
  <2>6. CASE Mark
    <3> DEFINE next == IF ~Bound(Base) THEN "post"
                    ELSE IF Live(Base) THEN "put"
                    ELSE IF run.seen[Base.cipher].status = "trash" THEN "confirmed"
                    ELSE "trash"
    <3>1. GiveUp \/ Given(next)
      BY <2>6, Zenon DEF Mark, Failed
    <3>2. next # "none" /\ (next \in {"trash", "confirm", "confirmed"} => ~Live(Base))
      OBVIOUS
    <3> HIDE DEF next
    <3> QED BY <2>2, <2>4, <3>1, <3>2 DEF Advances
  <2>7. CASE SendTrash
    <3>1. (GiveUp \/ Given("confirm")) /\ run.step = "trash"
      BY <2>7, Zenon DEF SendTrash, Failed, Lost, At
    <3> QED BY <2>2, <2>4, <3>1 DEF Advances
  <2>8. CASE SendPut
    <3> DEFINE copy == [remote[Base.cipher] EXCEPT !.text = Base.text, !.rev = now + 1]
    <3>1. GiveUp \/ Written(run.batch[run.item].verb, Base.cipher, copy)
      BY <2>8, Zenon DEF SendPut, Failed, Lost
    <3>2. /\ Base.cipher \in Ciphers /\ remote[Base.cipher] \in Copies
          /\ run.batch[run.item].verb \in Verbs /\ Base.text \in Nat /\ now + 1 \in Nat
      BY <2>1, <2>8, BaseType DEF SendPut, At, Entries, ItemRecords, Shape, Typed
    <3>3. copy \in Copies /\ copy.text = Base.text
      BY <3>2 DEF Copies
    <3> HIDE DEF copy
    <3> QED BY <2>2, <2>3, <3>1, <3>2, <3>3, Zenon
  <2>9. CASE SendPost
    <3> DEFINE copy == [status |-> "live", text |-> Base.text, rev |-> now + 1,
                        origin |-> run.item]
    <3>1. GiveUp \/ \E c \in Ciphers : Written(run.batch[run.item].verb, c, copy)
      BY <2>9, Zenon DEF SendPost, Failed, Lost
    <3>2. /\ run.batch[run.item].verb \in Verbs /\ Base.text \in Nat /\ now + 1 \in Nat
      BY <2>1, BaseType DEF Entries, ItemRecords, Shape, Typed
    <3>3. copy \in Copies /\ copy.text = Base.text
      BY <2>1, <3>2 DEF Copies
    <3> HIDE DEF copy
    <3> QED BY <2>2, <2>3, <3>1, <3>2, <3>3, Zenon
  <2>10. CASE Confirm
    <3> DEFINE copy == IF run.step = "confirmed" THEN run.seen[Base.cipher] ELSE remote[Base.cipher]
    <3>1. (GiveUp \/ Written("delete", Base.cipher, copy)) /\ run.step \in {"confirm", "confirmed"}
      BY <2>10, Zenon DEF Confirm, Failed, At
    <3>2. Base.cipher \in Ciphers /\ copy \in Copies /\ "delete" \in Verbs
      BY <2>1, <3>1, BaseType DEF Verbs
    <3> HIDE DEF copy
    <3> QED BY <2>2, <2>3, <3>1, <3>2, Zenon
  <2> QED BY <1>2, <2>5, <2>6, <2>7, <2>8, <2>9, <2>10
<1>3. CASE ~(Take \/ Revive \/ Mark \/ SendPut \/ SendPost \/ SendTrash \/ Confirm)
  <2>1. CASE Read \/ Prepare \/ Fetch \/ Commit \/ Apply \/ Clear \/ Refuse
    BY <2>1 DEF Read, Prepare, Fetch, Commit, Apply, Clear, Refuse
  <2>2. CASE Return \/ Stop
    BY <2>2 DEF Return, Stop, Idle, Shape, Typed, Rounds
  <2>3. CASE User \/ (\E c \in Ciphers : OtherDevice(c)) \/ UNCHANGED vars
    BY <2>3, UserReceipts DEF Shape, OtherDevice, vars
  <2> QED BY <1>3, <2>1, <2>2, <2>3 DEF Next, Sync
<1> QED BY <1>1, <1>2, <1>3

LEMMA SameCarried ==
  ASSUME run'.batch = run.batch, run'.recs = run.recs, run'.snap = run.snap, NEW i \in Items,
         run'.acks[i] = run.acks[i], run'.result[i] = run.result[i],
         Carried(i, run.acks[i], run.result[i])
  PROVE  Carried(i, run.acks[i], run.result[i])'
BY DEF Carried, Committed, RecordOf, Batched

LEMMA WriteCarried ==
  ASSUME Shape, Agreed, Provided, run.phase = "write", run.step # "none",
         NEW verb \in Verbs, NEW c \in Ciphers, NEW copy \in Copies, NEW after,
         \/ verb = run.batch[run.item].verb /\ copy.text = Base.text
         \/ run.step \in {"confirm", "confirmed"}
  PROVE  /\ Acknowledge(run.item, verb, c, copy.text) # NoAck
         /\ Carried(run.item, Acknowledge(run.item, verb, c, copy.text), after)
<1> DEFINE ack == Acknowledge(run.item, verb, c, copy.text)
           before == run.snap[run.item]
<1>1. run.item \in Batched /\ run.item \in Items /\ run.item \in Unwritten
  BY DEF Shape, OneWrite, Batched, Unwritten
<1>2. ack # NoAck
  BY <1>1, AcknowledgeType, EmptyType DEF Shape, Copies
<1>3. Base = before
  BY <1>1 DEF Provided, Base
<1>4. ASSUME Live(before), ~ack.followUp PROVE ack.wrote = before.text
  <2>1. verb = run.batch[run.item].verb /\ copy.text = before.text
    BY <1>3, <1>4 DEF Provided
  <2>2. RecordOf(run.item) # NoReceipt /\ RecordOf(run.item).verb = verb
    BY <1>1, <2>1 DEF Agreed, Agrees
  <2>3. verb # "delete"
    BY <1>4, <2>2 DEF Acknowledge, FollowUp
  <2> QED BY <2>1, <2>3 DEF Acknowledge
<1> HIDE DEF ack
<1>5. Carried(run.item, ack, after)
  BY <1>2, <1>4 DEF Carried
<1> QED BY <1>2, <1>5 DEF ack

LEMMA NextProvided ==
  ASSUME Shape, Agreed, Sane, Provided, [Next]_vars
  PROVE  Provided'
<1>0. OneWrite' /\ Shape'
  BY NextShape DEF Shape
<1>1. CASE run'.phase \notin {"write", "commit", "apply"}
  <2>1. Unwritten' = {} /\ run'.step = "none"
    BY <1>0, <1>1 DEF OneWrite, Unwritten
  <2> QED BY <1>1, <2>1 DEF Provided
<1>2. CASE run' = run
  BY <1>2 DEF Provided, Carried, Covered, Told, Unwritten, Committed, RecordOf, Batched, Base
<1>3. CASE Fetch
  <2>1. /\ run' = [run EXCEPT
             !.phase = "write", !.seen = remote,
             !.acks = [i \in Items |-> Recovered(i, remote)],
             !.result = [i \in Items |-> Settled(i, remote)],
             !.found = {Against(i, remote) : i \in Disputed(remote)},
             !.todo = Writes(remote)]
        /\ run.phase = "ready" /\ run.step = "none"
    BY <1>3 DEF Fetch, Shape, OneWrite
  <2>2. /\ run'.batch = run.batch /\ run'.recs = run.recs /\ run'.snap = run.snap
        /\ run'.step = "none" /\ run'.todo = Writes(remote)
        /\ run'.acks = [i \in Items |-> Recovered(i, remote)]
        /\ run'.result = [i \in Items |-> Settled(i, remote)]
        /\ run'.found = {Against(i, remote) : i \in Disputed(remote)}
    BY <2>1 DEF Shape, Typed, Rounds
  <2>3. Unwritten' = Writes(remote) /\ Writes(remote) \subseteq Items
    BY <2>2 DEF Unwritten, Writes
  <2>4. ASSUME NEW i \in Items
        PROVE  Carried(i, run.acks[i], run.result[i])' /\ Covered(i)'
    <3>1. Carried(i, Recovered(i, remote), Settled(i, remote))
      BY <2>1, FetchCarried
    <3>2. run'.acks[i] = Recovered(i, remote) /\ run'.result[i] = Settled(i, remote)
      BY <2>2
    <3>3. Carried(i, run.acks[i], run.result[i])'
      BY <2>2, <3>1, <3>2 DEF Carried, Committed, RecordOf, Batched
    <3>4. Covered(i)'
      <4> SUFFICES ASSUME i \in Batched, Edited(run.snap[i])
                   PROVE  run'.acks[i] # NoAck \/ (\E k \in run'.found : k.item = i) \/ i \in Unwritten'
        BY <2>2 DEF Covered, Told, Batched
      <4>1. Recovered(i, remote) # NoAck \/ i \in Disputed(remote) \/ i \in Writes(remote)
        BY <2>1, FetchCovered
      <4>2. i \in Disputed(remote) => Against(i, remote) \in run'.found /\ Against(i, remote).item = i
        BY <2>2, AgainstForeign
      <4> QED BY <2>3, <3>2, <4>1, <4>2
    <3> QED BY <3>3, <3>4
  <2>5. \A i \in Writes(remote) : run'.acks[i] = NoAck /\ run'.result[i] = run'.snap[i]
    BY <2>1, <2>2, <2>3, FetchWrites
  <2> QED BY <2>2, <2>3, <2>4, <2>5 DEF Provided
<1>4. CASE Return \/ Commit
  <2>1. CASE run' = Idle
    BY <1>1, <2>1 DEF Idle
  <2>2. CASE run' # Idle
    <3>1. /\ run'.batch = run.batch /\ run'.recs = run.recs /\ run'.snap = run.snap
          /\ run'.step = run.step /\ run'.todo = run.todo /\ run'.item = run.item
          /\ Untold /\ run.phase \in {"write", "commit"}
      BY <1>4, <2>2 DEF Return, Commit, At, Untold, Shape, Typed, Rounds
    <3> QED BY <3>1 DEF Provided, Carried, Covered, Told, Unwritten, Committed, RecordOf, Batched,
              Base, Untold
  <2> QED BY <2>1, <2>2
<1>5. CASE run.phase = "write" /\ run'.phase = "write" /\ run' # run
  <2>1. run'.batch = run.batch /\ run'.recs = run.recs /\ run'.snap = run.snap
    <3>1. ~Read /\ ~Prepare /\ run' # Idle
      BY <1>5 DEF Read, Prepare, Idle
    <3> QED BY <3>1, RunStep
  <2>2. Batched' = Batched
    BY <2>1 DEF Batched
  <2>3. /\ run.step # "none" => run.item \in Items /\ run.item \in Batched /\ run.item \in Unwritten
                                /\ run.item \notin run.todo
        /\ run.acks \in [Items -> Acks \cup {NoAck}] /\ run.result \in [Items -> ItemRecords]
        /\ run.todo \subseteq Items
    BY DEF Shape, OneWrite, Batched, Unwritten, Typed, Rounds
  <2>4. \A i \in Items : Carried(i, run.acks[i], run.result[i]) /\ Covered(i)
    BY <1>5 DEF Provided
  <2>5. CASE Taken \/ Advances
    <3>1. Unwritten' = Unwritten
      BY <2>5 DEF Unwritten, Taken, Advances
    <3>2. \A i \in Items : Carried(i, run.acks[i], run.result[i])'
      BY <2>1, <2>4, <2>5, SameCarried DEF Taken, Advances, Untold
    <3>3. \A i \in Items : Covered(i)'
      BY <2>1, <2>2, <2>4, <2>5, <3>1 DEF Covered, Told, Taken, Advances, Untold
    <3>4. \A i \in Unwritten' : run'.acks[i] = NoAck /\ run'.result[i] = run'.snap[i]
      BY <2>1, <2>5, <3>1 DEF Provided, Taken, Advances, Untold
    <3>5. run'.step \in {"trash", "confirm", "confirmed"} => ~Live(Base)'
      BY <2>5 DEF Provided, Taken, Advances, Untold, Base
    <3> QED BY <3>2, <3>3, <3>4, <3>5 DEF Provided
  <2>6. CASE GivenUp
    <3>1. Unwritten = run.todo \cup {run.item} /\ Unwritten' = run.todo /\ run'.step = "none"
      BY <2>6 DEF Unwritten, GivenUp, Over
    <3>2. \A i \in Items : Carried(i, run.acks[i], run.result[i])'
      BY <2>1, <2>4, <2>6, SameCarried DEF GivenUp
    <3>3. ASSUME NEW i \in Items PROVE Covered(i)'
      <4>1. Told(i) \/ i = run.item => Told(i)'
        BY <2>6, AgainstForeign DEF GivenUp, Told
      <4> QED BY <2>1, <2>2, <2>4, <2>6, <3>1, <4>1 DEF Covered, GivenUp
    <3>4. \A i \in Unwritten' : run'.acks[i] = NoAck /\ run'.result[i] = run'.snap[i]
      BY <2>1, <2>6, <3>1 DEF Provided, GivenUp
    <3> QED BY <3>1, <3>2, <3>3, <3>4 DEF Provided
  <2>7. ASSUME NEW verb \in Verbs, NEW c \in Ciphers, NEW copy \in Copies, Succeeds(verb, c, copy)
        PROVE  Provided'
    <3> DEFINE ack == Acknowledge(run.item, verb, c, copy.text)
               r == Decoded(copy, c)
    <3>1. /\ Unwritten = run.todo \cup {run.item} /\ Unwritten' = run.todo /\ run'.step = "none"
          /\ run.step # "none"
      BY <2>7 DEF Unwritten, Succeeds, Over
    <3>2. ack # NoAck /\ Carried(run.item, ack, r)
      BY <1>5, <2>7, <3>1, WriteCarried DEF Succeeds
    <3>3. /\ run'.acks = [run.acks EXCEPT ![run.item] = ack]
          /\ run'.result = [run.result EXCEPT ![run.item] = r]
          /\ run'.found = run.found
      BY <2>7 DEF Succeeds
    <3> HIDE DEF ack, r
    <3>4. /\ run'.acks[run.item] = ack /\ run'.result[run.item] = r
          /\ \A i \in Items : i # run.item => run'.acks[i] = run.acks[i] /\ run'.result[i] = run.result[i]
      BY <2>3, <3>1, <3>3
    <3>5. ASSUME NEW i \in Items PROVE Carried(i, run.acks[i], run.result[i])'
      <4>1. CASE i # run.item
        BY <2>1, <2>4, <3>4, <4>1, SameCarried
      <4>2. CASE i = run.item
        BY <2>1, <3>2, <3>4, <4>2 DEF Carried, Committed, RecordOf, Batched
      <4> QED BY <4>1, <4>2
    <3>6. ASSUME NEW i \in Items PROVE Covered(i)'
      BY <2>1, <2>2, <2>4, <3>1, <3>2, <3>3, <3>4 DEF Covered, Told
    <3>7. \A i \in Unwritten' : run'.acks[i] = NoAck /\ run'.result[i] = run'.snap[i]
      BY <2>1, <2>3, <3>1, <3>4 DEF Provided
    <3> QED BY <3>1, <3>5, <3>6, <3>7 DEF Provided
  <2> QED BY <1>5, <2>5, <2>6, <2>7, WriteKinds
<1> QED BY <1>1, <1>2, <1>3, <1>4, <1>5, PhaseAfter DEF Idle

-----------------------------------------------------------------------------
(* The merge.                                                                *)
LEMMA AckSettles ==
  ASSUME Shape, Numbered(run.batch), Applicable, NEW i \in Items, run.acks[i] # NoAck
  PROVE  Settles(i) /\ queue[i].id = run.acks[i].id /\ AckOf(queue[i].id) = i
<1> DEFINE d == run.acks[i].id
<1>1. d \in AckedIds
  BY DEF AckedIds, Acked
<1>2. PICK j \in Items : Settles(j) /\ queue[j].id = d
  BY <1>1 DEF Applicable
<1>3. AckOf(d) = j
  BY <1>2 DEF Applicable, Contradicted
<1>4. AckOf(d) \in Items /\ run.acks[AckOf(d)] # NoAck /\ run.acks[AckOf(d)].id = d
  BY <1>1, AckedItem
<1>5. i \in Batched /\ IdOf(i) = d /\ IdOf(j) = d
  BY <1>3, <1>4 DEF Shape, OneWrite
<1>6. i = j
  BY <1>5 DEF Numbered, IdOf, Batched
<1> QED BY <1>2, <1>3, <1>6

LEMMA VerdictCases ==
  ASSUME NEW i
  PROVE  /\ Verdict(i) \in {"theirs", "reference", "removed", "conflict", "mine"}
         /\ Verdict(i) = "removed" => Trash(local[i])
         /\ Verdict(i) = "theirs" =>
              \/ run.snap[i] = NoItem /\ local[i] = NoItem
              \/ ~LocallyChanged(i) /\ (Present(local[i]) /\ run.acks[i] # NoAck => ~run.acks[i].followUp)
         /\ Verdict(i) = "reference" =>
              /\ Present(local[i]) /\ run.snap[i] # NoItem
              /\ run.acks[i] # NoAck \/ (~Bound(run.snap[i]) /\ Bound(run.result[i]))
BY DEF Verdict

LEMMA SameFields ==
  ASSUME NEW a \in ItemRecords, NEW b \in ItemRecords, SameItem(a, b)
  PROVE  /\ a.status = b.status /\ a.text = b.text /\ a.cipher = b.cipher
         /\ (Edited(a) <=> Edited(b)) /\ (Live(a) <=> Live(b)) /\ (Bound(a) <=> Bound(b))
<1>1. a.status = b.status /\ a.text = b.text /\ a.cipher = b.cipher /\ a.at = b.at /\ a.rev = b.rev
  BY DEF SameItem, ItemRecords
<1> QED BY <1>1 DEF Edited, Live, Trash, ItemChanged, Bound

LEMMA MergedPlain ==
  ASSUME Shape, Sane, NEW i \in Items
  PROVE  Plain(Merged(i))
<1>1. Plain(local[i]) /\ Plain(run.result[i]) /\ local[i] \in ItemRecords
  BY DEF Sane, Shape, Typed
<1>2. Verdict(i) = "reference" => WithReference(i).status = local[i].status /\ Present(local[i])
  BY <1>1, VerdictCases DEF WithReference, ItemRecords
<1>3. Verdict(i) = "reference" => Plain(WithReference(i))
  BY <1>2 DEF Plain, Present
<1> QED BY <1>1, <1>3, EmptyPlain DEF Merged

LEMMA MergeUnbound ==
  ASSUME Shape, Numbered(run.batch), Sane, Provided, run.phase = "apply", Applicable,
         NEW i \in Items, NextEntry(i).verb = "create", Edited(Merged(i))
  PROVE  ~Bound(Merged(i))
<1>0. /\ local[i] \in ItemRecords /\ run.snap[i] \in ItemRecords /\ run.result[i] \in ItemRecords
      /\ Carried(i, run.acks[i], run.result[i]) /\ Plain(run.snap[i])
  BY DEF Shape, Typed, Rounds, Provided, Sane
<1>1. queue[i] # NoEntry
  BY DEF NextEntry, NoEntry
<1>2. ~Settles(i)
  <2>1. CASE InConflict(i) \/ queue[i].id \in run.deferred
    BY <2>1 DEF Settles
  <2>2. CASE ~(InConflict(i) \/ queue[i].id \in run.deferred)
    <3>1. Settles(i) => NextEntry(i).verb \in {"delete", "update", "none"}
      BY <1>1, <2>2 DEF NextEntry, NoEntry, Shape, Typed, Entries
    <3> QED BY <3>1
  <2> QED BY <2>1, <2>2
<1>3. run.acks[i] = NoAck
  BY <1>2, AckSettles
<1>4. CASE ~(InConflict(i) \/ queue[i].id \in run.deferred)
  <2>1. NextEntry(i) = [queue[i] EXCEPT !.verb = VerbOf(i)]
    BY <1>1, <1>2, <1>4 DEF NextEntry, NoEntry
  <2>2. NextEntry(i).verb = VerbOf(i)
    BY <1>1, <2>1 DEF Shape, Typed, Entries
  <2> QED BY <2>2 DEF VerbOf
<1>5. CASE InConflict(i) \/ queue[i].id \in run.deferred
  <2>1. queue[i].verb = "create" /\ (Edited(local[i]) => ~Bound(local[i]))
    BY <1>5 DEF NextEntry, Sane, CreateUnbound
  <2>2. CASE Verdict(i) \in {"mine", "conflict"}
    BY <2>1, <2>2 DEF Merged
  <2>3. CASE Verdict(i) = "removed"
    BY <2>3, EmptyPlain DEF Merged
  <2>4. CASE Verdict(i) = "reference"
    <3>1. Present(run.snap[i])
      BY <1>0, <2>4, VerdictCases DEF Plain, Present, ItemRecords
    <3> QED BY <1>0, <1>3, <2>4, <3>1, VerdictCases DEF Carried
  <2>5. CASE Verdict(i) = "theirs"
    <3>1. Merged(i) = run.result[i]
      BY <2>5 DEF Merged
    <3>2. Edited(run.snap[i]) /\ run.result[i] = [run.snap[i] EXCEPT !.rev = run.result[i].rev]
      BY <1>0, <1>3, <3>1 DEF Carried
    <3>3. run.snap[i] # NoItem
      BY <3>2, EmptyPlain
    <3>4. SameItem(local[i], run.snap[i])
      BY <2>5, <3>3, VerdictCases DEF LocallyChanged
    <3>5. ~Bound(run.snap[i])
      BY <1>0, <2>1, <3>2, <3>4, SameFields
    <3>6. run.result[i].cipher = run.snap[i].cipher
      BY <1>0, <3>2 DEF ItemRecords
    <3> QED BY <3>1, <3>5, <3>6 DEF Bound
  <2> QED BY <2>2, <2>3, <2>4, <2>5, VerdictCases
<1> QED BY <1>4, <1>5

(* What a merge keeps of an edited item. *)
LEMMA MergeKeeps ==
  ASSUME Shape, Numbered(run.batch), Provided, run.phase = "apply", Applicable,
         NEW i \in Items, Unacknowledged(i), ~Committed(i)
  PROVE  /\ Merged(i).text = local[i].text
         /\ queue[i] # NoEntry /\ (run.batch[i] # NoEntry \/ local[i].text # run.snap[i].text)
              => NextEntry(i) # NoEntry
<1>0. /\ local[i] \in ItemRecords /\ run.snap[i] \in ItemRecords /\ run.result[i] \in ItemRecords
      /\ Carried(i, run.acks[i], run.result[i]) /\ Covered(i)
      /\ Live(local[i]) /\ Edited(local[i]) /\ local[i] # NoItem /\ Present(local[i]) /\ ~Trash(local[i])
      /\ local[i].text # run.acks[i].wrote
  BY EmptyPlain DEF Shape, Typed, Rounds, Provided, Unacknowledged, Edited, Live, Present, Trash
<1>1. ASSUME ~LocallyChanged(i), run.acks[i] # NoAck => ~run.acks[i].followUp
      PROVE  /\ run.acks[i] = NoAck /\ Edited(run.snap[i]) /\ run.snap[i].text = local[i].text
             /\ run.result[i] = [run.snap[i] EXCEPT !.rev = run.result[i].rev]
  <2>1. Edited(run.snap[i]) /\ Live(run.snap[i]) /\ run.snap[i].text = local[i].text
    BY <1>0, <1>1, SameFields DEF LocallyChanged
  <2> QED BY <1>0, <1>1, <2>1 DEF Carried
<1>2. Merged(i).text = local[i].text
  <2>1. CASE Verdict(i) = "theirs"
    <3>1. Merged(i) = run.result[i]
      BY <2>1 DEF Merged
    <3>2. ~LocallyChanged(i) /\ (run.acks[i] # NoAck => ~run.acks[i].followUp)
      BY <1>0, <2>1, VerdictCases
    <3>3. run.result[i] = [run.snap[i] EXCEPT !.rev = run.result[i].rev]
      BY <1>1, <3>2
    <3>4. run.result[i].text = run.snap[i].text
      BY <1>0, <3>3 DEF ItemRecords
    <3> QED BY <1>1, <3>1, <3>2, <3>4
  <2>2. CASE Verdict(i) = "reference"
    BY <1>0, <2>2 DEF Merged, WithReference, ItemRecords
  <2>3. CASE Verdict(i) \in {"mine", "conflict"}
    BY <2>3 DEF Merged
  <2> QED BY <1>0, <2>1, <2>2, <2>3, VerdictCases
<1>3. ASSUME queue[i] # NoEntry, run.batch[i] # NoEntry \/ local[i].text # run.snap[i].text,
             NextEntry(i) = NoEntry
      PROVE  FALSE
  <2>1. ~InConflict(i) /\ queue[i].id \notin run.deferred
    BY <1>3 DEF NextEntry
  <2>2. Changed(i) <=> LocallyChanged(i)
    BY <1>0, VerdictCases DEF Changed
  <2>3. \A v : [queue[i] EXCEPT !.verb = v] # NoEntry
    <3>1. queue[i].id # 0 /\ \A v : [queue[i] EXCEPT !.verb = v].id = queue[i].id
      BY <1>3, EntryIds DEF Shape, Typed, Entries
    <3> QED BY <3>1 DEF NoEntry
  <2>4. CASE Settles(i)
    <3>1. ~run.acks[i].followUp /\ ~LocallyChanged(i)
      BY <1>3, <2>1, <2>2, <2>3, <2>4 DEF NextEntry
    <3>2. run.acks[i] # NoAck
      <4>1. queue[i].id \in AckedIds /\ AckOf(queue[i].id) = i
        BY <2>4 DEF Settles, Applicable, Contradicted
      <4> QED BY <4>1, AckedItem
    <3> QED BY <1>1, <3>1, <3>2
  <2>5. CASE ~Settles(i)
    <3>1. run.acks[i] = NoAck /\ ~LocallyChanged(i)
      BY <1>3, <2>1, <2>2, <2>3, <2>5, AckSettles DEF NextEntry
    <3>2. Edited(run.snap[i]) /\ run.snap[i].text = local[i].text
      BY <1>1, <3>1
    <3>3. i \in Batched
      BY <1>3, <3>2 DEF Batched
    <3>4. i \notin Unwritten
      BY DEF Unwritten, Shape, OneWrite
    <3>5. Told(i)
      BY <1>0, <3>1, <3>2, <3>3, <3>4 DEF Covered
    <3> QED BY <2>1, <3>5 DEF InConflict, Disagreements, Told
  <2> QED BY <2>4, <2>5
<1> QED BY <1>2, <1>3

-----------------------------------------------------------------------------
(* The vault and the round stay sane.                                        *)
SaneVault == (\A i \in Items : Plain(local[i])) /\ Foreign(conflicts) /\ CreateUnbound(queue, local)
SaneRound == /\ \A i \in Items : Plain(run.snap[i]) /\ Plain(run.result[i])
             /\ Foreign(run.found) /\ CreateUnbound(run.batch, run.snap)

LEMMA SaneParts == Sane <=> SaneVault /\ SaneRound
BY DEF Sane, SaneVault, SaneRound

LEMMA EnqueueUnbound ==
  ASSUME Typed, CreateUnbound(queue, local), NEW i \in Items, NEW item, NEW verb \in Verbs,
         Enqueue(i, item, verb), NEW r, Put(i, r),
         Bound(r) => Bound(item) \/ ~Edited(r)
  PROVE  CreateUnbound(queue, local)'
<1>1. /\ queue'[i] = Queued(queue[i], item, verb) /\ local'[i] = r
      /\ \A j \in Items : j # i => queue'[j] = queue[j] /\ local'[j] = local[j]
  BY DEF Enqueue, Put, Typed
<1>2. Queued(queue[i], item, verb).verb = "create" => ~Bound(item)
  BY DEF Queued, NoEntry
<1> QED BY <1>1, <1>2 DEF CreateUnbound

LEMMA EditSane ==
  ASSUME Typed, SaneVault, NEW i \in Items, Create(i) \/ Edit(i) \/ Delete(i) \/ Restore(i)
  PROVE  SaneVault'
<1>0. /\ local[i] \in ItemRecords /\ conflicts' = conflicts /\ CreateUnbound(queue, local)
      /\ Foreign(conflicts) /\ \A j \in Items : Plain(local[j])
  BY DEF Typed, SaneVault, Create, Edit, Delete, Restore
<1>1. ASSUME NEW r, Put(i, r), r.status # "none" PROVE \A j \in Items : Plain(local'[j])
  BY <1>0, <1>1 DEF Put, Typed, Plain
<1>2. CASE Create(i)
  <2> DEFINE r == [NoItem EXCEPT !.status = "live", !.text = now', !.at = now']
  <2>1. Put(i, r) /\ Enqueue(i, local'[i], "create") /\ local'[i] = r
    BY <1>2 DEF Create, Put, Typed
  <2>2. r.status # "none" /\ ~Bound(r)
    BY DEF NoItem, Bound
  <2> HIDE DEF r
  <2> QED BY <1>0, <1>1, <2>1, <2>2, EnqueueUnbound DEF SaneVault, Verbs
<1>3. CASE Edit(i)
  <2> DEFINE r == [local[i] EXCEPT !.text = now', !.at = now']
  <2>1. Put(i, r) /\ Enqueue(i, local[i], "update") /\ Live(local[i])
    BY <1>3 DEF Edit
  <2>2. r.status # "none" /\ (Bound(r) => Bound(local[i]))
    BY <1>0, <2>1 DEF ItemRecords, Bound, Live
  <2> HIDE DEF r
  <2> QED BY <1>0, <1>1, <2>1, <2>2, EnqueueUnbound DEF SaneVault, Verbs
<1>4. CASE Delete(i)
  <2> DEFINE r == [local[i] EXCEPT !.status = "trash", !.at = now']
  <2>1. Put(i, r) /\ Enqueue(i, local[i], "delete")
    BY <1>4 DEF Delete
  <2>2. r.status # "none" /\ ~Edited(r)
    BY <1>0 DEF ItemRecords, Edited, Live
  <2> HIDE DEF r
  <2> QED BY <1>0, <1>1, <2>1, <2>2, EnqueueUnbound DEF SaneVault, Verbs
<1>5. CASE Restore(i)
  <2> DEFINE r == [local[i] EXCEPT !.status = "live", !.at = now']
  <2>1. Put(i, r)
    BY <1>5 DEF Restore
  <2>2. r.status # "none" /\ (Bound(r) => Bound(local[i]))
    BY <1>0 DEF ItemRecords, Bound
  <2> HIDE DEF r
  <2>3. CASE queue[i].verb # "delete"
    <3>1. Enqueue(i, local[i], "update")
      BY <1>5, <2>3 DEF Restore
    <3> QED BY <1>0, <1>1, <2>1, <2>2, <3>1, EnqueueUnbound DEF SaneVault, Verbs
  <2>4. CASE queue[i].verb = "delete"
    <3>1. queue' \in {queue, [queue EXCEPT ![i] = NoEntry]}
      BY <1>5, <2>4 DEF Restore
    <3>2. queue'[i].verb # "create" /\ \A j \in Items : j # i => queue'[j] = queue[j]
      BY <2>4, <3>1 DEF Typed, NoEntry
    <3>3. \A j \in Items : j # i => local'[j] = local[j]
      BY <2>1 DEF Put, Typed
    <3>4. CreateUnbound(queue, local)'
      BY <1>0, <3>2, <3>3 DEF CreateUnbound
    <3> QED BY <1>0, <1>1, <2>1, <2>2, <3>4 DEF SaneVault
  <2> QED BY <2>3, <2>4
<1> QED BY <1>2, <1>3, <1>4, <1>5

LEMMA DecideSane ==
  ASSUME Typed, SaneVault, NEW k \in conflicts, k \in Conflicts, KeepLocal(k) \/ UseRemote(k)
  PROVE  SaneVault'
<1>0. /\ k.item \in Items /\ k.id \in Items /\ local[k.item] \in ItemRecords
      /\ CreateUnbound(queue, local) /\ \A j \in Items : Plain(local[j])
      /\ Plain(k.remote) /\ (k.id # k.item => ~Edited(k.remote)) /\ conflicts' \subseteq conflicts
  BY DEF Conflicts, Typed, SaneVault, Foreign, KeepLocal, UseRemote, Decide
<1>1. Foreign(conflicts)'
  BY <1>0 DEF SaneVault, Foreign
<1>2. CASE KeepLocal(k)
  <2> DEFINE kept == [local[k.item] EXCEPT
               !.cipher = k.remote.cipher, !.rev = k.remote.at, !.basis = k.remote.basis]
             verb == IF Trash(kept) THEN "delete" ELSE "update"
  <2>1. Put(k.item, kept) /\ Enqueue(k.item, kept, verb) /\ Present(local[k.item]) /\ verb \in Verbs
    BY <1>2 DEF KeepLocal, Verbs
  <2>2. kept.status # "none"
    BY <1>0, <2>1 DEF ItemRecords, Present
  <2> HIDE DEF kept, verb
  <2>3. \A j \in Items : Plain(local'[j])
    BY <1>0, <2>1, <2>2 DEF Put, Typed, Plain
  <2> QED BY <1>0, <1>1, <2>1, <2>3, EnqueueUnbound DEF SaneVault
<1>3. CASE UseRemote(k)
  <2>1. /\ local' = [local EXCEPT ![k.item] = NoItem, ![k.id] = k.remote]
        /\ queue' = [queue EXCEPT ![k.item] = NoEntry]
    BY <1>3 DEF UseRemote
  <2>2. \A j \in Items : local'[j] \in {local[j], NoItem, k.remote}
    BY <1>0, <2>1 DEF Typed
  <2>3. ASSUME NEW j \in Items, queue'[j].verb = "create", Edited(local'[j]) PROVE ~Bound(local'[j])
    <3>1. j # k.item /\ queue'[j] = queue[j]
      BY <1>0, <2>1, <2>3 DEF Typed, NoEntry
    <3>2. j # k.id
      BY <1>0, <2>1, <2>3, <3>1 DEF Typed
    <3> QED BY <1>0, <2>1, <2>3, <3>1, <3>2 DEF CreateUnbound, Typed
  <2> QED BY <1>0, <1>1, <2>2, <2>3, EmptyPlain DEF SaneVault, CreateUnbound
<1> QED BY <1>2, <1>3

LEMMA ApplySane ==
  ASSUME Shape, Numbered(run.batch), Sane, Provided, Apply
  PROVE  SaneVault'
<1>1. CASE ~Applicable
  BY <1>1, SaneParts DEF Apply, SaneVault
<1>2. CASE Applicable
  <2>1. PICK fresh :
          queue' = [i \in Items |->
                 IF i \in Requeued THEN [id |-> fresh[i], verb |-> "delete"] ELSE NextEntry(i)]
    BY <1>2 DEF Apply
  <2>2. local' = [i \in Items |-> Merged(i)] /\ conflicts' = Disagreements /\ run.phase = "apply"
    BY <1>2 DEF Apply
  <2>3. \A i \in Items : Plain(local'[i])
    BY <2>2, MergedPlain
  <2>4. Foreign(conflicts)'
    BY <2>2 DEF Disagreements, Foreign, Sane
  <2>5. \A i \in Items : queue'[i].verb = "create" => queue'[i] = NextEntry(i)
    BY <2>1
  <2>6. CreateUnbound(queue, local)'
    BY <1>2, <2>2, <2>5, MergeUnbound DEF CreateUnbound
  <2> QED BY <2>3, <2>4, <2>6 DEF SaneVault
<1> QED BY <1>1, <1>2

LEMMA NextSaneVault ==
  ASSUME Shape, Numbered(run.batch), Sane, Provided, [Next]_vars
  PROVE  SaneVault'
<1>1. CASE User
  BY <1>1, UserCases, EditSane, DecideSane, SaneParts DEF Shape
<1>2. CASE Apply
  BY <1>2, ApplySane
<1>3. CASE ~User /\ ~Apply
  <2>1. UNCHANGED <<local, queue, conflicts>>
    BY <1>3, Zenon DEF Next, Sync, OtherDevice, Read, Refuse, Prepare, Fetch, Take, Revive, Mark,
       SendPut, SendPost, SendTrash, Confirm, Return, Commit, Clear, Stop, vault, vars
  <2> QED BY <2>1, SaneParts DEF SaneVault
<1> QED BY <1>1, <1>2, <1>3

LEMMA NextSaneRound ==
  ASSUME Shape, Sane, [Next]_vars
  PROVE  SaneRound'
<1>0. SaneRound /\ SaneVault
  BY SaneParts
<1>1. CASE run' = Idle
  BY <1>1, EmptyPlain DEF SaneRound, Idle, Foreign, CreateUnbound, NoEntry
<1>2. CASE run' = run
  BY <1>0, <1>2 DEF SaneRound
<1>3. CASE Read
  <2>1. PICK chosen \in SUBSET Items : run' = [Idle EXCEPT
          !.phase = "read", !.snap = local, !.recs = receipt',
          !.batch = [j \in Items |-> IF j \in chosen THEN queue[j] ELSE NoEntry],
          !.deferred = {queue[j].id : j \in Items \ chosen} \ {0}]
    BY <1>3 DEF Read
  <2>2. /\ run'.snap = local /\ run'.found = {} /\ run'.result = [i \in Items |-> NoItem]
        /\ run'.batch = [j \in Items |-> IF j \in chosen THEN queue[j] ELSE NoEntry]
    BY <2>1 DEF Idle
  <2>3. NoEntry.verb # "create"
    BY DEF NoEntry
  <2> QED BY <1>0, <2>2, <2>3, EmptyPlain DEF SaneRound, SaneVault, Foreign, CreateUnbound
<1>4. CASE Prepare \/ Return \/ Commit \/ Apply
  <2>1. ASSUME NEW recs, run' = [run EXCEPT !.phase = "ready", !.recs = recs]
        PROVE  /\ run'.snap = run.snap /\ run'.batch = run.batch
               /\ run'.result = run.result /\ run'.found = run.found
    BY <2>1 DEF Shape, Typed, Rounds
  <2>2. Prepare => run' = Idle \/ \E recs : run' = [run EXCEPT !.phase = "ready", !.recs = recs]
    BY Zenon DEF Prepare
  <2>3. CASE run' # Idle
    <3>1. /\ run'.snap = run.snap /\ run'.batch = run.batch
          /\ run'.result = run.result /\ run'.found = run.found
      BY <1>4, <2>1, <2>2, <2>3 DEF Return, Commit, Apply, Shape, Typed, Rounds
    <3> QED BY <1>0, <3>1 DEF SaneRound
  <2> QED BY <1>1, <2>3
<1>5. CASE Fetch
  <2>1. run' = [run EXCEPT
             !.phase = "write", !.seen = remote,
             !.acks = [i \in Items |-> Recovered(i, remote)],
             !.result = [i \in Items |-> Settled(i, remote)],
             !.found = {Against(i, remote) : i \in Disputed(remote)},
             !.todo = Writes(remote)]
    BY <1>5 DEF Fetch
  <2>2. /\ run'.snap = run.snap /\ run'.batch = run.batch
        /\ run'.result = [i \in Items |-> Settled(i, remote)]
        /\ run'.found = {Against(i, remote) : i \in Disputed(remote)}
    BY <2>1 DEF Shape, Typed, Rounds
  <2>3. Foreign(run'.found)
    BY <2>2, AgainstForeign DEF Foreign
  <2> QED BY <1>0, <2>2, <2>3, SettledPlain DEF SaneRound
<1>6. CASE run.phase = "write" /\ run'.phase = "write" /\ run' # run
  <2>1. run'.batch = run.batch /\ run'.snap = run.snap
    <3>1. ~Read /\ ~Prepare /\ run' # Idle
      BY <1>6 DEF Read, Prepare, Idle
    <3> QED BY <3>1, RunStep
  <2>2. Taken \/ Advances => run'.result = run.result /\ run'.found = run.found
    BY DEF Taken, Advances, Untold
  <2>3. GivenUp => run'.result = run.result /\ Foreign(run'.found)
    BY <1>0, AgainstForeign DEF GivenUp, SaneRound, Foreign
  <2>4. ASSUME NEW verb, NEW c, NEW copy, Succeeds(verb, c, copy)
        PROVE  run'.found = run.found /\ \A i \in Items : Plain(run'.result[i])
    <3>1. run'.result = [run.result EXCEPT ![run.item] = Decoded(copy, c)] /\ run'.found = run.found
      BY <2>4 DEF Succeeds
    <3>2. run.result \in [Items -> ItemRecords]
      BY DEF Shape, Typed, Rounds
    <3>3. \A i \in Items : run'.result[i] \in {run.result[i], Decoded(copy, c)}
      BY <3>1, <3>2
    <3> QED BY <1>0, <3>1, <3>3, DecodedPlain DEF SaneRound
  <2> QED BY <1>0, <1>6, <2>1, <2>2, <2>3, <2>4, WriteKinds DEF SaneRound
<1> QED BY <1>1, <1>2, <1>3, <1>4, <1>5, <1>6, PhaseAfter

Careful == Ind /\ Sane /\ Provided

LEMMA InitCareful == Init => Careful
<1> SUFFICES ASSUME Init PROVE Careful
  OBVIOUS
<1>1. run = Idle /\ run.phase = "idle" /\ run.todo = {} /\ run.step = "none"
  BY DEF Init, Idle
<1>2. Provided
  BY <1>1 DEF Provided, Unwritten
<1>3. SaneVault
  <2>1. \A i \in Items : Plain(local[i]) /\ queue[i].verb # "create"
    BY DecodedPlain, EmptyPlain DEF Init, NoEntry
  <2> QED BY <2>1 DEF SaneVault, Init, Foreign, CreateUnbound
<1>4. SaneRound
  BY <1>1, EmptyPlain DEF SaneRound, Idle, Foreign, CreateUnbound, NoEntry
<1> QED BY <1>2, <1>3, <1>4, InitInd, SaneParts DEF Careful

LEMMA NextCareful == ASSUME Careful, [Next]_vars PROVE Careful'
<1>1. Shape /\ Numbered(run.batch) /\ Agreed /\ Sane /\ Provided
  BY DEF Careful, Ind, Shape
<1>2. Ind'
  BY NextInd DEF Careful
<1>3. Provided' /\ SaneVault' /\ SaneRound'
  BY <1>1, NextProvided, NextSaneVault, NextSaneRound
<1>4. Sane'
  BY <1>3, SaneParts, PTL
<1> QED BY <1>2, <1>3, <1>4 DEF Careful

(* Synchronization keeps an edit that it has not acknowledged.               *)
THEOREM EditsAreKept == Spec => SyncKeepsEdits
<1>1. ASSUME Careful, [Next]_vars, run' # run, NEW i \in Items, Unacknowledged(i), ~Committed(i)
      PROVE  Kept(i)
  <2>1. Shape /\ Numbered(run.batch) /\ Provided
    BY <1>1 DEF Careful, Ind, Shape
  <2>2. CASE Apply /\ Applicable
    <3>1. PICK fresh :
            queue' = [j \in Items |->
                   IF j \in Requeued THEN [id |-> fresh[j], verb |-> "delete"] ELSE NextEntry(j)]
      BY <2>2 DEF Apply
    <3>2. local' = [j \in Items |-> Merged(j)] /\ run.phase = "apply"
      BY <2>2 DEF Apply
    <3>3. queue'[i] = NextEntry(i) \/ queue'[i].verb = "delete"
      BY <3>1
    <3>4. NoEntry.verb # "delete"
      BY DEF NoEntry
    <3> QED BY <1>1, <2>1, <2>2, <3>2, <3>3, <3>4, MergeKeeps DEF Kept
  <2>3. CASE ~(Apply /\ Applicable)
    <3>1. ~User
      BY <1>1, <2>1, UserReceipts DEF Shape
    <3>2. UNCHANGED <<local, queue>>
      BY <1>1, <2>3, <3>1, Zenon DEF Next, Sync, OtherDevice, Read, Refuse, Prepare, Fetch, Take,
         Revive, Mark, SendPut, SendPost, SendTrash, Confirm, Return, Commit, Apply, Clear, Stop,
         vault, vars
    <3> QED BY <3>2 DEF Kept
  <2> QED BY <2>2, <2>3
<1>2. Careful /\ [Next]_vars =>
        [run' # run => \A i \in Items : Unacknowledged(i) /\ ~Committed(i) => Kept(i)]_vars
  BY <1>1
<1> QED BY <1>2, InitCareful, NextCareful, PTL DEF Spec, SyncKeepsEdits
=============================================================================
