------------------------- MODULE AutomaticSyncProofs --------------------------
(* What the scheduler owes its sources, for every set of sources, number of  *)
(* slots and delays.                                                         *)
EXTENDS AutomaticSync, FiniteSetTheorems, WellFoundedInduction, TLAPS

Typed ==
  /\ jobs \in [Sources -> Jobs \cup {NoJob}]
  /\ owed \in [Sources -> Hints]
  /\ runs \in [Slots -> [source : Sources, hint : Hints \ {none}, owes : Hints,
                         stale : BOOLEAN] \cup {Free}]
(* What a source was given waits in its job, at least as strong. *)
Owing == \A s \in Sources : owed[s] <= jobs[s].pending
(* The wait a server asked for is part of the wait of the job. *)
Waits == \A s \in Sources : jobs[s].floor <= jobs[s].retry

(* A run that is not stale is the run of a job. *)
Owned == \A k \in Slots : runs[k] # Free /\ ~runs[k].stale => HasJob(runs[k].source)

Ind == Typed /\ Owing /\ Waits /\ Owned /\ HintsHonoured

LEMMA Initially == Init => Ind
<1> SUFFICES ASSUME Init PROVE Ind
  OBVIOUS
<1>1. Typed
  BY DEF Init, Typed, Hints, none
<1>2. Owing /\ Waits
  BY DEF Init, Owing, Waits, NoJob, none
<1>3. Owned /\ HintsHonoured
  BY DEF Init, Owned, HintsHonoured
<1> QED BY <1>1, <1>2, <1>3 DEF Ind

LEMMA HasJobType ==
  ASSUME Ind, NEW s \in Sources, jobs[s] # NoJob
  PROVE  jobs[s] \in Jobs
BY DEF Ind, Typed

LEMMA MergesUp ==
  ASSUME NEW a \in Hints, NEW b \in Hints, NEW m \in Merges(a, b)
  PROVE  m \in Hints /\ a <= m /\ b <= m
BY DEF Hints, Merges, AtLeast, ciphers, full

(* A step that gives one job its next state, and no run anything. *)
LEMMA OneJob ==
  ASSUME Ind, NEW s \in Sources, NEW j \in Jobs \cup {NoJob}, NEW h \in Hints,
         jobs' = [jobs EXCEPT ![s] = j], owed' = [owed EXCEPT ![s] = h],
         h <= j.pending, j.floor <= j.retry
  PROVE  /\ jobs' \in [Sources -> Jobs \cup {NoJob}] /\ owed' \in [Sources -> Hints]
         /\ Owing' /\ Waits'
<1> USE DEF Ind, Typed
<1>1. jobs' \in [Sources -> Jobs \cup {NoJob}] /\ owed' \in [Sources -> Hints]
  OBVIOUS
<1>2. \A x \in Sources : x # s => jobs'[x] = jobs[x] /\ owed'[x] = owed[x]
  OBVIOUS
<1>3. jobs'[s] = j /\ owed'[s] = h
  OBVIOUS
<1>4. Owing'
  BY <1>2, <1>3 DEF Owing
<1>5. Waits'
  BY <1>2, <1>3 DEF Waits
<1> QED BY <1>1, <1>4, <1>5

(* A run that gives its slot back, and one whose job is dropped, owes no more *)
(* than before.                                                              *)
LEMMA FewerRuns ==
  ASSUME Ind,
         \/ \E k \in Slots : runs' = [runs EXCEPT ![k] = Free]
         \/ \E dropped : runs' = Abandoned(dropped)
         \/ UNCHANGED runs
  PROVE  /\ runs' \in [Slots -> [source : Sources, hint : Hints \ {none}, owes : Hints,
                                 stale : BOOLEAN] \cup {Free}]
         /\ HintsHonoured'
<1> USE DEF Ind, Typed
<1>1. CASE \E k \in Slots : runs' = [runs EXCEPT ![k] = Free]
  BY <1>1 DEF HintsHonoured
<1>2. ASSUME NEW dropped, runs' = Abandoned(dropped)
      PROVE  /\ runs' \in [Slots -> [source : Sources, hint : Hints \ {none}, owes : Hints,
                                     stale : BOOLEAN] \cup {Free}]
             /\ HintsHonoured'
  <2>1. \A k \in Slots : runs[k] # Free =>
           /\ [runs[k] EXCEPT !.stale = TRUE] \in
                [source : Sources, hint : Hints \ {none}, owes : Hints, stale : BOOLEAN]
           /\ [runs[k] EXCEPT !.stale = TRUE].hint = runs[k].hint
           /\ [runs[k] EXCEPT !.stale = TRUE].owes = runs[k].owes
    OBVIOUS
  <2>2. \A k \in Slots : runs'[k] = runs[k] \/ (runs[k] # Free /\ runs'[k] = [runs[k] EXCEPT !.stale = TRUE])
    BY <1>2 DEF Abandoned
  <2>3. DOMAIN runs' = Slots /\ runs' = [k \in Slots |-> runs'[k]]
    BY <1>2 DEF Abandoned
  <2> QED BY <2>1, <2>2, <2>3 DEF HintsHonoured
<1>3. CASE UNCHANGED runs
  BY <1>3 DEF HintsHonoured
<1> QED BY <1>1, <1>2, <1>3

LEMMA Delays == Interval \in Nat /\ Debounce \in Nat /\ MaxBackoff \in Nat
BY DelaysAssumption

LEMMA SettledType ==
  ASSUME NEW x \in Jobs
  PROVE  /\ Settled(x) \in Jobs /\ Settled(x).pending = x.pending
         /\ Settled(x).floor = 0 /\ Settled(x).retry = 0
BY Delays DEF Jobs, Settled

LEMMA JobIsNotNone == ASSUME NEW j \in Jobs PROVE j # NoJob
BY DEF Jobs, NoJob

(* A step of one job: it stays a job, and at most one run gives its slot back. *)
LEMMA JobStep ==
  ASSUME Ind, NEW s \in Sources, NEW j \in Jobs, NEW h \in Hints,
         jobs' = [jobs EXCEPT ![s] = j], owed' = [owed EXCEPT ![s] = h],
         h <= j.pending, j.floor <= j.retry,
         UNCHANGED runs \/ \E k \in Slots : runs' = [runs EXCEPT ![k] = Free]
  PROVE  Ind'
<1>1. Typed' /\ HintsHonoured'
  BY OneJob, FewerRuns DEF Typed
<1>2. Owing' /\ Waits'
  BY OneJob
<1>3. \A x \in Sources : HasJob(x) => jobs'[x] # NoJob
  BY JobIsNotNone DEF Ind, Typed, HasJob
<1>4. \A k \in Slots : runs'[k] # Free => runs'[k] = runs[k]
  BY DEF Ind, Typed
<1>5. Owned'
  <2> SUFFICES ASSUME NEW k \in Slots, runs'[k] # Free, ~runs'[k].stale
               PROVE  jobs'[runs'[k].source] # NoJob
    BY DEF Owned, HasJob
  <2>1. runs'[k] = runs[k] /\ runs[k].source \in Sources
    BY <1>4 DEF Ind, Typed
  <2>2. HasJob(runs[k].source)
    BY <2>1 DEF Ind, Owned
  <2> QED BY <2>1, <2>2, <1>3
<1> QED BY <1>1, <1>2, <1>5 DEF Ind

LEMMA AskedStep ==
  ASSUME Ind, NEW s \in Sources, HasJob(s), NEW hint \in Hints, NEW retry \in Nat,
         jobs[s].floor <= retry, Asked(s, hint, retry), UNCHANGED runs
  PROVE  Ind'
<1>1. jobs[s] \in Jobs /\ owed[s] \in Hints /\ owed[s] <= jobs[s].pending
  BY HasJobType DEF HasJob, Ind, Typed, Owing
<1>2. PICK merged \in Merges(jobs[s].pending, hint) :
        /\ jobs' = [jobs EXCEPT ![s].pending = merged, ![s].due = DueAfter(jobs[s]),
                                ![s].retry = retry]
        /\ owed' = [owed EXCEPT ![s] = AtLeast(@, hint)]
  BY DEF Asked
<1>3. merged \in Hints /\ jobs[s].pending <= merged /\ hint <= merged
  BY <1>1, <1>2, MergesUp DEF Jobs
<1>4. DueAfter(jobs[s]) \in Nat
  BY <1>1, DelaysAssumption DEF DueAfter, AtMost, Jobs
<1> DEFINE j == [jobs[s] EXCEPT !.pending = merged, !.due = DueAfter(jobs[s]),
                                !.retry = retry]
           h == AtLeast(owed[s], hint)
<1>5. j \in Jobs /\ j.pending = merged /\ j.floor <= j.retry
  BY <1>1, <1>3, <1>4 DEF Jobs
<1>6. h \in Hints /\ h <= j.pending
  <2>1. h \in Hints /\ h <= merged
    BY <1>1, <1>3 DEF AtLeast, Hints, Jobs
  <2> HIDE DEF h, j
  <2> QED BY <2>1, <1>5
<1>7. jobs' = [jobs EXCEPT ![s] = j] /\ owed' = [owed EXCEPT ![s] = h]
  BY <1>2 DEF Ind, Typed
<1> HIDE DEF j, h
<1> QED BY <1>5, <1>6, <1>7, JobStep

LEMMA CompletedStep ==
  ASSUME Ind, NEW s \in Sources, Completed(s)
  PROVE  Ind'
<1> DEFINE j == [jobs[s] EXCEPT !.next = Interval, !.retry = 0, !.floor = 0]
<1>1. jobs[s] \in Jobs /\ owed[s] \in Hints /\ owed[s] <= jobs[s].pending
  BY HasJobType DEF Completed, HasJob, Ind, Typed, Owing
<1>2. j \in Jobs /\ j.pending = jobs[s].pending /\ j.floor <= j.retry
  <2>1. j \in Jobs /\ j.pending = jobs[s].pending /\ j.floor = 0 /\ j.retry = 0
    BY <1>1, Delays DEF Jobs
  <2> HIDE DEF j
  <2> QED BY <2>1
<1>3. jobs' = [jobs EXCEPT ![s] = j] /\ owed' = [owed EXCEPT ![s] = owed[s]] /\ UNCHANGED runs
  BY DEF Completed, Ind, Typed
<1> HIDE DEF j
<1> QED BY <1>1, <1>2, <1>3, JobStep

(* A run of a job ends. *)
LEMMA SucceedStep ==
  ASSUME Ind, NEW k \in Slots, Succeed(k)
  PROVE  Ind'
<1> DEFINE s == runs[k].source
           j == Settled(jobs[s])
<1>1. s \in Sources /\ jobs[s] \in Jobs /\ owed[s] \in Hints /\ owed[s] <= jobs[s].pending
  BY HasJobType DEF Succeed, HasJob, Ind, Typed, Owing, Owned
<1>2. j \in Jobs /\ j.pending = jobs[s].pending /\ j.floor <= j.retry
  BY <1>1, SettledType
<1>3. /\ jobs' = [jobs EXCEPT ![s] = j] /\ owed' = [owed EXCEPT ![s] = owed[s]]
      /\ runs' = [runs EXCEPT ![k] = Free]
  BY DEF Succeed, Released, Ind, Typed
<1> HIDE DEF s, j
<1> QED BY <1>1, <1>2, <1>3, JobStep

LEMMA RepeatStep ==
  ASSUME Ind, NEW k \in Slots, NEW hint \in Hints, NEW h \in Hints,
         Repeat(k, hint), h <= owed[runs[k].source] \/ h <= hint,
         owed' = [owed EXCEPT ![runs[k].source] = h]
  PROVE  Ind'
<1> DEFINE s == runs[k].source
<1>1. s \in Sources /\ jobs[s] \in Jobs /\ owed[s] \in Hints /\ owed[s] <= jobs[s].pending
  BY HasJobType DEF Repeat, HasJob, Ind, Typed, Owing, Owned
<1>2. PICK merged \in Merges(jobs[s].pending, hint) :
        jobs' = [jobs EXCEPT ![s] = [Settled(@) EXCEPT !.pending = merged, !.due = Debounce]]
  BY DEF Repeat, HintsAfter
<1>3. merged \in Hints /\ jobs[s].pending <= merged /\ hint <= merged
  BY <1>1, <1>2, MergesUp DEF Jobs
<1> DEFINE j == [Settled(jobs[s]) EXCEPT !.pending = merged, !.due = Debounce]
<1>4. j \in Jobs /\ j.pending = merged /\ j.floor <= j.retry
  <2> DEFINE x == Settled(jobs[s])
  <2>1. x \in Jobs /\ x.floor = 0 /\ x.retry = 0
    BY <1>1, SettledType
  <2> HIDE DEF x
  <2>2. [x EXCEPT !.pending = merged, !.due = Debounce] \in Jobs
    BY <2>1, <1>3, Delays DEF Jobs
  <2>3. /\ [x EXCEPT !.pending = merged, !.due = Debounce].pending = merged
        /\ [x EXCEPT !.pending = merged, !.due = Debounce].floor = x.floor
        /\ [x EXCEPT !.pending = merged, !.due = Debounce].retry = x.retry
    BY <2>1 DEF Jobs
  <2> QED BY <2>1, <2>2, <2>3 DEF x
<1>5. h <= j.pending
  BY <1>1, <1>3, <1>4 DEF Hints, Jobs
<1>6. /\ jobs' = [jobs EXCEPT ![s] = j] /\ runs' = [runs EXCEPT ![k] = Free]
  BY <1>2 DEF Repeat, Released, Ind, Typed
<1>7. owed' = [owed EXCEPT ![s] = h]
  OBVIOUS
<1> HIDE DEF s, j
<1> QED BY <1>1, <1>4, <1>5, <1>6, <1>7, JobStep

LEMMA FoundBusyStep ==
  ASSUME Ind, NEW k \in Slots, FoundBusy(k)
  PROVE  Ind'
<1> DEFINE s == runs[k].source
           h == AtLeast(owed[s], runs[k].owes)
<1>1. runs[k] # Free /\ Repeat(k, runs[k].hint)
  BY DEF FoundBusy, Repeat
<1>2. /\ s \in Sources /\ runs[k].hint \in Hints /\ runs[k].owes \in Hints
      /\ owed[s] \in Hints /\ runs[k].owes <= runs[k].hint
  BY <1>1 DEF Ind, Typed, HintsHonoured
<1>3. h \in Hints /\ (h <= owed[s] \/ h <= runs[k].hint)
  BY <1>2 DEF AtLeast, Hints
<1>4. owed' = [owed EXCEPT ![runs[k].source] = h]
  BY DEF FoundBusy
<1> HIDE DEF h
<1> QED BY <1>1, <1>2, <1>3, <1>4, RepeatStep

LEMMA FailStep ==
  ASSUME Ind, NEW k \in Slots, Fail(k)
  PROVE  Ind'
<1> DEFINE s == runs[k].source
<1>1. s \in Sources /\ jobs[s] \in Jobs
  BY HasJobType DEF Fail, HasJob, Ind, Typed, Owned
<1>2. PICK delay \in 1..MaxBackoff : \E floor \in 0..delay :
        jobs' = [jobs EXCEPT ![s] = [@ EXCEPT !.retry = delay, !.floor = floor,
                   !.pending = full, !.due = delay, !.running = FALSE]]
  BY DEF Fail
<1>3. PICK floor \in 0..delay :
        jobs' = [jobs EXCEPT ![s] = [@ EXCEPT !.retry = delay, !.floor = floor,
                   !.pending = full, !.due = delay, !.running = FALSE]]
  BY <1>2
<1> DEFINE j == [jobs[s] EXCEPT !.retry = delay, !.floor = floor,
                   !.pending = full, !.due = delay, !.running = FALSE]
<1>4. delay \in Nat /\ floor \in Nat /\ floor <= delay /\ full \in Hints
  BY Delays DEF full, Hints
<1>5. j \in Jobs /\ j.pending = full /\ j.floor <= j.retry
  BY <1>1, <1>4 DEF Jobs
<1>6. full <= j.pending
  BY <1>5 DEF full
<1>7. /\ jobs' = [jobs EXCEPT ![s] = j] /\ owed' = [owed EXCEPT ![s] = full]
      /\ runs' = [runs EXCEPT ![k] = Free]
  BY <1>3 DEF Fail, Released
<1> HIDE DEF s, j
<1> QED BY <1>1, <1>4, <1>5, <1>6, <1>7, JobStep

(* Steps of several jobs. *)
LEMMA TickStep ==
  ASSUME Ind, Tick
  PROVE  Ind'
<1> DEFINE past(x) == [x EXCEPT !.due = Later(@), !.retry = Later(@), !.floor = Later(@),
                                !.next = Later(@)]
<1>1. ASSUME NEW x \in Jobs, x.floor <= x.retry
      PROVE  past(x) \in Jobs /\ past(x).pending = x.pending /\ past(x).floor <= past(x).retry
  <2>1. Later(x.due) \in Nat /\ Later(x.retry) \in Nat /\ Later(x.floor) \in Nat
        /\ Later(x.next) \in Nat /\ Later(x.floor) <= Later(x.retry)
    BY <1>1 DEF Later, AtLeast, Jobs
  <2>2. /\ past(x) \in Jobs /\ past(x).pending = x.pending
        /\ past(x).floor = Later(x.floor) /\ past(x).retry = Later(x.retry)
    BY <2>1 DEF Jobs
  <2> HIDE DEF past
  <2> QED BY <2>1, <2>2
<1> HIDE DEF past
<1>2. jobs' = [s \in Sources |-> IF HasJob(s) THEN past(jobs[s]) ELSE NoJob]
  BY DEF Tick, past
<1>3. \A s \in Sources : HasJob(s) =>
         /\ jobs[s] \in Jobs /\ jobs'[s] \in Jobs /\ jobs'[s].pending = jobs[s].pending
         /\ jobs'[s].floor <= jobs'[s].retry
  BY <1>1, <1>2, HasJobType DEF HasJob, Ind, Waits
<1>4. \A s \in Sources : ~HasJob(s) => jobs'[s] = NoJob /\ jobs[s] = NoJob
  BY <1>2 DEF HasJob
<1>5. jobs' \in [Sources -> Jobs \cup {NoJob}]
  BY <1>2, <1>3
<1>6. UNCHANGED <<runs, owed>>
  BY DEF Tick
<1>7. Typed' /\ HintsHonoured'
  BY <1>5, <1>6 DEF Ind, Typed, HintsHonoured
<1>8. Owing'
  BY <1>3, <1>4, <1>6 DEF Ind, Owing
<1>9. Waits'
  BY <1>3, <1>4 DEF Waits, NoJob
<1>10. Owned'
  BY <1>3, <1>6, JobIsNotNone DEF Ind, Owned, HasJob, Typed
<1> QED BY <1>7, <1>8, <1>9, <1>10 DEF Ind

LEMMA DrainStep ==
  ASSUME Ind, Drain
  PROVE  Ind'
<1> DEFINE
      ready == {s \in Scheduled : ~jobs[s].running /\ ReadyIn(jobs[s]) = 0}
      slots(begun) == CHOOSE f \in [begun -> Slots \ Occupied] :
                        \A s, t \in begun : s # t => f[s] # f[t]
      begin(s) == [source |-> s, hint |-> AtLeast(jobs[s].pending, check),
                   owes |-> owed[s], stale |-> FALSE]
      took(s)  == [jobs[s] EXCEPT !.running = TRUE, !.pending = none]
<1>0. PICK begun \in SUBSET ready :
        /\ runs' = [k \in Slots |-> IF \E s \in begun : slots(begun)[s] = k
                      THEN begin(CHOOSE s \in begun : slots(begun)[s] = k) ELSE runs[k]]
        /\ jobs' = [s \in Sources |-> IF s \in begun THEN took(s) ELSE jobs[s]]
        /\ owed' = [s \in Sources |-> IF s \in begun THEN none ELSE owed[s]]
  BY DEF Drain
<1> DEFINE slot == slots(begun)
<1>1. /\ runs' = [k \in Slots |-> IF \E s \in begun : slot[s] = k
                                 THEN begin(CHOOSE s \in begun : slot[s] = k) ELSE runs[k]]
      /\ jobs' = [s \in Sources |-> IF s \in begun THEN took(s) ELSE jobs[s]]
      /\ owed' = [s \in Sources |-> IF s \in begun THEN none ELSE owed[s]]
  BY <1>0
<1>2. \A s \in begun : s \in Sources /\ HasJob(s) /\ jobs[s] \in Jobs
  BY HasJobType DEF HasJob, Scheduled
<1> HIDE DEF slot
<1>3. \A s \in begun :
         /\ took(s) \in Jobs /\ took(s).pending = none
         /\ took(s).floor = jobs[s].floor /\ took(s).retry = jobs[s].retry
  <2> TAKE s \in begun
  <2>1. jobs[s] \in Jobs
    BY <1>2
  <2>2. none \in Hints
    BY DEF none, Hints
  <2>3. took(s) \in Jobs
    BY <2>1, <2>2 DEF Jobs
  <2>4. /\ took(s).pending = none
        /\ took(s).floor = jobs[s].floor /\ took(s).retry = jobs[s].retry
    BY <2>1 DEF Jobs
  <2> QED BY <2>3, <2>4
<1>4. \A s \in begun :
         /\ begin(s) \in [source : Sources, hint : Hints \ {none}, owes : Hints,
                          stale : BOOLEAN]
         /\ begin(s).source = s /\ begin(s).hint >= begin(s).owes
  BY <1>2 DEF Ind, Typed, Owing, AtLeast, check, none, Hints, Jobs
<1> HIDE DEF took, begin
<1>5. \A s \in Sources :
         \/ s \in begun /\ jobs'[s] = took(s) /\ owed'[s] = none
         \/ s \notin begun /\ jobs'[s] = jobs[s] /\ owed'[s] = owed[s]
  BY <1>1
<1>6. \A k \in Slots :
         runs'[k] = runs[k] \/ \E s \in begun : runs'[k] = begin(s)
  BY <1>1
<1>7. Owing' /\ Waits'
  <2> SUFFICES ASSUME NEW s \in Sources
               PROVE  owed'[s] <= jobs'[s].pending /\ jobs'[s].floor <= jobs'[s].retry
    BY DEF Owing, Waits
  <2> QED BY <1>2, <1>3, <1>5 DEF Ind, Owing, Waits, none
<1>8. Typed'
  <2>1. \A s \in Sources : jobs'[s] \in Jobs \cup {NoJob} /\ owed'[s] \in Hints
    BY <1>3, <1>5 DEF Ind, Typed, none, Hints
  <2>2. \A k \in Slots : runs'[k] \in
           [source : Sources, hint : Hints \ {none}, owes : Hints, stale : BOOLEAN] \cup {Free}
    BY <1>4, <1>6 DEF Ind, Typed
  <2> QED BY <1>1, <2>1, <2>2 DEF Typed
<1>9. HintsHonoured'
  BY <1>4, <1>6 DEF Ind, HintsHonoured
<1>10. \A s \in Sources : HasJob(s) => jobs'[s] # NoJob
  BY <1>3, <1>5, JobIsNotNone DEF HasJob
<1>11. Owned'
  <2> SUFFICES ASSUME NEW k \in Slots, runs'[k] # Free, ~runs'[k].stale
               PROVE  jobs'[runs'[k].source] # NoJob
    BY DEF Owned, HasJob
  <2>1. CASE runs'[k] = runs[k]
    BY <1>10, <2>1 DEF Ind, Typed, Owned
  <2>2. CASE \E s \in begun : runs'[k] = begin(s)
    BY <1>2, <1>4, <1>10, <2>2
  <2> QED BY <1>6, <2>1, <2>2
<1> QED BY <1>7, <1>8, <1>9, <1>11 DEF Ind

(* Jobs are dropped, added or kept; the runs of those dropped are stale. *)
LEMMA DroppedStep ==
  ASSUME Ind, NEW dropped \in SUBSET Sources, runs' = Abandoned(dropped),
         jobs' \in [Sources -> Jobs \cup {NoJob}], owed' \in [Sources -> Hints],
         Owing', Waits',
         \A s \in Sources \ dropped : HasJob(s) => jobs'[s] # NoJob
  PROVE  Ind'
<1>1. Typed' /\ HintsHonoured'
  BY FewerRuns DEF Typed
<1>2. \A k \in Slots : runs'[k] # Free /\ ~runs'[k].stale =>
         runs'[k] = runs[k] /\ runs[k].source \in Sources \ dropped
  <2> TAKE k \in Slots
  <2>1. CASE runs[k] = Free
    BY <2>1 DEF Abandoned
  <2>2. CASE runs[k] # Free
    <3>1. runs[k] \in [source : Sources, hint : Hints \ {none}, owes : Hints, stale : BOOLEAN]
      BY <2>2 DEF Ind, Typed
    <3>2. [runs[k] EXCEPT !.stale = TRUE].stale
      BY <3>1
    <3> QED BY <2>2, <3>1, <3>2 DEF Abandoned
  <2> QED BY <2>1, <2>2
<1>3. Owned'
  BY <1>2 DEF Ind, Owned, HasJob
<1> QED BY <1>1, <1>3 DEF Ind

LEMMA ConfigureStep ==
  ASSUME Ind, NEW targets \in SUBSET Sources, Configure(targets)
  PROVE  Ind'
<1> DEFINE dropped == Scheduled \ targets
           added   == targets \ Scheduled
<1>1. /\ jobs' = [s \in Sources |->
           IF s \notin targets THEN NoJob
           ELSE IF s \in added THEN NewJob
           ELSE [jobs[s] EXCEPT !.next = NextPoll(jobs[s])]]
      /\ runs' = Abandoned(dropped)
      /\ owed' = [s \in Sources |-> IF s \in added THEN check ELSE OwedWithout(dropped)[s]]
  BY DEF Configure, Scheduled
<1>2. /\ NewJob \in Jobs /\ NewJob.pending = check
      /\ NewJob.floor = 0 /\ NewJob.retry = 0
  <2>1. /\ NoJob \in [pending : Hints, due : Int, retry : Nat, floor : Nat, next : Nat,
                      running : BOOLEAN]
        /\ NoJob.floor = 0 /\ NoJob.retry = 0
    BY DEF NoJob, Hints, none
  <2>2. check \in Hints
    BY DEF check, Hints
  <2>3. ASSUME NEW c \in Hints, NEW d \in Nat, NEW i \in Nat
        PROVE  [NoJob EXCEPT !.pending = c, !.due = d, !.next = i] \in Jobs
    BY <2>1 DEF Jobs
  <2>4. NewJob \in Jobs
    BY <2>2, <2>3, Delays DEF NewJob
  <2>5. NewJob.pending = check /\ NewJob.floor = 0 /\ NewJob.retry = 0
    BY <2>1 DEF NewJob
  <2> QED BY <2>4, <2>5
<1>3. \A s \in targets \ added :
         /\ jobs'[s] \in Jobs /\ jobs'[s].pending = jobs[s].pending
         /\ jobs'[s].floor = jobs[s].floor /\ jobs'[s].retry = jobs[s].retry
         /\ owed'[s] = owed[s]
  <2> TAKE s \in targets \ added
  <2>1. jobs[s] \in Jobs
    BY HasJobType DEF HasJob, Scheduled
  <2>2. NextPoll(jobs[s]) \in Nat
    BY <2>1, Delays DEF NextPoll, AtMost, Jobs
  <2>3. jobs'[s] = [jobs[s] EXCEPT !.next = NextPoll(jobs[s])] /\ owed'[s] = owed[s]
    BY <1>1 DEF OwedWithout
  <2> QED BY <2>1, <2>2, <2>3 DEF Jobs
<1>4. \A s \in added : jobs'[s] = NewJob /\ owed'[s] = check
  BY <1>1
<1>5. \A s \in Sources \ targets : jobs'[s] = NoJob /\ owed'[s] \in {none, owed[s]}
                               /\ owed'[s] <= none
  <2> SUFFICES ASSUME NEW s \in Sources \ targets
               PROVE  jobs'[s] = NoJob /\ owed'[s] \in {none, owed[s]} /\ owed'[s] <= none
    OBVIOUS
  <2>1. jobs'[s] = NoJob /\ s \notin added /\ owed'[s] = OwedWithout(dropped)[s]
    BY <1>1
  <2>2. owed[s] \in Hints /\ (~HasJob(s) => owed[s] <= none)
    BY DEF Ind, Typed, Owing, HasJob, NoJob
  <2>3. s \in dropped \/ ~HasJob(s)
    BY DEF Scheduled
  <2> QED BY <2>1, <2>2, <2>3 DEF OwedWithout, none, Hints
<1>6. jobs' \in [Sources -> Jobs \cup {NoJob}]
  <2>1. \A s \in Sources : jobs'[s] \in Jobs \cup {NoJob}
    BY <1>2, <1>3, <1>4, <1>5
  <2> QED BY <1>1, <2>1
<1>7. owed' \in [Sources -> Hints]
  <2>1. \A s \in Sources : owed'[s] \in Hints
    BY <1>3, <1>4, <1>5 DEF Ind, Typed, Hints, check, none
  <2>2. DOMAIN owed' = Sources /\ owed' = [s \in Sources |-> owed'[s]]
    BY <1>1
  <2> QED BY <2>1, <2>2
<1>8. Owing' /\ Waits'
  <2> SUFFICES ASSUME NEW s \in Sources
               PROVE  owed'[s] <= jobs'[s].pending /\ jobs'[s].floor <= jobs'[s].retry
    BY DEF Owing, Waits
  <2>1. CASE s \in added
    BY <1>2, <1>4, <2>1 DEF check
  <2>2. CASE s \in targets \ added
    BY <1>3, <2>2 DEF Ind, Owing, Waits
  <2>3. CASE s \notin targets
    BY <1>5, <2>3 DEF NoJob, none
  <2> QED BY <2>1, <2>2, <2>3
<1>9. \A s \in Sources \ dropped : HasJob(s) => jobs'[s] # NoJob
  <2>1. \A s \in Sources \ dropped : HasJob(s) => s \in targets \ added
    BY DEF Scheduled
  <2> QED BY <1>3, <2>1, JobIsNotNone
<1>10. dropped \in SUBSET Sources
  BY DEF Scheduled
<1> QED BY <1>1, <1>6, <1>7, <1>8, <1>9, <1>10, DroppedStep

LEMMA RemoveStep ==
  ASSUME Ind, NEW s \in Sources, Remove(s)
  PROVE  Ind'
<1>1. /\ jobs' = [jobs EXCEPT ![s] = NoJob] /\ runs' = Abandoned({s})
      /\ owed' = [x \in Sources |-> IF x = s THEN none ELSE owed[x]]
  BY DEF Remove, OwedWithout
<1>2. jobs' \in [Sources -> Jobs \cup {NoJob}] /\ owed' \in [Sources -> Hints]
  BY <1>1 DEF Ind, Typed, none, Hints
<1>3. jobs'[s] = NoJob /\ owed'[s] = none
      /\ \A x \in Sources \ {s} : jobs'[x] = jobs[x] /\ owed'[x] = owed[x]
  BY <1>1 DEF Ind, Typed
<1>4. Owing'
  BY <1>3 DEF Ind, Owing, NoJob, none
<1>5. Waits'
  BY <1>3 DEF Ind, Waits, NoJob
<1>6. \A x \in Sources \ {s} : HasJob(x) => jobs'[x] # NoJob
  BY <1>3 DEF HasJob
<1> QED BY <1>1, <1>2, <1>4, <1>5, <1>6, DroppedStep

LEMMA StopStep ==
  ASSUME Ind, Stop
  PROVE  Ind'
<1>1. /\ jobs' = [s \in Sources |-> NoJob] /\ runs' = Abandoned(Sources)
      /\ owed' = [s \in Sources |-> none]
  BY DEF Stop
<1>2. jobs' \in [Sources -> Jobs \cup {NoJob}] /\ owed' \in [Sources -> Hints]
  BY <1>1 DEF none, Hints
<1>3. Owing' /\ Waits'
  BY <1>1 DEF Owing, Waits, NoJob, none
<1> QED BY <1>1, <1>2, <1>3, DroppedStep

LEMMA Steps == Ind /\ [Next]_vars => Ind'
<1> SUFFICES ASSUME Ind, [Next]_vars PROVE Ind'
  OBVIOUS
<1>1. ASSUME NEW s \in Sources, Request(s) PROVE Ind'
  <2>1. PICK hint \in Hints \ {none} : Asked(s, hint, jobs[s].retry)
    BY <1>1 DEF Request
  <2>2. jobs[s] \in Jobs /\ jobs[s].floor <= jobs[s].retry
    BY <1>1, HasJobType DEF Request, HasJob, Ind, Waits
  <2>3. jobs[s].retry \in Nat
    BY <2>2 DEF Jobs
  <2> QED BY <1>1, <2>1, <2>2, <2>3, AskedStep DEF Request
<1>2. ASSUME NEW s \in Sources, Reconnected(s) PROVE Ind'
  <2>1. jobs[s].floor \in Nat
    BY <1>2, HasJobType DEF Reconnected, HasJob, Jobs
  <2> QED BY <1>2, <2>1, AskedStep DEF Reconnected, WaitLeft, Hints, full
<1>3. ASSUME NEW s \in Sources, Completed(s) \/ Remove(s) PROVE Ind'
  BY <1>3, CompletedStep, RemoveStep
<1>4. ASSUME NEW targets \in SUBSET Sources, Configure(targets) PROVE Ind'
  BY <1>4, ConfigureStep
<1>5. CASE Stop \/ Drain \/ Tick
  BY <1>5, StopStep, DrainStep, TickStep
<1>6. ASSUME NEW k \in Slots, RunEnds(k) PROVE Ind'
  <2>1. CASE EndStale(k)
    <3>1. UNCHANGED <<jobs, owed>> /\ runs' = [runs EXCEPT ![k] = Free]
      BY <2>1 DEF EndStale, Released
    <3>2. Typed' /\ HintsHonoured'
      BY <3>1, FewerRuns DEF Ind, Typed
    <3>3. Owing' /\ Waits'
      BY <3>1 DEF Ind, Owing, Waits
    <3>4. \A i \in Slots : runs'[i] # Free => runs'[i] = runs[i]
      BY <3>1 DEF Ind, Typed
    <3>5. Owned'
      BY <3>1, <3>4 DEF Ind, Owned, HasJob
    <3> QED BY <3>2, <3>3, <3>5 DEF Ind
  <2>2. CASE MorePending(k)
    <3>1. Repeat(k, full) /\ owed' = [owed EXCEPT ![runs[k].source] = full]
      BY <2>2 DEF MorePending
    <3>2. full \in Hints /\ full <= full
      BY DEF full, Hints
    <3> QED BY <3>1, <3>2, RepeatStep
  <2> QED BY <1>6, <2>1, <2>2, SucceedStep, FoundBusyStep, FailStep DEF RunEnds
<1>7. CASE UNCHANGED vars
  BY <1>7 DEF vars, Ind, Typed, Owing, Waits, Owned, HasJob, HintsHonoured
<1> QED BY <1>1, <1>2, <1>3, <1>4, <1>5, <1>6, <1>7 DEF Next

LEMMA Invariance == Spec => []Ind
<1> QED BY Initially, Steps, PTL DEF Spec

(* A run that takes the hints of a source is as thorough as the strongest it *)
(* was given: merging, a busy source, a failure and the limit of 64 Ciphers  *)
(* never weaken one.                                                         *)
THEOREM HintsServed == Spec => []HintsHonoured
<1> QED BY Invariance, PTL DEF Ind

(* A source is given the job j, and its place in the line. *)
Given(s, j) ==
  /\ HasJob(s) /\ j \in Jobs
  /\ jobs' = [jobs EXCEPT ![s] = j]
  /\ line' = Relined(s, j.due) \/ (line' = line /\ j.due = jobs[s].due)
  /\ timer' = Armed(jobs', running')

LEMMA AskedGives ==
  ASSUME Ind, NEW s \in Sources, HasJob(s), NEW hint \in Hints, NEW retry \in Nat,
         Asked(s, hint, retry), UNCHANGED running
  PROVE  \E j : Given(s, j) /\ j.running = jobs[s].running
<1>1. jobs[s] \in Jobs
  BY HasJobType DEF HasJob
<1>2. PICK merged \in Merges(jobs[s].pending, hint) :
        /\ jobs' = [jobs EXCEPT ![s].pending = merged, ![s].due = DueAfter(jobs[s]),
                                ![s].retry = retry]
        /\ line' = IF DueAfter(jobs[s]) = jobs[s].due THEN line
                   ELSE Relined(s, DueAfter(jobs[s]))
        /\ timer' = Armed(jobs', running)
  BY DEF Asked
<1>3. merged \in Hints
  BY <1>1, <1>2, MergesUp DEF Jobs
<1>4. DueAfter(jobs[s]) \in Nat
  BY <1>1, DelaysAssumption DEF DueAfter, AtMost, Jobs
<1> DEFINE j == [jobs[s] EXCEPT !.pending = merged, !.due = DueAfter(jobs[s]),
                                !.retry = retry]
<1>5. j \in Jobs /\ j.due = DueAfter(jobs[s]) /\ j.running = jobs[s].running
  BY <1>1, <1>3, <1>4 DEF Jobs
<1>6. jobs' = [jobs EXCEPT ![s] = j]
  BY <1>2 DEF Ind, Typed
<1> HIDE DEF j
<1> QED BY <1>2, <1>5, <1>6 DEF Given

LEMMA Asks ==
  ASSUME Ind, NEW s \in Sources, Request(s) \/ Reconnected(s) \/ Completed(s)
  PROVE  /\ \E j : Given(s, j) /\ j.running = jobs[s].running
         /\ UNCHANGED <<runs, running>>
<1>1. jobs[s] \in Jobs /\ HasJob(s) /\ UNCHANGED <<runs, running>>
  BY HasJobType DEF HasJob, Request, Reconnected, Completed
<1>2. jobs[s].retry \in Nat /\ jobs[s].floor \in Nat /\ full \in Hints
  BY <1>1 DEF Jobs, full, Hints
<1>3. CASE Request(s)
  BY <1>1, <1>2, <1>3, AskedGives DEF Request
<1>4. CASE Reconnected(s)
  BY <1>1, <1>2, <1>4, AskedGives DEF Reconnected, WaitLeft
<1>5. CASE Completed(s)
  <2> DEFINE j == [jobs[s] EXCEPT !.next = Interval, !.retry = 0, !.floor = 0]
  <2>1. j \in Jobs /\ j.due = jobs[s].due /\ j.running = jobs[s].running
    BY <1>1, Delays DEF Jobs
  <2>2. /\ jobs' = [jobs EXCEPT ![s] = j]
        /\ line' = line /\ timer' = Armed(jobs', running')
    BY <1>1, <1>5 DEF Completed, Ind, Typed
  <2> HIDE DEF j
  <2> QED BY <1>1, <2>1, <2>2 DEF Given
<1> QED BY <1>3, <1>4, <1>5

LEMMA Ends ==
  ASSUME Ind, NEW k \in Slots, RunEnds(k), ~EndStale(k)
  PROVE  /\ runs[k] # Free /\ ~runs[k].stale /\ runs[k].source \in Sources
         /\ \E j : Given(runs[k].source, j) /\ ~j.running
         /\ Released(k)
<1> DEFINE s == runs[k].source
<1>1. runs[k] # Free /\ ~runs[k].stale /\ Released(k)
  BY DEF RunEnds, Succeed, FoundBusy, MorePending, Repeat, Fail
<1>2. s \in Sources /\ HasJob(s) /\ jobs[s] \in Jobs
  BY <1>1, HasJobType DEF Ind, Typed, Owned, HasJob
<1>3. running' = running - 1 /\ timer' = Armed(jobs', running')
  BY <1>1 DEF Released
<1>4. Settled(jobs[s]) \in Jobs /\ ~Settled(jobs[s]).running
      /\ Settled(jobs[s]).due = jobs[s].due
  BY <1>2, SettledType DEF Settled, Jobs
<1>5. CASE Succeed(k)
  <2>1. jobs' = [jobs EXCEPT ![s] = Settled(jobs[s])] /\ line' = line
    BY <1>5 DEF Succeed
  <2> QED BY <1>1, <1>2, <1>3, <1>4, <2>1 DEF Given
<1>6. ASSUME NEW hint \in Hints, Repeat(k, hint)
      PROVE  \E j : Given(s, j) /\ ~j.running
  <2>1. PICK merged \in Merges(jobs[s].pending, hint) :
          jobs' = [jobs EXCEPT ![s] = [Settled(@) EXCEPT !.pending = merged, !.due = Debounce]]
    BY <1>6 DEF Repeat, HintsAfter
  <2>2. merged \in Hints
    BY <1>2, <2>1, MergesUp DEF Jobs
  <2> DEFINE x == Settled(jobs[s])
             j == [x EXCEPT !.pending = merged, !.due = Debounce]
  <2>3. x \in Jobs /\ ~x.running
    BY <1>4
  <2>4. line' = Relined(s, Debounce) /\ jobs' = [jobs EXCEPT ![s] = j]
    BY <1>6, <2>1 DEF Repeat
  <2> HIDE DEF x
  <2>5. j \in Jobs /\ j.due = Debounce /\ ~j.running
    BY <2>2, <2>3, Delays DEF Jobs
  <2> HIDE DEF j, s
  <2> QED BY <1>2, <1>3, <2>4, <2>5 DEF Given
<1>7. ASSUME Fail(k)
      PROVE  \E j : Given(s, j) /\ ~j.running
  <2>1. PICK delay \in 1..MaxBackoff, floor \in 0..MaxBackoff :
          /\ jobs' = [jobs EXCEPT ![s] = [@ EXCEPT !.retry = delay, !.floor = floor,
                       !.pending = full, !.due = delay, !.running = FALSE]]
          /\ line' = Relined(s, delay)
    <3>1. PICK delay \in 1..MaxBackoff : \E floor \in 0..delay :
            /\ jobs' = [jobs EXCEPT ![s] = [@ EXCEPT !.retry = delay, !.floor = floor,
                         !.pending = full, !.due = delay, !.running = FALSE]]
            /\ line' = Relined(s, delay)
      BY <1>7 DEF Fail
    <3>2. 0..delay \subseteq 0..MaxBackoff
      BY Delays
    <3> HIDE DEF s
    <3> QED BY <3>1, <3>2
  <2> DEFINE j == [jobs[s] EXCEPT !.retry = delay, !.floor = floor,
                     !.pending = full, !.due = delay, !.running = FALSE]
  <2>2. delay \in Nat /\ floor \in Nat /\ full \in Hints
    BY Delays DEF full, Hints
  <2>3. j \in Jobs /\ ~j.running /\ j.due = delay
    BY <1>2, <2>2 DEF Jobs
  <2>4. jobs' = [jobs EXCEPT ![s] = j] /\ line' = Relined(s, delay)
    BY <2>1
  <2> HIDE DEF j, s
  <2> QED BY <1>2, <1>3, <2>3, <2>4 DEF Given
<1>8. \E j : Given(s, j) /\ ~j.running
  <2>1. CASE FoundBusy(k)
    <3>1. runs[k].hint \in Hints
      BY <1>1 DEF Ind, Typed
    <3> QED BY <2>1, <3>1, <1>6 DEF FoundBusy
  <2>2. CASE MorePending(k)
    BY <2>2, <1>6 DEF MorePending, full, Hints
  <2> QED BY <1>5, <1>7, <2>1, <2>2 DEF RunEnds
<1> QED BY <1>1, <1>2, <1>8

(* The jobs that are dropped end, and those of new sources have no run. *)
LEMMA Drops ==
  ASSUME Ind,
         \/ \E s \in Sources : Remove(s)
         \/ \E targets \in SUBSET Sources : Configure(targets)
         \/ Stop
  PROVE  \E dropped \in SUBSET Sources :
           /\ runs' = Abandoned(dropped) /\ UNCHANGED running
           /\ \A s \in Sources : jobs'[s].running <=> jobs[s].running /\ s \notin dropped
<1>1. ~NoJob.running /\ ~NewJob.running
  BY DEF NoJob, NewJob
<1>2. CASE \E s \in Sources : Remove(s)
  BY <1>1, <1>2 DEF Remove, Ind, Typed
<1>3. ASSUME NEW targets \in SUBSET Sources, Configure(targets)
      PROVE  \E dropped \in SUBSET Sources :
               /\ runs' = Abandoned(dropped) /\ UNCHANGED running
               /\ \A s \in Sources : jobs'[s].running <=> jobs[s].running /\ s \notin dropped
  <2> DEFINE dropped == Scheduled \ targets
  <2>1. dropped \in SUBSET Sources /\ runs' = Abandoned(dropped) /\ UNCHANGED running
    BY <1>3 DEF Configure, Scheduled
  <2>2. ASSUME NEW s \in Sources
        PROVE  jobs'[s].running <=> jobs[s].running /\ s \notin dropped
    <3>1. CASE s \notin targets
      <4>1. jobs'[s] = NoJob
        BY <1>3, <3>1 DEF Configure
      <4>2. s \in dropped \/ jobs[s] = NoJob
        BY <3>1 DEF Scheduled, HasJob
      <4> QED BY <1>1, <4>1, <4>2
    <3>2. CASE s \in targets /\ ~HasJob(s)
      <4>1. jobs'[s] = NewJob /\ jobs[s] = NoJob
        BY <1>3, <3>2 DEF Configure, Scheduled, HasJob
      <4> QED BY <1>1, <4>1
    <3>3. CASE s \in targets /\ HasJob(s)
      <4>1. jobs'[s] = [jobs[s] EXCEPT !.next = NextPoll(jobs[s])] /\ jobs[s] \in Jobs
        BY <1>3, <3>3, HasJobType DEF Configure, Scheduled, HasJob
      <4>2. jobs'[s].running = jobs[s].running
        BY <4>1 DEF Jobs
      <4> QED BY <3>3, <4>2
    <3> QED BY <3>1, <3>2, <3>3
  <2> HIDE DEF dropped
  <2> QED BY <2>1, <2>2
<1>4. CASE Stop
  BY <1>1, <1>4 DEF Stop
<1> QED BY <1>2, <1>3, <1>4

LEMMA TickKeeps ==
  ASSUME Ind, Tick, NEW s \in Sources
  PROVE  /\ jobs'[s].running = jobs[s].running
         /\ HasJob(s) => jobs'[s] # NoJob /\ jobs'[s].due = Later(jobs[s].due)
         /\ ~HasJob(s) => jobs'[s] = NoJob
<1>1. CASE HasJob(s)
  <2>1. jobs[s] \in Jobs
    BY <1>1, HasJobType DEF HasJob
  <2>2. jobs'[s] = [jobs[s] EXCEPT !.due = Later(@), !.retry = Later(@), !.floor = Later(@),
                                   !.next = Later(@)]
    BY <1>1 DEF Tick
  <2>3. jobs'[s].running = jobs[s].running /\ jobs'[s].due = Later(jobs[s].due)
    BY <2>1, <2>2 DEF Jobs
  <2>4. jobs'[s] # NoJob
    <3>1. Later(jobs[s].due) # -1
      BY <2>1 DEF Later, AtLeast, Jobs
    <3> QED BY <2>3, <3>1 DEF NoJob
  <2> QED BY <1>1, <2>3, <2>4
<1>2. CASE ~HasJob(s)
  BY <1>2 DEF Tick, HasJob
<1> QED BY <1>1, <1>2

(* Only drain begins runs. *)
LEMMA OnlyDrainBegins ==
  ASSUME Ind, [Next]_vars, NEW s \in Sources, ~jobs[s].running, jobs'[s].running
  PROVE  Drain
<1> SUFFICES ASSUME ~Drain PROVE FALSE
  OBVIOUS
<1>1. ASSUME NEW x \in Sources, NEW j, Given(x, j), j.running => jobs[x].running
      PROVE  FALSE
  BY <1>1 DEF Ind, Typed, Given
<1>2. ASSUME NEW x \in Sources, Request(x) \/ Reconnected(x) \/ Completed(x)
      PROVE  FALSE
  BY <1>1, <1>2, Asks
<1>3. ASSUME NEW k \in Slots, RunEnds(k)
      PROVE  FALSE
  BY <1>1, <1>3, Ends DEF EndStale
<1>4. CASE Tick
  BY <1>4, TickKeeps
<1>5. CASE UNCHANGED vars
  BY <1>5 DEF vars
<1> QED BY <1>2, <1>3, <1>4, <1>5, Drops DEF Next

-----------------------------------------------------------------------------
(* The slots that are taken are as many as the counter says; a source has at *)
(* most one run of its own, and its job says whether it has one.             *)
Counted ==
  /\ running = Cardinality(Occupied) /\ running <= MaxRunning
  /\ \A s \in Sources : \A k, l \in RunsOf(s) : k = l
  /\ \A s \in Sources : jobs[s].running <=> RunsOf(s) # {}

LEMMA SlotsFinite ==
  /\ IsFiniteSet(Slots) /\ Cardinality(Slots) = MaxRunning + 1
  /\ IsFiniteSet(Occupied) /\ Cardinality(Occupied) \in Nat /\ Occupied \subseteq Slots
<1>1. IsFiniteSet(Slots) /\ Cardinality(Slots) = MaxRunning + 1
  BY FS_Interval, DelaysAssumption DEF Slots
<1>2. Occupied \subseteq Slots
  BY DEF Occupied
<1> QED BY <1>1, <1>2, FS_Subset, FS_CardinalityType

LEMMA InitiallyCounted == Init => Counted
<1> SUFFICES ASSUME Init PROVE Counted
  OBVIOUS
<1>1. Occupied = {} /\ \A s \in Sources : RunsOf(s) = {}
  BY DEF Init, Occupied, RunsOf
<1>2. Cardinality({}) = 0
  BY FS_EmptySet
<1>3. \A s \in Sources : ~jobs[s].running
  BY DEF Init, NoJob
<1> QED BY <1>1, <1>2, <1>3, DelaysAssumption DEF Init, Counted

LEMMA SameRuns ==
  ASSUME Counted, UNCHANGED <<runs, running>>,
         \A s \in Sources : jobs'[s].running = jobs[s].running
  PROVE  Counted'
<1>1. Occupied' = Occupied /\ \A s \in Sources : RunsOf(s)' = RunsOf(s)
  BY DEF Occupied, RunsOf
<1> QED BY <1>1 DEF Counted

LEMMA DroppedCounted ==
  ASSUME Ind, Counted, NEW dropped \in SUBSET Sources, runs' = Abandoned(dropped),
         UNCHANGED running,
         \A s \in Sources : jobs'[s].running <=> jobs[s].running /\ s \notin dropped
  PROVE  Counted'
<1>1. \A k \in Slots : runs[k] # Free =>
        /\ [runs[k] EXCEPT !.stale = TRUE] # Free
        /\ [runs[k] EXCEPT !.stale = TRUE].stale
  <2> TAKE k \in Slots
  <2> HAVE runs[k] # Free
  <2>1. runs[k] \in [source : Sources, hint : Hints \ {none}, owes : Hints, stale : BOOLEAN]
    BY DEF Ind, Typed
  <2>2. [runs[k] EXCEPT !.stale = TRUE].stale
    BY <2>1
  <2> QED BY <2>2 DEF Free
<1>2. \A k \in Slots :
         /\ runs'[k] = Free <=> runs[k] = Free
         /\ runs[k] # Free /\ runs[k].source \in dropped => runs'[k].stale
         /\ runs[k] # Free /\ runs[k].source \notin dropped => runs'[k] = runs[k]
  BY <1>1 DEF Abandoned
<1>3. Occupied' = Occupied
  BY <1>2 DEF Occupied
<1>4. \A s \in Sources : RunsOf(s)' = IF s \in dropped THEN {} ELSE RunsOf(s)
  <2> TAKE s \in Sources
  <2>1. \A k \in Slots : k \in RunsOf(s)' <=> k \in RunsOf(s) /\ s \notin dropped
    <3> TAKE k \in Slots
    <3>1. runs[k] # Free => (runs'[k].source = s /\ ~runs'[k].stale
                             <=> runs[k].source = s /\ ~runs[k].stale /\ s \notin dropped)
      <4>1. CASE runs[k].source \in dropped
        BY <1>2, <4>1
      <4>2. CASE runs[k].source \notin dropped
        BY <1>2, <4>2
      <4> QED BY <4>1, <4>2
    <3> QED BY <1>2, <3>1 DEF RunsOf
  <2> QED BY <2>1 DEF RunsOf
<1> QED BY <1>3, <1>4 DEF Counted

LEMMA ReleasedCounted ==
  ASSUME Ind, Counted, NEW k \in Slots, runs[k] # Free, Released(k),
         \A s \in Sources : jobs'[s].running <=> jobs[s].running /\ k \notin RunsOf(s)
  PROVE  Counted'
<1>1. /\ runs'[k] = Free /\ running' = running - 1
      /\ \A l \in Slots \ {k} : runs'[l] = runs[l]
  BY DEF Released, Ind, Typed
<1>2. Occupied' = Occupied \ {k} /\ k \in Occupied
  BY <1>1 DEF Occupied
<1>3. Cardinality(Occupied') = Cardinality(Occupied) - 1
  BY <1>2, SlotsFinite, FS_RemoveElement
<1>4. \A s \in Sources : RunsOf(s)' = RunsOf(s) \ {k}
  BY <1>1 DEF RunsOf
<1>5. running' = Cardinality(Occupied)' /\ running' <= MaxRunning
  BY <1>1, <1>3, SlotsFinite, DelaysAssumption DEF Counted
<1>6. \A s \in Sources : \A i, l \in RunsOf(s)' : i = l
  BY <1>4 DEF Counted
<1>7. \A s \in Sources : jobs'[s].running <=> RunsOf(s)' # {}
  <2> TAKE s \in Sources
  <2>1. CASE k \in RunsOf(s)
    <3>1. RunsOf(s)' = {}
      BY <1>4, <2>1 DEF Counted
    <3> QED BY <2>1, <3>1
  <2>2. CASE k \notin RunsOf(s)
    BY <1>4, <2>2 DEF Counted
  <2> QED BY <2>1, <2>2
<1> QED BY <1>5, <1>6, <1>7 DEF Counted

(* Runs that begin together find slots of their own. *)
LEMMA InjectionExists ==
  ASSUME NEW S, NEW T, IsFiniteSet(S), IsFiniteSet(T), Cardinality(S) <= Cardinality(T)
  PROVE  \E f \in [S -> T] : \A s, t \in S : s # t => f[s] # f[t]
<1>1. PICK g \in Bijection(1..Cardinality(S), S) : TRUE
  BY FS_CardinalityType DEF ExistsBijection
<1>2. PICK h \in Bijection(1..Cardinality(T), T) : TRUE
  BY FS_CardinalityType DEF ExistsBijection
<1>3. Cardinality(S) \in Nat /\ Cardinality(T) \in Nat
  BY FS_CardinalityType
<1> DEFINE at(s) == CHOOSE i \in 1..Cardinality(S) : g[i] = s
           f == [s \in S |-> h[at(s)]]
<1>4. \A s \in S : at(s) \in 1..Cardinality(S) /\ g[at(s)] = s
  BY DEF Bijection, Surjection
<1>5. \A i, j \in 1..Cardinality(T) : h[i] \in T /\ (h[i] = h[j] => i = j)
  BY DEF Bijection, Injection, IsInjective
<1>6. \A s \in S : at(s) \in 1..Cardinality(T)
  BY <1>3, <1>4
<1>7. f \in [S -> T]
  BY <1>5, <1>6
<1>8. \A s, t \in S : s # t => f[s] # f[t]
  BY <1>4, <1>5, <1>6
<1> QED BY <1>7, <1>8

LEMMA DrainCounted ==
  ASSUME Ind, Counted, Drain
  PROVE  Counted'
<1> DEFINE
      ready == {s \in Scheduled : ~jobs[s].running /\ ReadyIn(jobs[s]) = 0}
      n     == AtMost(Cardinality(ready), AtLeast(0, Limit - running))
      slots(begun) == CHOOSE f \in [begun -> Slots \ Occupied] :
                        \A s, t \in begun : s # t => f[s] # f[t]
      begin(s) == [source |-> s, hint |-> AtLeast(jobs[s].pending, check),
                   owes |-> owed[s], stale |-> FALSE]
      took(s)  == [jobs[s] EXCEPT !.running = TRUE, !.pending = none]
<1>0. PICK begun \in SUBSET ready :
        /\ Cardinality(begun) = n
        /\ runs' = [k \in Slots |-> IF \E s \in begun : slots(begun)[s] = k
                      THEN begin(CHOOSE s \in begun : slots(begun)[s] = k) ELSE runs[k]]
        /\ jobs' = [s \in Sources |-> IF s \in begun THEN took(s) ELSE jobs[s]]
  BY DEF Drain
<1>1. running' = running + n
  BY DEF Drain
<1> DEFINE slot == slots(begun)
<1>2. running \in Nat /\ running <= MaxRunning /\ MaxRunning \in Nat
  BY SlotsFinite, DelaysAssumption DEF Counted
<1>3. /\ IsFiniteSet(begun) /\ IsFiniteSet(ready)
      /\ Cardinality(ready) \in Nat /\ begun \subseteq Sources
  <2>1. ready \subseteq Sources /\ begun \subseteq Sources
    BY DEF Scheduled
  <2> QED BY <2>1, SourcesAssumption, FS_Subset, FS_CardinalityType
<1>4. n \in Nat /\ n <= MaxRunning - running
  <2> HIDE DEF ready
  <2> QED BY <1>2, <1>3 DEF AtMost, AtLeast, Limit
<1>5. IsFiniteSet(Slots \ Occupied) /\ Cardinality(Slots \ Occupied) = MaxRunning + 1 - running
  <2>1. Slots \cap Occupied = Occupied
    BY SlotsFinite
  <2>2. /\ IsFiniteSet(Slots \ Occupied)
        /\ Cardinality(Slots \ Occupied) = Cardinality(Slots) - Cardinality(Slots \cap Occupied)
    <3>1. \A S, T : IsFiniteSet(S) => /\ IsFiniteSet(S \ T)
                                     /\ Cardinality(S \ T) = Cardinality(S) - Cardinality(S \cap T)
      BY FS_Difference
    <3> QED BY <3>1, SlotsFinite
  <2> HIDE DEF ready, n, slots, begin, took
  <2>3. Cardinality(Slots) = MaxRunning + 1 /\ Cardinality(Occupied) = running
    BY SlotsFinite DEF Counted
  <2> QED BY <1>2, <2>1, <2>2, <2>3
<1>6. /\ slot \in [begun -> Slots \ Occupied]
      /\ \A s, t \in begun : s # t => slot[s] # slot[t]
  <2>1. Cardinality(begun) <= Cardinality(Slots \ Occupied)
    <3>1. Cardinality(begun) = n
      BY <1>0
    <3> HIDE DEF ready, n, slots, begin, took
    <3> QED BY <1>2, <1>4, <1>5, <3>1
  <2>2. \E f \in [begun -> Slots \ Occupied] : \A s, t \in begun : s # t => f[s] # f[t]
    BY <1>3, <1>5, <2>1, InjectionExists
  <2> QED BY <2>2
<1>7. runs' = [k \in Slots |-> IF \E s \in begun : slot[s] = k
                               THEN begin(CHOOSE s \in begun : slot[s] = k) ELSE runs[k]]
  BY <1>0
<1> HIDE DEF slot, n
<1>8. \A s \in begun : /\ begin(s).source = s /\ ~begin(s).stale /\ begin(s) # Free
                       /\ took(s).running
  <2> TAKE s \in begun
  <2>1. s \in Sources /\ jobs[s] \in Jobs
    BY HasJobType DEF HasJob, Scheduled
  <2>2. took(s).running
    BY <2>1 DEF Jobs
  <2>3. begin(s).source = s /\ ~begin(s).stale /\ begin(s).hint # none
    BY <2>1 DEF AtLeast, check, none, Jobs, Hints
  <2> HIDE DEF begin
  <2> QED BY <2>2, <2>3 DEF Free
<1>9. \A s \in begun : slot[s] \in Slots \ Occupied /\ runs'[slot[s]] = begin(s)
  <2> TAKE s \in begun
  <2>1. slot[s] \in Slots \ Occupied
    BY <1>6
  <2>2. (CHOOSE t \in begun : slot[t] = slot[s]) = s
    BY <1>6
  <2> HIDE DEF begin
  <2> QED BY <1>7, <2>1, <2>2
<1> DEFINE taken == {slot[s] : s \in begun}
<1> HIDE DEF begin, ready
<1>10. \A k \in Slots \ taken : runs'[k] = runs[k]
  BY <1>7
<1>11. Occupied' = Occupied \cup taken /\ Occupied \cap taken = {}
  <2>1. \A k \in taken : k \in Slots /\ k \notin Occupied /\ runs'[k] # Free
    BY <1>8, <1>9
  <2>2. \A k \in Slots : runs'[k] # Free <=> runs[k] # Free \/ k \in taken
    BY <1>10, <2>1 DEF Occupied
  <2> HIDE DEF taken
  <2> QED BY <2>1, <2>2 DEF Occupied
<1>12. IsFiniteSet(taken) /\ Cardinality(taken) = n
  <2>1. slot \in Bijection(begun, taken)
    <3>1. slot \in [begun -> taken]
      BY <1>6
    <3>2. IsInjective(slot)
      BY <1>6 DEF IsInjective
    <3> QED BY <3>1, <3>2 DEF Bijection, Injection, Surjection
  <2>2. ExistsBijection(begun, taken)
    BY <2>1 DEF ExistsBijection
  <2> QED BY <1>0, <1>3, <2>2, FS_Bijection
<1>13. Cardinality(Occupied)' = Cardinality(Occupied) + n
  <2>1. Cardinality(Occupied \cup taken) =
          Cardinality(Occupied) + Cardinality(taken) - Cardinality(Occupied \cap taken)
    <3> HIDE DEF taken
    <3> QED BY <1>12, SlotsFinite, FS_Union
  <2>2. Cardinality(Occupied \cap taken) = 0
    BY <1>11, FS_EmptySet
  <2> HIDE DEF taken
  <2> QED BY <1>4, <1>11, <1>12, <2>1, <2>2, SlotsFinite
<1>14. running' = Cardinality(Occupied)' /\ running' <= MaxRunning
  BY <1>1, <1>2, <1>4, <1>13 DEF Counted
<1>15. \A s \in begun : RunsOf(s) = {} /\ RunsOf(s)' = {slot[s]}
  <2> TAKE s \in begun
  <2>1. RunsOf(s) = {}
    <3>1. s \in Sources /\ ~jobs[s].running
      BY <1>3 DEF ready
    <3> QED BY <3>1 DEF Counted
  <2>2. \A k \in Slots : k \in RunsOf(s)' <=> k = slot[s]
    <3> TAKE k \in Slots
    <3>1. CASE k \in taken
      <4>1. PICK t \in begun : k = slot[t]
        BY <3>1
      <4>2. runs'[k] # Free /\ runs'[k].source = t /\ ~runs'[k].stale
        BY <1>8, <1>9, <4>1
      <4>3. k = slot[s] <=> t = s
        BY <1>6, <4>1
      <4> QED BY <4>2, <4>3 DEF RunsOf
    <3>2. CASE k \notin taken
      <4>1. runs'[k] = runs[k] /\ k # slot[s]
        BY <1>10, <3>2
      <4>2. k \notin RunsOf(s)
        BY <2>1
      <4> QED BY <4>1, <4>2 DEF RunsOf
    <3> QED BY <3>1, <3>2
  <2>3. slot[s] \in Slots
    BY <1>9
  <2> QED BY <2>1, <2>2, <2>3 DEF RunsOf
<1>16. \A s \in Sources \ begun : RunsOf(s)' = RunsOf(s)
  <2> TAKE s \in Sources \ begun
  <2>1. \A k \in Slots : k \in RunsOf(s)' <=> k \in RunsOf(s)
    <3> TAKE k \in Slots
    <3>1. CASE k \in taken
      <4>1. PICK t \in begun : k = slot[t]
        BY <3>1
      <4>2. runs'[k].source = t /\ t # s /\ runs[k] = Free
        BY <1>8, <1>9, <4>1 DEF Occupied
      <4> QED BY <4>2 DEF RunsOf
    <3>2. CASE k \notin taken
      BY <1>10, <3>2 DEF RunsOf
    <3> QED BY <3>1, <3>2
  <2> QED BY <2>1 DEF RunsOf
<1>17. \A s \in Sources : jobs'[s].running <=> RunsOf(s)' # {}
  <2> TAKE s \in Sources
  <2>1. CASE s \in begun
    <3>1. jobs'[s] = took(s)
      BY <1>0, <2>1
    <3> QED BY <1>8, <1>15, <2>1, <3>1
  <2>2. CASE s \notin begun
    <3>1. jobs'[s] = jobs[s]
      BY <1>0, <2>2
    <3> QED BY <1>16, <2>2, <3>1 DEF Counted
  <2> QED BY <2>1, <2>2
<1>18. \A s \in Sources : \A k, l \in RunsOf(s)' : k = l
  <2> TAKE s \in Sources
  <2>1. CASE s \in begun
    BY <1>15, <2>1
  <2>2. CASE s \notin begun
    BY <1>16, <2>2 DEF Counted
  <2> QED BY <2>1, <2>2
<1> QED BY <1>14, <1>17, <1>18 DEF Counted

LEMMA CountedSteps == Ind /\ Counted /\ [Next]_vars => Counted'
<1> SUFFICES ASSUME Ind, Counted, [Next]_vars PROVE Counted'
  OBVIOUS
<1>1. ASSUME NEW s \in Sources, Request(s) \/ Reconnected(s) \/ Completed(s)
      PROVE  Counted'
  <2>1. PICK j : Given(s, j) /\ j.running = jobs[s].running
    BY <1>1, Asks
  <2>2. \A x \in Sources : jobs'[x].running = jobs[x].running
    BY <2>1 DEF Given, Ind, Typed
  <2> QED BY <1>1, <2>2, Asks, SameRuns
<1>2. CASE \/ \E s \in Sources : Remove(s)
           \/ \E targets \in SUBSET Sources : Configure(targets)
           \/ Stop
  BY <1>2, Drops, DroppedCounted
<1>3. CASE Tick
  BY <1>3, TickKeeps, SameRuns DEF Tick
<1>4. ASSUME NEW k \in Slots, EndStale(k)
      PROVE  Counted'
  <2>1. \A s \in Sources : k \notin RunsOf(s)
    BY <1>4 DEF EndStale, RunsOf
  <2> QED BY <1>4, <2>1, ReleasedCounted DEF EndStale
<1>5. ASSUME NEW k \in Slots, RunEnds(k), ~EndStale(k)
      PROVE  Counted'
  <2> DEFINE x == runs[k].source
  <2>1. runs[k] # Free /\ ~runs[k].stale /\ x \in Sources /\ Released(k)
    BY <1>5, Ends
  <2>2. PICK j : Given(x, j) /\ ~j.running
    BY <1>5, Ends
  <2>3. \A s \in Sources : jobs'[s].running <=> jobs[s].running /\ k \notin RunsOf(s)
    <3> TAKE s \in Sources
    <3>1. k \in RunsOf(s) <=> s = x
      BY <2>1 DEF RunsOf
    <3>2. CASE s = x
      BY <2>2, <3>1, <3>2 DEF Given, Ind, Typed
    <3>3. CASE s # x
      BY <2>2, <3>1, <3>3 DEF Given, Ind, Typed
    <3> QED BY <3>2, <3>3
  <2> QED BY <2>1, <2>3, ReleasedCounted
<1>6. CASE UNCHANGED vars
  BY <1>6, SameRuns DEF vars
<1> QED BY <1>1, <1>2, <1>3, <1>4, <1>5, <1>6, DrainCounted DEF Next

LEMMA AlwaysCounted == Spec => []Counted
<1> QED BY InitiallyCounted, CountedSteps, Invariance, PTL DEF Spec

(* The counter of running synchronizations is exact and within its limit:    *)
(* the runs of jobs that were dropped are counted until they end, no end is  *)
(* counted twice, and no source has two runs of its own.                     *)
THEOREM SlotsExact == Spec => []SlotsCounted
<1>1. ASSUME Counted PROVE SlotsCounted
  <2> SUFFICES ASSUME NEW s \in Sources PROVE Cardinality(RunsOf(s)) <= 1
    BY <1>1 DEF Counted, SlotsCounted
  <2>1. CASE RunsOf(s) = {}
    BY <2>1, FS_EmptySet
  <2>2. CASE RunsOf(s) # {}
    <3>1. PICK k \in RunsOf(s) : RunsOf(s) = {k}
      BY <1>1, <2>2 DEF Counted
    <3> QED BY <3>1, FS_Singleton
  <2> QED BY <2>1, <2>2
<1> QED BY <1>1, AlwaysCounted, PTL

-----------------------------------------------------------------------------
(* What remains of a source's wait is part of its job's floor, unless the    *)
(* job it was told to was dropped; a job that runs waits for nothing.        *)
Kept ==
  /\ wait \in [Sources -> Nat] /\ forgotten \subseteq Sources
  /\ \A s \in Sources : s \in forgotten \/ wait[s] <= jobs[s].floor
  /\ \A s \in Sources : jobs[s].running => jobs[s].floor = 0

LEMMA InitiallyKept == Init => Kept
BY DEF Init, Kept, NoJob

LEMMA FloorType ==
  ASSUME Ind, NEW s \in Sources
  PROVE  jobs[s].floor \in Nat
BY DEF Ind, Typed, Jobs, NoJob

(* A step that leaves sources the waits left, with the jobs of some dropped. *)
LEMMA KeptStep ==
  ASSUME \A s \in Sources : jobs'[s].floor \in Nat,
         NEW left \in [Sources -> Nat], NEW dropped \in SUBSET Sources,
         StillWait(left, dropped),
         \A s \in Sources : s \in dropped \/ left[s] <= jobs'[s].floor,
         \A s \in Sources : jobs'[s].running => jobs'[s].floor = 0
  PROVE  Kept'
<1>1. wait' = left /\ forgotten' = {s \in dropped : left[s] # 0}
  BY DEF StillWait
<1>2. \A s \in Sources : s \in forgotten' \/ wait'[s] <= jobs'[s].floor
  <2> TAKE s \in Sources
  <2>1. left[s] \in Nat /\ jobs'[s].floor \in Nat
    OBVIOUS
  <2> QED BY <1>1, <2>1
<1> QED BY <1>1, <1>2 DEF Kept

LEMMA SameWaits ==
  ASSUME Kept, UNCHANGED <<wait, forgotten>>,
         \A s \in Sources : jobs'[s].floor = jobs[s].floor,
         \A s \in Sources : jobs'[s].running => jobs[s].running
  PROVE  Kept'
BY DEF Kept

(* A run that is not stale is the run of a job that runs. *)
LEMMA RunOfJob ==
  ASSUME Ind, Counted, NEW k \in Slots, runs[k] # Free, ~runs[k].stale
  PROVE  /\ runs[k].source \in Sources
         /\ jobs[runs[k].source] \in Jobs /\ jobs[runs[k].source].running
<1>1. runs[k].source \in Sources /\ HasJob(runs[k].source)
  BY DEF Ind, Typed, Owned
<1>2. k \in RunsOf(runs[k].source)
  BY DEF RunsOf
<1> QED BY <1>1, <1>2, HasJobType DEF HasJob, Counted

LEMMA KeptSteps == Ind /\ Ind' /\ Counted /\ Kept /\ [Next]_vars => Kept'
<1> SUFFICES ASSUME Ind, Ind', Counted, Kept, [Next]_vars PROVE Kept'
  OBVIOUS
<1>1. \A s \in Sources : jobs[s].floor \in Nat /\ jobs'[s].floor \in Nat
  BY FloorType DEF Ind, Typed, Jobs, NoJob
<1>2. ~NoJob.running /\ NoJob.floor = 0 /\ ~NewJob.running /\ NewJob.floor = 0
  BY DEF NoJob, NewJob
<1>3. /\ wait \in [Sources -> Nat] /\ forgotten \in SUBSET Sources
      /\ \A s \in Sources : wait[s] \in Nat
  BY DEF Kept
<1>4. ASSUME NEW s \in Sources, Request(s) \/ Reconnected(s) PROVE Kept'
  <2>1. PICK m, d, r :
          jobs' = [jobs EXCEPT ![s].pending = m, ![s].due = d, ![s].retry = r]
    <3>1. PICK hint, r : Asked(s, hint, r)
      BY <1>4 DEF Request, Reconnected
    <3>2. PICK m : jobs' = [jobs EXCEPT ![s].pending = m, ![s].due = DueAfter(jobs[s]),
                                        ![s].retry = r]
      BY <3>1 DEF Asked
    <3> QED BY <3>2
  <2>2. jobs[s] \in Jobs
    BY <1>4, HasJobType DEF Request, Reconnected, HasJob
  <2>3. jobs'[s].floor = jobs[s].floor /\ jobs'[s].running = jobs[s].running
    BY <2>1, <2>2 DEF Ind, Typed, Jobs
  <2>4. \A x \in Sources : x # s => jobs'[x] = jobs[x]
    BY <2>1 DEF Ind, Typed
  <2>5. UNCHANGED <<wait, forgotten>>
    BY <1>4 DEF Request, Reconnected, waitVars
  <2> QED BY <2>3, <2>4, <2>5, SameWaits
<1>5. ASSUME NEW s \in Sources, NEW j, jobs' = [jobs EXCEPT ![s] = j], NEW w \in Nat,
             NEW dropped \in SUBSET Sources, forgotten \subseteq dropped \cup {s},
             StillWait([wait EXCEPT ![s] = w], dropped),
             s \in dropped \/ w <= j.floor, j.running => j.floor = 0
      PROVE  Kept'
  <2> DEFINE left == [wait EXCEPT ![s] = w]
  <2>1. left \in [Sources -> Nat] /\ left[s] = w /\ jobs'[s] = j
    BY <1>3, <1>5 DEF Ind, Typed
  <2>2. \A x \in Sources : x # s => left[x] = wait[x] /\ jobs'[x] = jobs[x]
    BY <1>3, <1>5 DEF Ind, Typed
  <2> HIDE DEF left
  <2>3. StillWait(left, dropped)
    BY <1>5 DEF left
  <2>4. \A x \in Sources : x \in dropped \/ left[x] <= jobs'[x].floor
    BY <1>5, <2>1, <2>2 DEF Kept
  <2>5. \A x \in Sources : jobs'[x].running => jobs'[x].floor = 0
    BY <1>5, <2>1, <2>2 DEF Kept
  <2> QED BY <1>1, <2>1, <2>3, <2>4, <2>5, KeptStep
<1>6. ASSUME NEW s \in Sources, NEW j, jobs' = [jobs EXCEPT ![s] = j], j.floor = 0,
              StillWait([wait EXCEPT ![s] = 0], forgotten)
       PROVE  Kept'
  <2>1. forgotten \subseteq forgotten \cup {s} /\ 0 \in Nat /\ 0 <= j.floor
    BY <1>6
  <2>2. forgotten \in SUBSET Sources
    BY <1>3
  <2>3. s \in forgotten \/ 0 <= j.floor
    BY <2>1
  <2>4. j.running => j.floor = 0
    BY <1>6
  <2> QED BY <1>5, <1>6, <2>1, <2>2, <2>3, <2>4
<1>7. ASSUME NEW s \in Sources, Completed(s) PROVE Kept'
  <2> DEFINE j == [jobs[s] EXCEPT !.next = Interval, !.retry = 0, !.floor = 0]
  <2>1. j.floor = 0 /\ jobs' = [jobs EXCEPT ![s] = j]
    BY <1>7, HasJobType DEF Completed, HasJob, Ind, Typed, Jobs
  <2>2. StillWait([wait EXCEPT ![s] = 0], forgotten)
    BY <1>7 DEF Completed
  <2> HIDE DEF j
  <2> QED BY <1>6, <2>1, <2>2
<1>8. ASSUME NEW s \in Sources, Remove(s) PROVE Kept'
  <2>1. jobs' = [jobs EXCEPT ![s] = NoJob] /\ StillWait(wait, forgotten \cup {s})
    BY <1>8 DEF Remove
  <2>2. \A x \in Sources : jobs'[x] = IF x = s THEN NoJob ELSE jobs[x]
    BY <2>1 DEF Ind, Typed
  <2>3. \A x \in Sources : x \in forgotten \cup {s} \/ wait[x] <= jobs'[x].floor
    BY <2>2 DEF Kept
  <2>4. \A x \in Sources : jobs'[x].running => jobs'[x].floor = 0
    BY <1>2, <2>2 DEF Kept
  <2> QED BY <1>1, <1>3, <2>1, <2>3, <2>4, KeptStep
<1>9. CASE Stop
  <2>1. jobs' = [s \in Sources |-> NoJob] /\ StillWait(wait, Sources)
    BY <1>9 DEF Stop
  <2> QED BY <1>1, <1>2, <1>3, <2>1, KeptStep
<1>10. ASSUME NEW targets \in SUBSET Sources, Configure(targets) PROVE Kept'
  <2> DEFINE gone == forgotten \cup (Scheduled \ targets)
  <2>1. StillWait(wait, gone) /\ gone \in SUBSET Sources
    BY <1>3, <1>10 DEF Configure, Scheduled
  <2>2. ASSUME NEW s \in Sources
        PROVE  /\ jobs'[s].running => jobs'[s].floor = 0
               /\ s \in gone \/ wait[s] <= jobs'[s].floor
    <3>1. CASE s \notin targets
      <4>1. jobs'[s] = NoJob
        BY <1>10, <3>1 DEF Configure
      <4>2. s \in gone \/ jobs[s] = NoJob
        BY <3>1 DEF Scheduled, HasJob
      <4> QED BY <1>2, <4>1, <4>2 DEF Kept
    <3>2. CASE s \in targets /\ ~HasJob(s)
      <4>1. jobs'[s] = NewJob /\ jobs[s] = NoJob
        BY <1>10, <3>2 DEF Configure, Scheduled, HasJob
      <4> QED BY <1>2, <4>1 DEF Kept
    <3>3. CASE s \in targets /\ HasJob(s)
      <4>1. jobs'[s] = [jobs[s] EXCEPT !.next = NextPoll(jobs[s])] /\ jobs[s] \in Jobs
        BY <1>10, <3>3, HasJobType DEF Configure, Scheduled, HasJob
      <4>2. jobs'[s].running = jobs[s].running /\ jobs'[s].floor = jobs[s].floor
        BY <4>1 DEF Jobs
      <4> QED BY <4>2 DEF Kept
    <3> QED BY <3>1, <3>2, <3>3
  <2> HIDE DEF gone
  <2> QED BY <1>1, <1>3, <2>1, <2>2, KeptStep
<1>11. CASE Drain
  <2>1. PICK begun \in SUBSET {x \in Scheduled : ReadyIn(jobs[x]) = 0} :
          jobs' = [s \in Sources |->
            IF s \in begun THEN [jobs[s] EXCEPT !.running = TRUE, !.pending = none] ELSE jobs[s]]
    BY <1>11 DEF Drain
  <2>2. ASSUME NEW s \in Sources
        PROVE  /\ jobs'[s].floor = jobs[s].floor
               /\ jobs'[s].running => jobs'[s].floor = 0
    <3>1. CASE s \in begun
      <4>1. jobs[s] \in Jobs /\ jobs[s].floor <= jobs[s].retry /\ ReadyIn(jobs[s]) = 0
        BY <2>1, <3>1, HasJobType DEF Scheduled, HasJob, Ind, Waits
      <4>2. jobs'[s] = [jobs[s] EXCEPT !.running = TRUE, !.pending = none]
        BY <2>1, <3>1
      <4>3. jobs[s].floor = 0
        BY <4>1 DEF ReadyIn, AtLeast, Jobs
      <4> QED BY <4>1, <4>2, <4>3 DEF Jobs
    <3>2. CASE s \notin begun
      BY <2>1, <3>2 DEF Kept
    <3> QED BY <3>1, <3>2
  <2>3. UNCHANGED <<wait, forgotten>>
    BY <1>11 DEF Drain, waitVars
  <2> QED BY <2>2, <2>3 DEF Kept
<1>12. CASE Tick
  <2> DEFINE left == [s \in Sources |-> Later(wait[s])]
  <2>1. left \in [Sources -> Nat] /\ StillWait(left, forgotten)
    <3>1. \A d \in Nat : Later(d) \in Nat
      BY DEF Later, AtLeast
    <3> QED BY <1>3, <1>12, <3>1 DEF Tick
  <2>2. ASSUME NEW s \in Sources
        PROVE  jobs'[s].floor = Later(jobs[s].floor)
    <3>1. CASE HasJob(s)
      <4>1. jobs[s] \in Jobs
        BY <3>1, HasJobType DEF HasJob
      <4>2. jobs'[s] = [jobs[s] EXCEPT !.due = Later(@), !.retry = Later(@),
                                       !.floor = Later(@), !.next = Later(@)]
        BY <1>12, <3>1 DEF Tick
      <4> QED BY <4>1, <4>2 DEF Jobs
    <3>2. CASE ~HasJob(s)
      <4>1. jobs'[s] = NoJob /\ jobs[s] = NoJob
        BY <1>12, <3>2 DEF Tick, HasJob
      <4> QED BY <4>1 DEF NoJob, Later, AtLeast
    <3> QED BY <3>1, <3>2
  <2>3. ASSUME NEW s \in Sources
        PROVE  /\ s \in forgotten \/ left[s] <= jobs'[s].floor
               /\ jobs'[s].running => jobs'[s].floor = 0
    <3>1. jobs'[s].running = jobs[s].running
      BY <1>12, TickKeeps
    <3>2. s \in forgotten \/ wait[s] <= jobs[s].floor
      BY DEF Kept
    <3>3. jobs[s].running => jobs[s].floor = 0
      BY DEF Kept
    <3>4. wait[s] \in Nat /\ jobs[s].floor \in Nat
      BY <1>1, <1>3
    <3> QED BY <2>2, <3>1, <3>2, <3>3, <3>4 DEF Later, AtLeast
  <2> HIDE DEF left
  <2> QED BY <1>1, <1>3, <2>1, <2>3, KeptStep
<1>13. ASSUME NEW k \in Slots, RunEnds(k) PROVE Kept'
  <2> DEFINE s == runs[k].source
  <2>1. CASE EndStale(k)
    BY <2>1 DEF EndStale, waitVars, Kept
  <2>2. ~EndStale(k) => /\ s \in Sources /\ jobs[s] \in Jobs /\ jobs[s].running
                        /\ Settled(jobs[s]) \in Jobs
                        /\ Settled(jobs[s]).floor = 0 /\ ~Settled(jobs[s]).running
    <3> SUFFICES ASSUME ~EndStale(k)
                 PROVE  /\ s \in Sources /\ jobs[s] \in Jobs /\ jobs[s].running
                        /\ Settled(jobs[s]) \in Jobs
                        /\ Settled(jobs[s]).floor = 0 /\ ~Settled(jobs[s]).running
      OBVIOUS
    <3>1. s \in Sources /\ jobs[s] \in Jobs /\ jobs[s].running
      BY <1>13, Ends, RunOfJob
    <3> HIDE DEF s
    <3> QED BY <3>1, SettledType DEF Settled, Jobs
  <2>3. CASE Succeed(k)
    <3>1. /\ jobs' = [jobs EXCEPT ![s] = Settled(jobs[s])]
          /\ StillWait([wait EXCEPT ![s] = 0], forgotten)
          /\ ~EndStale(k)
      BY <2>3 DEF Succeed, EndStale
    <3> HIDE DEF s
    <3> QED BY <1>6, <2>2, <3>1
  <2>4. ASSUME NEW hint, Repeat(k, hint), ~EndStale(k)
        PROVE  \E j : jobs' = [jobs EXCEPT ![s] = j] /\ j.floor = 0 /\ ~j.running
    <3>1. PICK m : jobs' = [jobs EXCEPT ![s] = [Settled(jobs[s]) EXCEPT !.pending = m,
                                                                        !.due = Debounce]]
      BY <2>4 DEF Repeat
    <3> DEFINE x == Settled(jobs[s])
               j == [x EXCEPT !.pending = m, !.due = Debounce]
    <3>2. x \in Jobs /\ x.floor = 0 /\ ~x.running
      BY <2>2, <2>4
    <3> HIDE DEF x
    <3>3. j.floor = 0 /\ ~j.running
      BY <3>2 DEF Jobs
    <3>4. jobs' = [jobs EXCEPT ![s] = j]
      BY <3>1 DEF x
    <3> HIDE DEF j, s
    <3> QED BY <3>3, <3>4
  <2>5. CASE FoundBusy(k)
    <3>1. ~EndStale(k) /\ UNCHANGED <<wait, forgotten>>
      BY <2>5 DEF FoundBusy, Repeat, EndStale, waitVars
    <3>2. PICK j : jobs' = [jobs EXCEPT ![s] = j] /\ j.floor = 0 /\ ~j.running
      BY <2>4, <2>5, <3>1 DEF FoundBusy
    <3>3. jobs[s].floor = 0 /\ s \in Sources
      BY <2>2, <3>1 DEF Kept
    <3> HIDE DEF s
    <3>4. \A x \in Sources : jobs'[x].floor = jobs[x].floor
                             /\ (jobs'[x].running => jobs[x].running)
      BY <3>2, <3>3 DEF Ind, Typed
    <3> QED BY <3>1, <3>4, SameWaits
  <2>6. CASE MorePending(k)
    <3>1. ~EndStale(k) /\ StillWait([wait EXCEPT ![s] = 0], forgotten)
      BY <2>6 DEF MorePending, Repeat, EndStale
    <3>2. PICK j : jobs' = [jobs EXCEPT ![s] = j] /\ j.floor = 0 /\ ~j.running
      BY <2>4, <2>6, <3>1 DEF MorePending
    <3> HIDE DEF s
    <3> QED BY <1>6, <2>2, <3>1, <3>2
  <2>7. CASE Fail(k)
    <3>1. ~EndStale(k)
      BY <2>7 DEF Fail, EndStale
    <3>2. PICK delay \in 1..MaxBackoff : \E floor \in 0..delay :
            /\ jobs' = [jobs EXCEPT ![s] = [@ EXCEPT !.retry = delay, !.floor = floor,
                         !.pending = full, !.due = delay, !.running = FALSE]]
            /\ StillWait([wait EXCEPT ![s] = floor], forgotten \ {s})
      BY <2>7 DEF Fail
    <3>3. PICK floor \in 0..delay :
            /\ jobs' = [jobs EXCEPT ![s] = [@ EXCEPT !.retry = delay, !.floor = floor,
                         !.pending = full, !.due = delay, !.running = FALSE]]
            /\ StillWait([wait EXCEPT ![s] = floor], forgotten \ {s})
      BY <3>2
    <3> DEFINE j == [jobs[s] EXCEPT !.retry = delay, !.floor = floor,
                       !.pending = full, !.due = delay, !.running = FALSE]
    <3>4. j.floor = floor /\ ~j.running /\ floor \in Nat /\ floor <= j.floor
      <4>1. floor \in Nat /\ floor <= floor
        BY Delays
      <4>2. j.floor = floor /\ ~j.running
        BY <2>2, <3>1 DEF Jobs
      <4> QED BY <4>1, <4>2
    <3>5. jobs' = [jobs EXCEPT ![s] = j]
      BY <3>3
    <3> HIDE DEF j, s
    <3>6. forgotten \ {s} \in SUBSET Sources /\ forgotten \subseteq (forgotten \ {s}) \cup {s}
      BY <1>3
    <3> QED BY <1>5, <2>2, <3>1, <3>3, <3>4, <3>5, <3>6
  <2> QED BY <1>13, <2>1, <2>3, <2>5, <2>6, <2>7 DEF RunEnds
<1>14. CASE UNCHANGED vars
  BY <1>14 DEF vars, Kept
<1> QED BY <1>4, <1>7, <1>8, <1>9, <1>10, <1>11, <1>12, <1>13, <1>14 DEF Next

LEMMA AlwaysKept == Spec => []Kept
<1> QED BY InitiallyKept, KeptSteps, AlwaysCounted, Invariance, PTL DEF Spec

(* The wait that a failed run of a source came back with is kept from every  *)
(* run that drain begins for it, unless its job was dropped: whatever        *)
(* shortens the delay of a job leaves this part of it.                       *)
THEOREM WaitsKept == Spec => ServerWaitKept
<1>1. ASSUME Ind, Kept, [Next]_vars, NEW s \in Sources, ~jobs[s].running, jobs'[s].running
      PROVE  wait[s] = 0 \/ s \in forgotten
  <2> DEFINE ready == {x \in Scheduled : ~jobs[x].running /\ ReadyIn(jobs[x]) = 0}
  <2>1. Drain
    BY <1>1, OnlyDrainBegins
  <2>2. s \in ready
    BY <1>1, <2>1 DEF Drain
  <2>3. jobs[s] \in Jobs /\ jobs[s].floor <= jobs[s].retry
    BY <1>1, <2>2, HasJobType DEF HasJob, Scheduled, Ind, Waits
  <2>4. ReadyIn(jobs[s]) = 0
    BY <2>2
  <2>5. jobs[s].floor = 0
    BY <2>3, <2>4 DEF ReadyIn, AtLeast, Jobs
  <2>6. wait[s] \in Nat /\ (s \in forgotten \/ wait[s] <= jobs[s].floor)
    BY <1>1 DEF Kept
  <2> QED BY <2>5, <2>6
<1>2. Ind /\ Kept /\ [Next]_vars =>
        (\A s \in Sources :
           ~jobs[s].running /\ jobs'[s].running => wait[s] = 0 \/ s \in forgotten)
  BY <1>1
<1> QED BY <1>2, Invariance, AlwaysKept, PTL DEF Spec, ServerWaitKept

-----------------------------------------------------------------------------
(* The line orders the jobs by the time at which they are due, and the timer *)
(* is off or has a delay.                                                    *)
Lined ==
  /\ IsOrder(line, Scheduled)
  /\ \A s, t \in Scheduled : <<s, t>> \in line => jobs[s].due <= jobs[t].due
  /\ timer \in Nat \cup {Off}

LEMMA LeastIsIn ==
  ASSUME NEW T \in SUBSET Nat, T # {}
  PROVE  Min(T) \in T /\ \A y \in T : Min(T) <= y
<1> DEFINE Below(x) == 0..x
           All == {Below(x) : x \in T}
<1>1. All \subseteq FiniteSubsetsOf(Nat) /\ All # {}
  <2>1. \A x \in T : Below(x) \in SUBSET Nat /\ IsFiniteSet(Below(x))
    BY FS_Interval
  <2>2. \A x \in T : Below(x) \in FiniteSubsetsOf(Nat)
    <3> HIDE DEF Below
    <3> QED BY <2>1 DEF FiniteSubsetsOf
  <2> QED BY <2>2
<1>2. PICK X \in All : \A Y \in All : ~ (<<Y, X>> \in StrictSubsetOrdering(Nat))
  <2> HIDE DEF All
  <2> QED BY <1>1, FS_StrictSubsetOrderingWellFounded, WFMin
<1>3. PICK x \in T : X = Below(x)
  BY <1>2
<1>4. ASSUME NEW y \in T, y < x
      PROVE  FALSE
  <2>1. Below(y) \subseteq Below(x) /\ Below(y) # Below(x)
    BY <1>4
  <2>2. <<Below(y), X>> \in StrictSubsetOrdering(Nat)
    BY <2>1, <1>3, <1>1 DEF StrictSubsetOrdering
  <2> QED BY <2>2, <1>2
<1>5. \A y \in T : x <= y
  BY <1>4
<1> QED BY <1>5 DEF Min

LEMMA ArmedType ==
  ASSUME NEW js \in [Sources -> Jobs \cup {NoJob}], NEW count
  PROVE  Armed(js, count) \in Nat \cup {Off}
<1> DEFINE waiting == {s \in Sources : js[s] # NoJob /\ ~js[s].running}
           delays  == {ReadyIn(js[s]) : s \in waiting}
<1>1. \A j \in Jobs : ReadyIn(j) \in Nat
  BY DEF ReadyIn, AtLeast, Jobs
<1>2. delays \subseteq Nat
  BY <1>1
<1>3. CASE waiting = {} \/ count >= MaxRunning
  BY <1>3 DEF Armed
<1>4. CASE waiting # {} /\ ~(count >= MaxRunning)
  <2>1. Min(delays) \in Nat
    BY <1>2, <1>4, LeastIsIn
  <2> QED BY <1>4, <2>1 DEF Armed
<1> QED BY <1>3, <1>4

LEMMA InitiallyLined == Init => Lined
<1> SUFFICES ASSUME Init PROVE Lined
  OBVIOUS
<1>1. Scheduled = {}
  BY DEF Init, Scheduled, HasJob
<1> QED BY <1>1 DEF Init, Lined, IsOrder

LEMMA DueType ==
  ASSUME Ind
  PROVE  \A s \in Scheduled : s \in Sources /\ jobs[s] \in Jobs /\ jobs[s].due \in Nat
BY HasJobType DEF Scheduled, HasJob, Jobs

(* Sources that are all due in d are put in the line of those that are kept. *)
Woven(kept, added, row, d) ==
  LET soon  == {t \in kept : jobs[t].due <= d}
      later == {t \in kept : jobs[t].due > d}
  IN Among(soon \cup later) \cup row \cup (soon \X added) \cup (added \X later)

LEMMA WovenIsOrder ==
  ASSUME Ind, Lined, NEW kept \in SUBSET Scheduled, NEW added, kept \cap added = {},
         NEW row, IsOrder(row, added), NEW d \in Nat
  PROVE  /\ IsOrder(Woven(kept, added, row, d), kept \cup added)
         /\ \A t \in kept, u \in added :
              /\ <<t, u>> \in Woven(kept, added, row, d) => jobs[t].due <= d
              /\ <<u, t>> \in Woven(kept, added, row, d) => d <= jobs[t].due
         /\ \A t, u \in kept : <<t, u>> \in Woven(kept, added, row, d) => <<t, u>> \in line
<1> DEFINE soon  == {t \in kept : jobs[t].due <= d}
           later == {t \in kept : jobs[t].due > d}
           order == Woven(kept, added, row, d)
<1>1. \A t \in kept :
        /\ (t \in soon) <=> (jobs[t].due <= d)
        /\ (t \in later) <=> (jobs[t].due > d)
        /\ (t \in soon) <=> (t \notin later)
  BY DueType
<1>2. soon \cup later = kept /\ row \subseteq added \X added
  BY <1>1 DEF IsOrder
<1>3. order = Among(soon \cup later) \cup row \cup (soon \X added) \cup (added \X later)
  BY DEF Woven
<1> HIDE DEF soon, later, order
<1>4. order \subseteq (kept \cup added) \X (kept \cup added)
  BY <1>2, <1>3 DEF Among
<1>5. \A t, u \in kept : (<<t, u>> \in order) <=> (<<t, u>> \in line)
  BY <1>2, <1>3 DEF Among
<1>6. \A t \in kept, u \in added :
        /\ (<<t, u>> \in order) <=> (t \in soon)
        /\ (<<u, t>> \in order) <=> (t \in later)
  BY <1>2, <1>3 DEF Among
<1>7. \A t, u \in added : (<<t, u>> \in order) <=> (<<t, u>> \in row)
  BY <1>2, <1>3 DEF Among
<1>8. \A t, u \in kept \cup added :
        (<<t, u>> \in order) <=> (t # u /\ <<u, t>> \notin order)
  <2> TAKE t, u \in kept \cup added
  <2>1. CASE t \in kept /\ u \in kept
    BY <1>5, <2>1 DEF Lined, IsOrder
  <2>2. CASE t \in added /\ u \in added
    BY <1>7, <2>2 DEF IsOrder
  <2>3. CASE (t \in kept /\ u \in added) \/ (t \in added /\ u \in kept)
    BY <1>1, <1>6, <2>3
  <2> QED BY <2>1, <2>2, <2>3
<1>9. \A t \in soon, u \in later : <<t, u>> \in line
  <2> TAKE t \in soon, u \in later
  <2>1. t \in Scheduled /\ u \in Scheduled /\ jobs[t].due <= d /\ jobs[u].due > d
    BY <1>1, <1>2
  <2>2. ~(jobs[u].due <= jobs[t].due) /\ t # u
    BY <2>1, DueType
  <2> QED BY <2>1, <2>2 DEF Lined, IsOrder
<1>10. \A t, u \in kept : <<t, u>> \in line /\ u \in soon => t \in soon
  <2> TAKE t, u \in kept
  <2> HAVE <<t, u>> \in line /\ u \in soon
  <2>1. jobs[t].due <= jobs[u].due /\ jobs[u].due <= d
    BY <1>1 DEF Lined
  <2>2. jobs[t].due <= d
    BY <2>1, DueType
  <2> QED BY <1>1, <2>2
<1>11. \A t, u \in kept : <<t, u>> \in line /\ t \in later => u \in later
  BY <1>1, <1>10
<1>12. ASSUME NEW t \in kept \cup added, NEW u \in kept \cup added, NEW v \in kept \cup added,
              <<t, u>> \in order, <<u, v>> \in order
       PROVE  <<t, v>> \in order
  <2>1. CASE t \in added /\ u \in kept /\ v \in kept
    BY <1>5, <1>6, <1>11, <1>12, <2>1
  <2>2. CASE t \in kept /\ u \in added /\ v \in kept
    BY <1>5, <1>6, <1>9, <1>12, <2>2
  <2>3. CASE t \in kept /\ u \in kept /\ v \in added
    BY <1>5, <1>6, <1>10, <1>12, <2>3
  <2>4. CASE t \in kept /\ u \in kept /\ v \in kept
    BY <1>5, <1>12, <2>4 DEF Lined, IsOrder
  <2>5. CASE t \in added /\ u \in added /\ v \in added
    BY <1>7, <1>12, <2>5 DEF IsOrder
  <2>6. CASE t \in added /\ u \in kept /\ v \in added
    BY <1>1, <1>6, <1>12, <2>6
  <2>7. CASE t \in added /\ u \in added /\ v \in kept
    BY <1>6, <1>12, <2>7
  <2>8. CASE t \in kept /\ u \in added /\ v \in added
    BY <1>6, <1>12, <2>8
  <2> QED BY <2>1, <2>2, <2>3, <2>4, <2>5, <2>6, <2>7, <2>8
<1>13. IsOrder(order, kept \cup added)
  BY <1>4, <1>8, <1>12 DEF IsOrder
<1>14. \A t \in kept, u \in added :
        /\ <<t, u>> \in order => jobs[t].due <= d
        /\ <<u, t>> \in order => d <= jobs[t].due
  <2> TAKE t \in kept, u \in added
  <2>1. jobs[t].due \in Nat
    BY DueType
  <2> QED BY <1>1, <1>6, <2>1
<1> QED BY <1>5, <1>13, <1>14 DEF order

LEMMA RelinedIsOrder ==
  ASSUME Ind, Lined, NEW s \in Scheduled, NEW d \in Nat
  PROVE  /\ IsOrder(Relined(s, d), Scheduled)
         /\ \A t \in Scheduled \ {s} : <<t, s>> \in Relined(s, d) => jobs[t].due <= d
         /\ \A t \in Scheduled \ {s} : <<s, t>> \in Relined(s, d) => d <= jobs[t].due
         /\ \A t, u \in Scheduled \ {s} : <<t, u>> \in Relined(s, d) => <<t, u>> \in line
<1> DEFINE kept == Scheduled \ {s}
<1>1. Relined(s, d) = Woven(kept, {s}, {}, d)
  BY DEF Relined, Woven
<1>2. /\ kept \in SUBSET Scheduled /\ kept \cap {s} = {} /\ kept \cup {s} = Scheduled
      /\ IsOrder({}, {s})
  BY DEF IsOrder
<1> HIDE DEF kept
<1>3. /\ IsOrder(Woven(kept, {s}, {}, d), kept \cup {s})
      /\ \A t \in kept, u \in {s} :
           /\ <<t, u>> \in Woven(kept, {s}, {}, d) => jobs[t].due <= d
           /\ <<u, t>> \in Woven(kept, {s}, {}, d) => d <= jobs[t].due
      /\ \A t, u \in kept : <<t, u>> \in Woven(kept, {s}, {}, d) => <<t, u>> \in line
  BY <1>2, WovenIsOrder
<1> QED BY <1>1, <1>2, <1>3 DEF kept

LEMMA GivenLined ==
  ASSUME Ind, Lined, Ind', NEW s \in Sources, NEW j, Given(s, j)
  PROVE  Lined'
<1>1. /\ jobs'[s] = j /\ j \in Jobs /\ j.due \in Nat /\ s \in Scheduled
      /\ \A t \in Sources \ {s} : jobs'[t] = jobs[t]
  BY DEF Given, Ind, Typed, Jobs, Scheduled
<1>2. Scheduled' = Scheduled
  BY <1>1, JobIsNotNone DEF Scheduled, HasJob
<1>3. Scheduled \subseteq Sources
  BY DEF Scheduled
<1>4. CASE line' = line /\ j.due = jobs[s].due
  <2>1. \A t \in Scheduled : jobs'[t].due = jobs[t].due
    BY <1>1, <1>3, <1>4
  <2>2. IsOrder(line, Scheduled)'
    BY <1>2, <1>4 DEF Lined, IsOrder
  <2> QED BY <1>2, <1>4, <2>1, <2>2, ArmedType DEF Lined, Given, Ind, Typed
<1>5. CASE line' = Relined(s, j.due)
  <2> DEFINE order == Relined(s, j.due)
  <2>1. /\ IsOrder(order, Scheduled)
        /\ \A t \in Scheduled \ {s} : <<t, s>> \in order => jobs[t].due <= j.due
        /\ \A t \in Scheduled \ {s} : <<s, t>> \in order => j.due <= jobs[t].due
        /\ \A t, u \in Scheduled \ {s} : <<t, u>> \in order => <<t, u>> \in line
    BY <1>1, RelinedIsOrder
  <2>2. line' = order
    BY <1>5
  <2> HIDE DEF order
  <2>3. IsOrder(line, Scheduled)'
    BY <1>2, <2>1, <2>2 DEF IsOrder
  <2>4. ASSUME NEW t \in Scheduled, NEW u \in Scheduled, <<t, u>> \in order
        PROVE  jobs'[t].due <= jobs'[u].due
    <3>1. t # u
      BY <2>1, <2>4 DEF IsOrder
    <3> QED BY <1>1, <1>3, <2>1, <2>4, <3>1 DEF Lined
  <2> QED BY <1>2, <2>2, <2>3, <2>4, ArmedType DEF Lined, Given, Ind, Typed
<1> QED BY <1>4, <1>5 DEF Given

(* A step that changes no place in the line. *)
LEMMA SameLine ==
  ASSUME Lined, UNCHANGED line, Scheduled' = Scheduled, timer' \in Nat \cup {Off},
         \A s, t \in Scheduled : jobs[s].due <= jobs[t].due => jobs'[s].due <= jobs'[t].due
  PROVE  Lined'
<1>1. IsOrder(line, Scheduled)'
  BY DEF Lined, IsOrder
<1> QED BY <1>1 DEF Lined

LEMMA AmongIsOrder ==
  ASSUME Lined, NEW rest \in SUBSET Scheduled
  PROVE  /\ IsOrder(Among(rest), rest)
         /\ \A s, t \in rest : <<s, t>> \in Among(rest) => jobs[s].due <= jobs[t].due
BY DEF Lined, IsOrder, Among

LEMMA FewerLined ==
  ASSUME Lined, NEW rest \in SUBSET Scheduled, line' = Among(rest), Scheduled' = rest,
         \A s \in rest : jobs'[s] = jobs[s], timer' \in Nat \cup {Off}
  PROVE  Lined'
<1>1. IsOrder(line, Scheduled)'
  BY AmongIsOrder DEF IsOrder
<1> QED BY <1>1, AmongIsOrder DEF Lined

LEMMA ConfigureLined ==
  ASSUME Ind, Lined, Ind', NEW targets \in SUBSET Sources, Configure(targets)
  PROVE  Lined'
<1> DEFINE added == targets \ Scheduled
           kept  == Scheduled \cap targets
<1>1. PICK row \in SUBSET (added \X added) :
        /\ IsOrder(row, added)
        /\ line' = Woven(kept, added, row, Debounce)
  BY DEF Configure, Woven
<1>2. \A s \in kept : jobs'[s] # NoJob /\ jobs'[s].due = jobs[s].due
  <2> TAKE s \in kept
  <2>1. jobs[s] \in Jobs /\ jobs[s].due \in Nat
    BY DueType
  <2>2. jobs'[s] = [jobs[s] EXCEPT !.next = NextPoll(jobs[s])]
    BY DEF Configure, Scheduled
  <2>3. jobs'[s].due = jobs[s].due
    BY <2>1, <2>2 DEF Jobs
  <2> QED BY <2>1, <2>3 DEF NoJob
<1>3. \A s \in added : jobs'[s] # NoJob /\ jobs'[s].due = Debounce
  <2> TAKE s \in added
  <2>1. jobs'[s] = NewJob
    BY DEF Configure
  <2>2. NewJob.due = Debounce
    BY DEF NewJob, NoJob
  <2> QED BY <2>1, <2>2, Delays DEF NoJob
<1>4. \A s \in Sources \ targets : jobs'[s] = NoJob
  BY DEF Configure
<1>5. Scheduled' = kept \cup added
  BY <1>2, <1>3, <1>4 DEF Scheduled, HasJob
<1>6. timer' \in Nat \cup {Off}
  BY ArmedType DEF Configure, Ind, Typed
<1>7. kept \in SUBSET Scheduled /\ kept \cap added = {} /\ kept \cap Sources = kept
  BY DEF Scheduled
<1> DEFINE order == Woven(kept, added, row, Debounce)
<1> HIDE DEF added, kept
<1>8. /\ IsOrder(order, kept \cup added)
      /\ \A t \in kept, u \in added :
           /\ <<t, u>> \in order => jobs[t].due <= Debounce
           /\ <<u, t>> \in order => Debounce <= jobs[t].due
      /\ \A t, u \in kept : <<t, u>> \in order => <<t, u>> \in line
  BY <1>1, <1>7, Delays, WovenIsOrder
<1>9. line' = order
  BY <1>1
<1> HIDE DEF order
<1>10. IsOrder(line, Scheduled)'
  BY <1>5, <1>8, <1>9 DEF IsOrder
<1>11. ASSUME NEW t \in kept \cup added, NEW u \in kept \cup added, <<t, u>> \in order
       PROVE  jobs'[t].due <= jobs'[u].due
  <2>1. CASE t \in kept /\ u \in kept
    BY <1>2, <1>7, <1>8, <1>11, <2>1 DEF Lined
  <2>2. CASE t \in kept /\ u \in added
    BY <1>2, <1>3, <1>8, <1>11, <2>2
  <2>3. CASE t \in added /\ u \in kept
    BY <1>2, <1>3, <1>8, <1>11, <2>3
  <2>4. CASE t \in added /\ u \in added
    BY <1>3, <2>4, Delays
  <2> QED BY <2>1, <2>2, <2>3, <2>4
<1> QED BY <1>5, <1>6, <1>9, <1>10, <1>11 DEF Lined

LEMMA LinedSteps == Ind /\ Lined /\ Ind' /\ [Next]_vars => Lined'
<1> SUFFICES ASSUME Ind, Lined, Ind', [Next]_vars PROVE Lined'
  OBVIOUS
<1>1. ASSUME NEW s \in Sources, Request(s) \/ Reconnected(s) \/ Completed(s)
      PROVE  Lined'
  BY <1>1, Asks, GivenLined
<1>2. ASSUME NEW s \in Sources, Remove(s)
      PROVE  Lined'
  <2> DEFINE rest == Scheduled \ {s}
  <2>1. Scheduled' = rest /\ \A t \in rest : jobs'[t] = jobs[t]
    BY <1>2 DEF Remove, Ind, Typed, Scheduled, HasJob
  <2>2. Among(Sources \ {s}) = Among(rest)
    <3>1. line \subseteq Scheduled \X Scheduled /\ Scheduled \subseteq Sources
      BY DEF Lined, IsOrder, Scheduled
    <3> QED BY <3>1 DEF Among
  <2>3. line' = Among(rest) /\ timer' \in Nat \cup {Off}
    BY <1>2, <2>2, ArmedType DEF Remove, Ind, Typed
  <2>4. rest \in SUBSET Scheduled
    OBVIOUS
  <2> HIDE DEF rest
  <2> QED BY <2>1, <2>3, <2>4, FewerLined
<1>3. CASE Stop
  <2>1. Scheduled' = {} /\ line' = {} /\ timer' \in Nat \cup {Off}
    BY <1>3 DEF Stop, Scheduled, HasJob
  <2> QED BY <2>1 DEF Lined, IsOrder
<1>4. CASE Tick
  <2>1. Scheduled' = Scheduled
    BY <1>4, TickKeeps DEF Scheduled, HasJob
  <2>2. \A s \in Scheduled : jobs'[s].due = Later(jobs[s].due) /\ jobs[s].due \in Nat
    BY <1>4, TickKeeps, DueType DEF Scheduled
  <2>3. \A s, t \in Scheduled : jobs[s].due <= jobs[t].due => jobs'[s].due <= jobs'[t].due
    BY <2>2 DEF Later, AtLeast
  <2>4. timer' \in Nat \cup {Off} /\ line' = line
    <3>1. timer' = (IF timer = Off THEN Off ELSE Later(timer)) /\ line' = line
      BY <1>4 DEF Tick
    <3>2. \A d \in Nat : Later(d) \in Nat
      BY DEF Later, AtLeast
    <3> QED BY <3>1, <3>2 DEF Lined
  <2> QED BY <2>1, <2>3, <2>4, SameLine
<1>5. CASE Drain
  <2>1. timer' \in Nat \cup {Off} /\ line' = line
    BY <1>5, ArmedType DEF Drain, Ind, Typed
  <2>2. PICK begun \in SUBSET Scheduled : jobs' = [s \in Sources |->
          IF s \in begun THEN [jobs[s] EXCEPT !.running = TRUE, !.pending = none] ELSE jobs[s]]
    BY <1>5 DEF Drain
  <2>3. \A s \in Scheduled : jobs'[s].due = jobs[s].due /\ jobs'[s] # NoJob
    <3> TAKE s \in Scheduled
    <3>1. s \in Sources /\ jobs[s] \in Jobs /\ jobs[s].due \in Nat
      BY DueType
    <3>2. jobs'[s] = jobs[s]
          \/ jobs'[s] = [jobs[s] EXCEPT !.running = TRUE, !.pending = none]
      BY <2>2, <3>1
    <3>3. jobs'[s].due = jobs[s].due
      BY <3>1, <3>2 DEF Jobs
    <3> QED BY <3>1, <3>3 DEF NoJob
  <2>4. \A s \in Sources \ Scheduled : jobs'[s] = jobs[s]
    BY <2>2
  <2>5. Scheduled' = Scheduled
    BY <2>3, <2>4 DEF Scheduled, HasJob
  <2> QED BY <2>1, <2>3, <2>5, SameLine
<1>6. ASSUME NEW k \in Slots, EndStale(k)
      PROVE  Lined'
  <2>1. jobs' = jobs /\ line' = line /\ timer' = Armed(jobs', running')
    BY <1>6 DEF EndStale, Released
  <2>2. timer' \in Nat \cup {Off} /\ Scheduled' = Scheduled
    BY <2>1, ArmedType DEF Ind, Typed, Scheduled, HasJob
  <2> QED BY <2>1, <2>2, SameLine
<1>7. ASSUME NEW k \in Slots, RunEnds(k), ~EndStale(k)
      PROVE  Lined'
  BY <1>7, Ends, GivenLined
<1>8. CASE UNCHANGED vars
  BY <1>8, SameLine DEF vars, Scheduled, HasJob, Lined
<1> QED BY <1>1, <1>2, <1>3, <1>4, <1>5, <1>6, <1>7, <1>8, ConfigureLined DEF Next

LEMMA AlwaysLined == Spec => []Lined
<1> QED BY InitiallyLined, LinedSteps, Invariance, PTL DEF Spec

(* The state stays well-formed: the line that drain follows is a total order *)
(* of exactly the sources that have a job, by the time at which each is due, *)
(* and the timer is armed with a delay or off.                               *)
THEOREM TypeCorrect == Spec => []TypeOK
<1>1. ASSUME Ind, Counted, Lined, Kept PROVE TypeOK
  BY <1>1, SlotsFinite DEF Ind, Typed, Counted, Lined, Kept, TypeOK
<1> QED BY <1>1, Invariance, AlwaysCounted, AlwaysLined, AlwaysKept, PTL

=============================================================================
