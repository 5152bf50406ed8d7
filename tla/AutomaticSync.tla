---------------------------- MODULE AutomaticSync ----------------------------
(* AutomaticSyncScheduler: one job per password source, one timer, at most   *)
(* MaxRunning synchronizations at a time. Edits, notifications, focus,       *)
(* alarms and reconnections ask for runs; configuration, pauses and locks    *)
(* drop jobs while their runs go on. Times are the delays that remain, so    *)
(* that a delay of zero is a time that has come.                             *)
EXTENDS Integers, FiniteSetsExt

CONSTANTS
  Sources,     \* password sources
  MaxRunning,  \* synchronizations that may run at a time
  Debounce,    \* delay of a request, of a new job and of a repetition
  Interval,    \* delay of the next poll
  MaxBackoff   \* longest delay after a failure

ASSUME SourcesAssumption == IsFiniteSet(Sources)
ASSUME DelaysAssumption ==
  /\ MaxRunning \in Nat \ {0} /\ Debounce \in Nat \ {0}
  /\ Interval \in Nat \ {0} /\ MaxBackoff \in Nat \ {0}

VARIABLES
  jobs,      \* jobs, by source
  line,      \* the order of dueAt: pairs of sources that have a job
  timer,     \* the delay of the armed timer
  running,   \* the counter of running synchronizations
  runs,      \* the synchronizations that run, by slot
  owed,      \* the strongest hint given since a run took the hints
  wait,      \* what remains of the wait that the last failed run of a job came back with
  forgotten  \* sources whose job was dropped while that wait lasted

vars == <<jobs, line, timer, running, runs, owed, wait, forgotten>>
waitVars == <<wait, forgotten>>

\* Hints in the order in which mergeHints lets one swallow another.
Hints   == 0..3
none    == 0
check   == 1
ciphers == 2
full    == 3

\* due, retry, floor, next: dueAt, retryAt, minimumRetryAt, nextCheckAt
NoJob == [pending |-> none, due |-> -1, retry |-> 0, floor |-> 0, next |-> 0,
          running |-> FALSE]
Jobs  == [pending : Hints, due : Nat, retry : Nat, floor : Nat, next : Nat,
          running : BOOLEAN]
Off   == -1

\* A run is stale when its job was dropped, even if the source has a new one.
\* One slot more than the code allows, so that the limit could be missed.
Slots == 1..(MaxRunning + 1)
Free  == [source |-> "none", hint |-> none, owes |-> none, stale |-> FALSE]
HasJob(s)  == jobs[s] # NoJob
RunsOf(s)  == {k \in Slots : runs[k] # Free /\ runs[k].source = s /\ ~runs[k].stale}
Occupied   == {k \in Slots : runs[k] # Free}

Scheduled == {s \in Sources : HasJob(s)}
IsOrder(order, set) ==
  /\ order \subseteq set \X set
  /\ \A s, t \in set : <<s, t>> \in order <=> s # t /\ <<t, s>> \notin order
  /\ \A s, t, u \in set : <<s, t>> \in order /\ <<t, u>> \in order => <<s, u>> \in order

TypeOK ==
  /\ jobs \in [Sources -> Jobs \cup {NoJob}]
  /\ IsOrder(line, Scheduled)
  /\ \A s, t \in Scheduled : <<s, t>> \in line => jobs[s].due <= jobs[t].due
  /\ timer \in Nat \cup {Off}
  /\ running \in Nat
  /\ runs \in [Slots -> [source : Sources, hint : Hints \ {none}, owes : Hints,
                         stale : BOOLEAN] \cup {Free}]
  /\ owed \in [Sources -> Hints]
  /\ wait \in [Sources -> Nat]
  /\ forgotten \subseteq Sources

Init ==
  /\ jobs = [s \in Sources |-> NoJob]
  /\ line = {}
  /\ timer = Off
  /\ running = 0
  /\ runs = [k \in Slots |-> Free]
  /\ owed = [s \in Sources |-> none]
  /\ wait = [s \in Sources |-> 0]
  /\ forgotten = {}
-----------------------------------------------------------------------------
AtLeast(a, b) == IF a > b THEN a ELSE b
AtMost(a, b)  == IF a < b THEN a ELSE b

\* mergeHints: more than 64 Ciphers are a full reconciliation.
Merges(a, b) ==
  IF a = ciphers /\ b = ciphers THEN {ciphers, full} ELSE {AtLeast(a, b)}

ReadyIn(j) == AtLeast(j.retry, IF j.pending # none THEN j.due ELSE j.next)

\* arm: the timer that the jobs and the counter call for.
Armed(js, count) ==
  LET waiting == {s \in Sources : js[s] # NoJob /\ ~js[s].running}
  IN IF count >= MaxRunning \/ waiting = {} THEN Off
     ELSE Min({ReadyIn(js[s]) : s \in waiting})

Among(set) == line \cap (set \X set)
\* The line when s is due in d.
Relined(s, d) ==
  LET soon  == {t \in Scheduled \ {s} : jobs[t].due <= d}
      later == {t \in Scheduled \ {s} : jobs[t].due > d}
  IN Among(soon \cup later) \cup (soon \X {s}) \cup ({s} \X later)

\* The runs of the jobs that are dropped go on.
Abandoned(dropped) ==
  [k \in Slots |-> IF runs[k] # Free /\ runs[k].source \in dropped
                   THEN [runs[k] EXCEPT !.stale = TRUE] ELSE runs[k]]
OwedWithout(dropped) == [s \in Sources |-> IF s \in dropped THEN none ELSE owed[s]]

\* What sources still have to wait for, and those of them whose job was dropped.
StillWait(left, dropped) ==
  wait' = left /\ forgotten' = {s \in dropped : left[s] # 0}
-----------------------------------------------------------------------------
\* A definition whose name begins with Bug is a plausible slip in the code of
\* the definition it precedes; nothing else refers to it. Here every hint starts
\* the delay anew.
BugDebounceAgain(j) == Debounce
\* request, for one source; its delay counts from the first hint that waits.
DueAfter(j) == IF j.pending # none THEN AtMost(j.due, Debounce) ELSE Debounce

Asked(s, hint, retry) ==
  \E merged \in Merges(jobs[s].pending, hint) :
    LET d == DueAfter(jobs[s])
    IN /\ jobs' = [jobs EXCEPT ![s].pending = merged, ![s].due = d, ![s].retry = retry]
       /\ line' = IF d = jobs[s].due THEN line ELSE Relined(s, d)
       /\ timer' = Armed(jobs', running)
       /\ owed' = [owed EXCEPT ![s] = AtLeast(@, hint)]

Request(s) ==
  /\ HasJob(s)
  /\ \E hint \in Hints \ {none} : Asked(s, hint, jobs[s].retry)
  /\ UNCHANGED <<running, runs, waitVars>>

\* A mutant: a connection that comes back ends every wait.
BugNoWaitLeft(j) == 0

\* reconnected, for one source: the backoff ends, what the server asked for not.
WaitLeft(j) == j.floor
Reconnected(s) ==
  /\ HasJob(s)
  /\ Asked(s, full, WaitLeft(jobs[s]))
  /\ UNCHANGED <<running, runs, waitVars>>

\* A manual synchronization of the source has succeeded.
Completed(s) ==
  /\ HasJob(s)
  /\ jobs' = [jobs EXCEPT ![s].next = Interval, ![s].retry = 0, ![s].floor = 0]
  /\ timer' = Armed(jobs', running)
  /\ StillWait([wait EXCEPT ![s] = 0], forgotten)
  /\ UNCHANGED <<line, running, runs, owed>>

\* A mutant: a new job has no time at which it is due.
BugNewJobNotDue == [NoJob EXCEPT !.pending = check, !.next = Interval]
NewJob == [NoJob EXCEPT !.pending = check, !.due = Debounce, !.next = Interval]

\* configure; the poll of a job that exists is never put off. A job that is
\* dropped, here or below, takes minimumRetryAt with it, and a new one has none.
NextPoll(j) == AtMost(j.next, Interval)
Configure(targets) ==
  LET dropped == Scheduled \ targets
      added   == targets \ Scheduled
      soon    == {s \in Scheduled \cap targets : jobs[s].due <= Debounce}
      later   == {s \in Scheduled \cap targets : jobs[s].due > Debounce}
  IN /\ jobs' = [s \in Sources |->
           IF s \notin targets THEN NoJob
           ELSE IF s \in added THEN NewJob
           ELSE [jobs[s] EXCEPT !.next = NextPoll(jobs[s])]]
     /\ \E row \in SUBSET (added \X added) :
          /\ IsOrder(row, added)
          /\ line' = Among(soon \cup later) \cup row \cup (soon \X added) \cup (added \X later)
     /\ runs' = Abandoned(dropped)
     /\ timer' = Armed(jobs', running)
     /\ owed' = [s \in Sources |->
                   IF s \in added THEN check ELSE OwedWithout(dropped)[s]]
     /\ StillWait(wait, forgotten \cup dropped)
     /\ UNCHANGED running

\* remove: the source is paused.
Remove(s) ==
  /\ jobs' = [jobs EXCEPT ![s] = NoJob]
  /\ line' = Among(Sources \ {s})
  /\ runs' = Abandoned({s})
  /\ timer' = Armed(jobs', running)
  /\ owed' = OwedWithout({s})
  /\ StillWait(wait, forgotten \cup {s})
  /\ UNCHANGED running

\* stop: the vault is locked, or automatic synchronization is turned off.
Stop ==
  /\ jobs' = [s \in Sources |-> NoJob]
  /\ line' = {}
  /\ runs' = Abandoned(Sources)
  /\ timer' = Off
  /\ owed' = [s \in Sources |-> none]
  /\ StillWait(wait, Sources)
  /\ UNCHANGED running
-----------------------------------------------------------------------------
\* A mutant: the counter is compared with > in place of >=.
BugLimitPlusOne == MaxRunning + 1
Limit == MaxRunning

\* drain: the jobs that are ready take the slots in the order of the line.
Drain ==
  LET ready == {s \in Scheduled : ~jobs[s].running /\ ReadyIn(jobs[s]) = 0}
      n     == AtMost(Cardinality(ready), AtLeast(0, Limit - running))
  IN /\ timer = 0
     /\ \E begun \in SUBSET ready :
          /\ Cardinality(begun) = n
          /\ \A s \in begun, t \in ready \ begun : <<s, t>> \in line
          /\ LET slot == CHOOSE f \in [begun -> Slots \ Occupied] :
                           \A s, t \in begun : s # t => f[s] # f[t]
             IN runs' = [k \in Slots |->
                  IF \E s \in begun : slot[s] = k
                  THEN LET s == CHOOSE s \in begun : slot[s] = k
                       IN [source |-> s, hint |-> AtLeast(jobs[s].pending, check),
                           owes |-> owed[s], stale |-> FALSE]
                  ELSE runs[k]]
          /\ jobs' = [s \in Sources |->
               IF s \in begun THEN [jobs[s] EXCEPT !.running = TRUE, !.pending = none]
               ELSE jobs[s]]
          /\ owed' = [s \in Sources |-> IF s \in begun THEN none ELSE owed[s]]
     /\ running' = running + n
     /\ timer' = Armed(jobs', running')
     /\ UNCHANGED <<line, waitVars>>

\* The finally block: every run gives its slot back, and arms the timer.
Released(k) ==
  /\ runs' = [runs EXCEPT ![k] = Free]
  /\ running' = running - 1
  /\ timer' = Armed(jobs', running')

\* A run whose job was dropped tells the new one nothing.
EndStale(k) ==
  /\ runs[k] # Free /\ runs[k].stale
  /\ jobs' = jobs
  /\ Released(k)
  /\ UNCHANGED <<line, owed, waitVars>>

Settled(j) ==
  [j EXCEPT !.retry = 0, !.floor = 0, !.next = Interval, !.running = FALSE]

Succeed(k) ==
  LET s == runs[k].source
  IN /\ runs[k] # Free /\ ~runs[k].stale
     /\ jobs' = [jobs EXCEPT ![s] = Settled(@)]
     /\ Released(k)
     /\ StillWait([wait EXCEPT ![s] = 0], forgotten)
     /\ UNCHANGED <<line, owed>>

\* A mutant: the hint of a run that was turned away is forgotten.
BugHintForgotten(j, hint) == {AtLeast(j.pending, check)}

\* The source was busy, or more changes wait: the run is repeated soon.
HintsAfter(j, hint) == Merges(j.pending, hint)
Repeat(k, hint) ==
  LET s == runs[k].source
  IN /\ runs[k] # Free /\ ~runs[k].stale
     /\ \E merged \in HintsAfter(jobs[s], hint) :
          jobs' = [jobs EXCEPT ![s] =
                    [Settled(@) EXCEPT !.pending = merged, !.due = Debounce]]
     /\ line' = Relined(s, Debounce)
     /\ Released(k)

FoundBusy(k) ==
  /\ Repeat(k, runs[k].hint)
  /\ owed' = [owed EXCEPT ![runs[k].source] = AtLeast(@, runs[k].owes)]
  /\ UNCHANGED waitVars
MorePending(k) ==
  /\ Repeat(k, full)
  /\ owed' = [owed EXCEPT ![runs[k].source] = full]
  /\ StillWait([wait EXCEPT ![runs[k].source] = 0], forgotten)

\* A failure waits for its backoff, or longer when the server says so, and is
\* followed by a full reconciliation.
Fail(k) ==
  LET s == runs[k].source
  IN /\ runs[k] # Free /\ ~runs[k].stale
     /\ \E delay \in 1..MaxBackoff : \E floor \in 0..delay :
          /\ jobs' = [jobs EXCEPT ![s] =
               [@ EXCEPT !.retry = delay, !.floor = floor, !.pending = full,
                         !.due = delay, !.running = FALSE]]
          /\ line' = Relined(s, delay)
          /\ StillWait([wait EXCEPT ![s] = floor], forgotten \ {s})
     /\ Released(k)
     /\ owed' = [owed EXCEPT ![s] = full]

RunEnds(k) ==
  EndStale(k) \/ Succeed(k) \/ FoundBusy(k) \/ MorePending(k) \/ Fail(k)

Later(d) == AtLeast(0, d - 1)
\* Delays are long beside the lateness of a timer: one that is due fires first.
Tick ==
  /\ timer # 0
  /\ jobs' = [s \in Sources |->
       IF HasJob(s)
       THEN [jobs[s] EXCEPT !.due = Later(@), !.retry = Later(@), !.floor = Later(@),
                            !.next = Later(@)]
       ELSE NoJob]
  /\ timer' = IF timer = Off THEN Off ELSE Later(timer)
  /\ StillWait([s \in Sources |-> Later(wait[s])], forgotten)
  /\ UNCHANGED <<line, running, runs, owed>>

Next ==
  \/ \E s \in Sources : Request(s) \/ Reconnected(s) \/ Completed(s) \/ Remove(s)
  \/ \E targets \in SUBSET Sources : Configure(targets)
  \/ Stop \/ Drain \/ Tick
  \/ \E k \in Slots : RunEnds(k)

Spec == Init /\ [][Next]_vars

\* Time passes, timers fire, and a run ends: it is aborted after 120 seconds.
FairSpec ==
  Spec /\ WF_vars(Tick) /\ WF_vars(Drain) /\ \A k \in Slots : WF_vars(RunEnds(k))
-----------------------------------------------------------------------------
(* The counter counts the runs there are, those of dropped jobs too, and     *)
(* never more than the limit; a job runs when one of these is its own.       *)
SlotsCounted ==
  /\ running = Cardinality(Occupied) /\ running <= MaxRunning
  /\ \A s \in Sources :
       /\ Cardinality(RunsOf(s)) <= 1
       /\ jobs[s].running <=> RunsOf(s) # {}

(* A run that takes the hints of a source is as thorough as the strongest    *)
(* hint it was given since the last run that was not turned away, and        *)
(* complete after a failure.                                                 *)
HintsHonoured ==
  \A k \in Slots : runs[k] # Free => runs[k].hint >= runs[k].owes

(* As long as its job is kept, no source is run before the wait is over that  *)
(* its last failed run came back with, whatever is asked for, reconfigured or *)
(* reconnected meanwhile, and whatever other runs do. The wait of a job that  *)
(* was dropped is excepted.                                                   *)
ServerWaitKept ==
  [][\A s \in Sources :
       ~jobs[s].running /\ jobs'[s].running => wait[s] = 0 \/ s \in forgotten]_vars

(* Repetitions of a failed run heed the server's Retry-After, as the           *)
(* documentation has it. Not so: a lock, a pause or a source that is turned    *)
(* off drops the job and its wait, and the new job is due half a second later. *)
RetryAfterHeeded ==
  [][\A s \in Sources : ~jobs[s].running /\ jobs'[s].running => wait[s] = 0]_vars

(* A request is followed by a run of its source, unless the source is        *)
(* dropped, however many requests and reconfigurations come and however      *)
(* many runs fail.                                                           *)
RequestsRun ==
  \A s \in Sources : jobs[s].pending # none ~> jobs[s].pending = none
=============================================================================
