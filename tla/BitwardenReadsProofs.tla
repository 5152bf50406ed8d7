------------------------- MODULE BitwardenReadsProofs -------------------------
(* The cache of the last reading is only trusted when it is the account and  *)
(* the vault shows it: for every set of Ciphers and every bound.             *)
EXTENDS BitwardenReads, FiniteSetTheorems, TLAPS

Caches == [known : {TRUE}, payload : Payloads, revision : Versions]
Jobs   == [hint : Hint, running : BOOLEAN, exists : BOOLEAN]
Runs   == [at : {"delta", "check", "sync", "got", "apply"}, auto : BOOLEAN,
           serves : BOOLEAN, stale : BOOLEAN, aborted : BOOLEAN, hinted : BOOLEAN,
           reuse : BOOLEAN, writes : BOOLEAN, payload : Payloads,
           revision : Versions, left : SUBSET Ciphers, removed : SUBSET Ciphers]

Typed ==
  /\ server \in Payloads /\ revision \in Nat
  /\ \A c \in Ciphers : server[c] <= revision
  /\ vault \in Payloads /\ missed \in SUBSET Ciphers /\ edited \in SUBSET Ciphers
  /\ cache \in Caches \cup {NoCache}
  /\ job \in Jobs /\ run \in Runs \cup {NoRun}
  /\ absent \in SUBSET Ciphers /\ mode \in {"on", "off", "locked"}
  /\ changes \in 0..MaxChanges /\ acts \in 0..MaxActs /\ faults \in 0..MaxFaults

(* Every revision has its change of another client or its edit, and an edit  *)
(* that waits has not had its revision yet.                                  *)
Counted == 1 <= revision /\ revision + Cardinality(edited) <= 1 + changes + acts

(* No revision that was noted is ahead of the server. *)
Behind ==
  /\ cache # NoCache => cache.revision <= revision
  /\ run # NoRun => run.revision <= revision

(* A run that a job waits for has its job; a run that was stopped left no    *)
(* baseline, and only a run of a job notes a revision.                       *)
Serving ==
  /\ job.exists => mode = "on"
  /\ mode = "locked" => cache = NoCache
  /\ run # NoRun =>
       /\ run.stale => cache = NoCache
       /\ mode = "locked" => run.stale
       /\ run.aborted => run.stale
       /\ run.serves => job.exists /\ job.running
       /\ run.auto /\ ~run.stale => run.serves
       /\ ~run.auto => /\ run.at # "delta" /\ ~run.reuse /\ ~run.hinted
                       /\ run.revision = Unknown

(* What the server lacked, and what a reading found removed. *)
Seen == run # NoRun => Absent \subseteq absent /\ run.removed \subseteq absent

(* A payload that bears the revision of the account is the account. *)
Reads ==
  /\ cache # NoCache /\ cache.revision = revision => cache.payload = server
  /\ run # NoRun /\ run.at \in {"delta", "got", "apply"} /\ run.revision = revision
       => run.payload = server

(* The baseline is the reading of the run that is about to be merged. *)
Taken == run # NoRun /\ run.at = "apply" /\ ~run.stale =>
  cache = [known |-> TRUE, payload |-> run.payload, revision |-> run.revision]

(* Something is under way, or asked for, that does not trust the baseline. *)
Debt ==
  \/ job.exists /\ ~job.running /\ job.hint = Full
  \/ /\ run # NoRun /\ run.serves /\ ~run.stale
     /\ run.at = "apply" \/ (run.at \in {"check", "sync", "got"} /\ ~run.reuse)
Current == cache # NoCache /\ cache.revision = revision
Merged == Current => Debt \/ \A c \in Ciphers \ edited : Shown(c)

Ind == Typed /\ Counted /\ Behind /\ Serving /\ Seen /\ Reads /\ Taken /\ Merged

LEMMA Fields ==
  /\ NoCache \notin Caches /\ NoRun \notin Runs
  /\ \A r \in Runs : r.at # "idle"
  /\ Full \in Hint /\ Check \in Hint /\ NoHint \in Hint /\ NoJob \in Jobs
BY DEF Caches, NoCache, NoRun, Runs, Full, Check, NoHint, NoJob, Hint, Jobs

LEMMA InVersions ==
  ASSUME Ind
  PROVE  revision \in Versions /\ Cardinality(edited) \in Nat /\ IsFiniteSet(edited)
<1>1. IsFiniteSet(edited) /\ Cardinality(edited) \in Nat
  BY BoundsAssumption, FS_Subset, FS_CardinalityType DEF Ind, Typed
<1> QED BY <1>1, BoundsAssumption DEF Ind, Typed, Counted, Versions

LEMMA Numbers ==
  ASSUME Ind
  PROVE  /\ revision \in Nat
         /\ cache # NoCache => cache.revision \in Nat
         /\ run # NoRun => run.revision \in Nat
<1> Versions \subseteq Nat
  BY BoundsAssumption DEF Versions
<1> QED BY DEF Ind, Typed, Caches, Runs

LEMMA MergedHint ==
  ASSUME NEW a \in Hint, NEW b \in Hint
  PROVE  Merges(a, b) \in Hint /\ (a = Full => Merges(a, b) = Full)
BY DEF Merges, Hint, Full, Only, Check

LEMMA SetHint ==
  ASSUME NEW j \in Jobs, NEW h \in Hint
  PROVE  /\ [j EXCEPT !.hint = h] \in Jobs /\ [j EXCEPT !.hint = h].hint = h
         /\ [j EXCEPT !.hint = h].exists = j.exists
         /\ [j EXCEPT !.hint = h].running = j.running
BY DEF Jobs

(* What is asked of the job keeps what was asked before. *)
LEMMA AskedJob ==
  ASSUME job \in Jobs, NEW h \in Hint
  PROVE  /\ Asked(h) \in Jobs
         /\ Asked(h).exists = job.exists /\ Asked(h).running = job.running
         /\ job.hint = Full => Asked(h).hint = Full
<1> DEFINE m == Merges(job.hint, h)
<1>1. job.hint \in Hint
  BY DEF Jobs
<1>2. m \in Hint /\ (job.hint = Full => m = Full)
  BY <1>1, MergedHint
<1>3. Asked(h) = IF job.exists THEN [job EXCEPT !.hint = m] ELSE job
  BY DEF Asked
<1> HIDE DEF m
<1> QED BY <1>2, <1>3, SetHint

LEMMA Initially == Init => Ind
<1> SUFFICES ASSUME Init PROVE Ind
  OBVIOUS
<1>1. Typed
  BY BoundsAssumption, Fields DEF Init, Typed, Payloads, Versions
<1>2. Counted
  BY FS_EmptySet DEF Init, Counted
<1>3. Behind /\ Serving /\ Seen /\ Reads /\ Taken /\ Merged
  BY DEF Init, Behind, Serving, Seen, Reads, Taken, Merged, Current, NoJob
<1> QED BY <1>1, <1>2, <1>3 DEF Ind

LEMMA ServerChangesKeeps ==
  ASSUME Ind, NEW c \in Ciphers, ServerChanges(c)
  PROVE  Ind'
<1> USE Fields
<1>1. PICK gone \in BOOLEAN :
        /\ server' = [server EXCEPT ![c] = IF gone THEN 0 ELSE revision + 1]
        /\ absent' = IF gone /\ run # NoRun THEN absent \cup {c} ELSE absent
  BY DEF ServerChanges
<1>2. /\ revision' = revision + 1 /\ changes' = changes + 1 /\ changes < MaxChanges
      /\ job' \in {job, Asked(Only({c}))}
      /\ UNCHANGED <<vault, missed, edited, cache, run, mode, acts, faults>>
  BY DEF ServerChanges, vaultVars
<1>3. changes' \in 0..MaxChanges /\ Counted'
  BY <1>2, BoundsAssumption, InVersions DEF Ind, Typed, Counted
<1>4. revision + 1 \in Versions
  BY <1>2, <1>3, BoundsAssumption, InVersions DEF Counted, Ind, Typed, Versions
<1>5. server' \in Payloads /\ \A d \in Ciphers : server'[d] <= revision'
  <2> DEFINE v == IF gone THEN 0 ELSE revision + 1
  <2>1. v \in Versions /\ v <= revision'
    BY <1>2, <1>4, BoundsAssumption DEF Ind, Typed, Versions
  <2>2. server' = [server EXCEPT ![c] = v] /\ server \in Payloads
    BY <1>1 DEF Ind, Typed
  <2> HIDE DEF v
  <2>3. server' \in Payloads /\ server'[c] = v /\ \A d \in Ciphers : d # c => server'[d] = server[d]
    BY <2>1, <2>2 DEF Payloads
  <2>4. \A d \in Ciphers : server[d] <= revision /\ server[d] \in Nat /\ revision \in Nat
    BY Numbers, BoundsAssumption DEF Ind, Typed, Payloads, Versions
  <2>5. revision' = revision + 1
    BY <1>2
  <2>6. ASSUME NEW d \in Ciphers PROVE server'[d] <= revision'
    <3>1. CASE d = c
      BY <3>1, <2>1, <2>3
    <3>2. CASE d # c
      <4>1. server'[d] = server[d]
        BY <3>2, <2>3
      <4> QED BY <4>1, <2>4, <2>5
    <3> QED BY <3>1, <3>2
  <2> QED BY <2>3, <2>6
<1>6. /\ job' \in Jobs /\ job'.exists = job.exists /\ job'.running = job.running
      /\ job.hint = Full => job'.hint = Full
  <2>1. Only({c}) \in Hint /\ job \in Jobs
    BY DEF Only, Hint, Ind, Typed
  <2> QED BY <1>2, <2>1, AskedJob
<1>7. Typed'
  BY <1>1, <1>2, <1>3, <1>5, <1>6 DEF Ind, Typed
<1>8. Behind' /\ Serving'
  <2>1. Behind'
    BY <1>2, Numbers DEF Ind, Behind
  <2>2. Serving'
    BY <1>2, <1>6 DEF Ind, Serving
  <2> QED BY <2>1, <2>2
<1>9. Seen'
  BY <1>1, <1>2 DEF Ind, Typed, Seen, Absent, Payloads
<1>10. Reads' /\ Merged'
  <2>1. cache # NoCache => cache'.revision # revision'
    BY <1>2, Numbers DEF Ind, Behind
  <2>2. run # NoRun => run'.revision # revision'
    BY <1>2, Numbers DEF Ind, Behind
  <2> QED BY <1>2, <2>1, <2>2 DEF Reads, Merged, Current
<1>11. Taken'
  BY <1>2 DEF Ind, Taken
<1> QED BY <1>3, <1>7, <1>8, <1>9, <1>10, <1>11 DEF Ind

LEMMA ChannelSpeaksKeeps ==
  ASSUME Ind, ChannelSpeaks
  PROVE  Ind'
<1> USE Fields
<1>1. /\ acts' = acts + 1 /\ acts < MaxActs
      /\ job' \in {Asked(Full)} \cup {Asked(Only({c})) : c \in Ciphers}
      /\ UNCHANGED <<server, revision, vault, missed, edited, cache, run, mode, absent,
                     changes, faults>>
  BY DEF ChannelSpeaks, Act, vaultVars, serverVars
<1>2. PICK h \in Hint : job' = Asked(h)
  BY <1>1 DEF Only, Hint
<1>3. /\ job' \in Jobs /\ job'.exists = job.exists /\ job'.running = job.running
      /\ job.hint = Full => job'.hint = Full
  BY <1>2, AskedJob DEF Ind, Typed
<1>4. acts' \in 0..MaxActs /\ Counted'
  BY <1>1, BoundsAssumption, InVersions DEF Ind, Typed, Counted
<1>5. Typed'
  BY <1>1, <1>3, <1>4 DEF Ind, Typed
<1>6. Behind' /\ Serving'
  <2>1. Behind'
    BY <1>1 DEF Ind, Behind
  <2>2. Serving'
    BY <1>1, <1>3 DEF Ind, Serving
  <2> QED BY <2>1, <2>2
<1>7. Seen' /\ Reads' /\ Taken'
  BY <1>1 DEF Ind, Seen, Absent, Reads, Taken
<1>8. Merged'
  BY <1>1, <1>3 DEF Ind, Merged, Current, Debt, Shown
<1> QED BY <1>4, <1>5, <1>6, <1>7, <1>8 DEF Ind

LEMMA UserEditsKeeps ==
  ASSUME Ind, NEW c \in Ciphers, UserEdits(c)
  PROVE  Ind'
<1>1. /\ acts' = acts + 1 /\ acts < MaxActs
      /\ edited' = edited \cup {c} /\ c \notin edited
      /\ UNCHANGED <<server, revision, vault, missed, cache, job, run, mode, absent,
                     changes, faults>>
  BY DEF UserEdits, Act, serverVars
<1>2. Cardinality(edited') = Cardinality(edited) + 1
  BY <1>1, InVersions, FS_AddElement
<1>3. acts' \in 0..MaxActs /\ Counted'
  BY <1>1, <1>2, BoundsAssumption, InVersions DEF Ind, Typed, Counted
<1>4. Typed'
  BY <1>1, <1>3 DEF Ind, Typed
<1>5. Behind' /\ Serving' /\ Seen' /\ Reads' /\ Taken'
  BY <1>1 DEF Ind, Behind, Serving, Seen, Absent, Reads, Taken
<1>6. Merged'
  BY <1>1 DEF Ind, Merged, Current, Debt, Shown
<1> QED BY <1>3, <1>4, <1>5, <1>6 DEF Ind

(* A step that only moves the run on keeps the rest as it was. *)
LEMMA RunMoves ==
  ASSUME Ind, run # NoRun, run' \in Runs,
         UNCHANGED <<serverVars, vaultVars, cache, job, mode, absent, countVars>>,
         run'.stale = run.stale, run'.aborted = run.aborted, run'.serves = run.serves,
         run'.auto = run.auto, run'.reuse = run.reuse, run'.hinted = run.hinted,
         run'.revision <= revision, ~run.auto => run'.revision = Unknown,
         run'.removed \subseteq absent,
         run'.at \in {"delta", "got"} /\ run'.revision = revision => run'.payload = server,
         run.at # "apply", run'.at # "apply", run'.at = "delta" => run.at = "delta",
         run.at \in {"check", "sync", "got"} => run'.at \in {"check", "sync", "got"}
  PROVE  Ind'
<1> USE Fields
<1>1. UNCHANGED <<server, revision, vault, missed, edited, cache, job, mode, absent,
                  changes, acts, faults>>
  BY DEF serverVars, vaultVars, countVars
<1>2. run' # NoRun
  OBVIOUS
<1>3. Typed' /\ Counted'
  BY <1>1 DEF Ind, Typed, Counted
<1>4. Behind'
  BY <1>1 DEF Ind, Behind
<1>5. Serving'
  BY <1>1 DEF Ind, Serving
<1>6. Seen' /\ Taken'
  BY <1>1 DEF Ind, Seen, Absent, Taken
<1>7. Reads'
  BY <1>1 DEF Ind, Reads
<1>8. Merged'
  BY <1>1, <1>2 DEF Ind, Merged, Current, Debt, Shown
<1> QED BY <1>3, <1>4, <1>5, <1>6, <1>7, <1>8 DEF Ind

LEMMA IsRun ==
  ASSUME Ind, run.at # "idle"
  PROVE  run # NoRun /\ run \in Runs
BY DEF Ind, Typed, NoRun

LEMMA ReadCipherKeeps ==
  ASSUME Ind, NEW c \in Ciphers, ReadCipher(c)
  PROVE  Ind'
<1> DEFINE p == [run.payload EXCEPT ![c] = server[c]]
           l == run.left \ {c}
           m == IF server[c] = 0 THEN run.removed \cup {c} ELSE run.removed
<1>1. /\ run.at = "delta"
      /\ run' = [run EXCEPT !.payload = p, !.left = l, !.removed = m]
      /\ UNCHANGED <<serverVars, vaultVars, cache, job, mode, absent, countVars>>
  BY DEF ReadCipher
<1>2. run # NoRun /\ run \in Runs
  BY <1>1, IsRun
<1>3. p \in Payloads /\ l \subseteq Ciphers /\ m \subseteq Ciphers
  BY <1>2 DEF Runs, Payloads, Ind, Typed
<1>4. m \subseteq absent
  BY <1>2 DEF Ind, Seen, Absent
<1>5. run.payload = server => p = server
  BY DEF Payloads, Ind, Typed
<1> HIDE DEF p, l, m
<1>6. /\ run' \in Runs /\ run'.payload = p /\ run'.removed = m
      /\ run'.at = run.at /\ run'.revision = run.revision /\ run'.stale = run.stale
      /\ run'.aborted = run.aborted /\ run'.serves = run.serves /\ run'.auto = run.auto
      /\ run'.reuse = run.reuse /\ run'.hinted = run.hinted
  BY <1>1, <1>2, <1>3 DEF Runs
<1>7. run'.revision <= revision /\ (~run.auto => run'.revision = Unknown)
  BY <1>2, <1>6 DEF Ind, Behind, Serving
<1>8. run'.revision = revision => run'.payload = server
  BY <1>1, <1>2, <1>5, <1>6 DEF Ind, Reads
<1> QED BY <1>1, <1>2, <1>4, <1>6, <1>7, <1>8, RunMoves

LEMMA DeltaReadKeeps ==
  ASSUME Ind, DeltaRead
  PROVE  Ind'
<1>1. /\ run.at = "delta" /\ run # NoRun /\ run \in Runs
      /\ UNCHANGED <<serverVars, vaultVars, cache, job, mode, absent, countVars>>
  BY IsRun DEF DeltaRead
<1>2. run.revision <= revision /\ (~run.auto => run.revision = Unknown)
  BY <1>1 DEF Ind, Behind, Serving
<1>3. CASE run' = [run EXCEPT !.at = "got"]
  <2>1. /\ run' \in Runs /\ run'.payload = run.payload /\ run'.removed = run.removed
        /\ run'.at = "got" /\ run'.revision = run.revision /\ run'.stale = run.stale
        /\ run'.aborted = run.aborted /\ run'.serves = run.serves /\ run'.auto = run.auto
        /\ run'.reuse = run.reuse /\ run'.hinted = run.hinted
    BY <1>1, <1>3 DEF Runs
  <2>2. run'.removed \subseteq absent /\ (run'.revision = revision => run'.payload = server)
    BY <1>1, <2>1 DEF Ind, Seen, Reads
  <2> QED BY <1>1, <1>2, <2>1, <2>2, RunMoves
<1>4. CASE run' = [run EXCEPT !.at = "check", !.payload = Empty, !.removed = {}]
  <2>1. Empty \in Payloads
    BY BoundsAssumption DEF Empty, Payloads, Versions
  <2>2. /\ run' \in Runs /\ run'.removed = {}
        /\ run'.at = "check" /\ run'.revision = run.revision /\ run'.stale = run.stale
        /\ run'.aborted = run.aborted /\ run'.serves = run.serves /\ run'.auto = run.auto
        /\ run'.reuse = run.reuse /\ run'.hinted = run.hinted
    BY <1>1, <1>4, <2>1 DEF Runs
  <2> QED BY <1>1, <1>2, <2>2, RunMoves
<1> QED BY <1>3, <1>4 DEF DeltaRead

LEMMA RenewedKeeps ==
  ASSUME Ind, Renewed
  PROVE  Ind'
<1>1. /\ run.at = "check" /\ run # NoRun /\ run \in Runs
      /\ run' = [run EXCEPT !.at = "got", !.payload = cache.payload, !.revision = revision]
      /\ UNCHANGED <<serverVars, vaultVars, cache, job, mode, absent, countVars>>
      /\ run.reuse /\ cache # NoCache /\ cache.revision = revision
  BY IsRun DEF Renewed, Unchanged
<1>2. cache.payload \in Payloads /\ revision \in Versions /\ revision <= revision
  <2>1. cache.payload \in Payloads
    BY <1>1 DEF Ind, Typed, Caches
  <2> QED BY <2>1, InVersions, Numbers
<1>3. /\ run' \in Runs /\ run'.payload = cache.payload /\ run'.removed = run.removed
      /\ run'.at = "got" /\ run'.revision = revision /\ run'.stale = run.stale
      /\ run'.aborted = run.aborted /\ run'.serves = run.serves /\ run'.auto = run.auto
      /\ run'.reuse = run.reuse /\ run'.hinted = run.hinted
  BY <1>1, <1>2 DEF Runs
<1>4. cache.payload = server /\ run.auto /\ run.removed \subseteq absent
  BY <1>1 DEF Ind, Reads, Serving, Seen
<1> QED BY <1>1, <1>2, <1>3, <1>4, RunMoves

LEMMA CheckRevisionKeeps ==
  ASSUME Ind, CheckRevision
  PROVE  Ind'
<1> DEFINE r == IF run.hinted /\ Dated THEN revision ELSE Unknown
<1>1. /\ run.at = "check" /\ run # NoRun /\ run \in Runs
      /\ run' = [run EXCEPT !.at = "sync", !.revision = r]
      /\ UNCHANGED <<serverVars, vaultVars, cache, job, mode, absent, countVars>>
  BY IsRun DEF CheckRevision
<1>2. r \in Versions /\ r <= revision /\ (~run.auto => r = Unknown)
  BY <1>1, InVersions, Numbers, BoundsAssumption DEF Unknown, Versions, Ind, Serving
<1> HIDE DEF r
<1>3. /\ run' \in Runs /\ run'.removed = run.removed
      /\ run'.at = "sync" /\ run'.revision = r /\ run'.stale = run.stale
      /\ run'.aborted = run.aborted /\ run'.serves = run.serves /\ run'.auto = run.auto
      /\ run'.reuse = run.reuse /\ run'.hinted = run.hinted
  BY <1>1, <1>2 DEF Runs
<1>4. run.removed \subseteq absent
  BY <1>1 DEF Ind, Seen
<1> QED BY <1>1, <1>2, <1>3, <1>4, RunMoves

LEMMA ReadAllKeeps ==
  ASSUME Ind, ReadAll
  PROVE  Ind'
<1>1. /\ run.at = "sync" /\ run # NoRun /\ run \in Runs
      /\ run' = [run EXCEPT !.at = "got", !.payload = server, !.removed = {}]
      /\ UNCHANGED <<serverVars, vaultVars, cache, job, mode, absent, countVars>>
  BY IsRun DEF ReadAll
<1>2. run.revision <= revision /\ (~run.auto => run.revision = Unknown) /\ server \in Payloads
  BY <1>1 DEF Ind, Typed, Behind, Serving
<1>3. /\ run' \in Runs /\ run'.removed = {} /\ run'.payload = server
      /\ run'.at = "got" /\ run'.revision = run.revision /\ run'.stale = run.stale
      /\ run'.aborted = run.aborted /\ run'.serves = run.serves /\ run'.auto = run.auto
      /\ run'.reuse = run.reuse /\ run'.hinted = run.hinted
  BY <1>1, <1>2 DEF Runs
<1> QED BY <1>1, <1>2, <1>3, RunMoves

(* What is known of a run that begins: single Ciphers are read over the      *)
(* baseline and its revision, and only a check may be answered "unchanged".  *)
Begins(r, auto, hint) ==
  /\ r \in Runs /\ r.auto = auto /\ r.serves = auto /\ ~r.stale /\ ~r.aborted
  /\ r.hinted = (hint # NoHint) /\ r.removed = {} /\ r.at \in {"delta", "check"}
  /\ hint.type # "ciphers" => r.at = "check"
  /\ r.reuse => hint.type = "check"
  /\ r.at = "delta" => /\ cache # NoCache /\ r.payload = cache.payload
                       /\ r.revision = cache.revision
  /\ r.at = "check" => r.revision = Unknown

LEMMA BegunRun ==
  ASSUME Ind, NEW auto \in BOOLEAN, NEW hint \in Hint, NEW fresh \in BOOLEAN
  PROVE  Begins(Begun(auto, hint, fresh), auto, hint)
<1> DEFINE r == Begun(auto, hint, fresh)
           reuse == MayReuse /\ cache # NoCache /\ fresh
           delta == hint.type = "ciphers" /\ reuse
           check == hint.type = "check" /\ reuse
           p == IF delta THEN cache.payload ELSE Empty
           v == IF delta THEN cache.revision ELSE Unknown
           l == IF delta THEN hint.ids ELSE {}
           at == IF delta THEN "delta" ELSE "check"
           h == hint # NoHint
           w == ~MayReuse
<1>1. r = [at |-> at, auto |-> auto, serves |-> auto, stale |-> FALSE, aborted |-> FALSE,
           hinted |-> h, reuse |-> check, writes |-> w, payload |-> p,
           revision |-> v, left |-> l, removed |-> {}]
  BY DEF Begun
<1>2. p \in Payloads /\ v \in Versions /\ l \subseteq Ciphers
  <2>1. Empty \in Payloads /\ Unknown \in Versions
    BY BoundsAssumption DEF Empty, Payloads, Versions, Unknown
  <2>2. cache # NoCache => cache.payload \in Payloads /\ cache.revision \in Versions
    BY DEF Ind, Typed, Caches
  <2>3. hint.ids \subseteq Ciphers
    BY DEF Hint
  <2> QED BY <2>1, <2>2, <2>3
<1>3. at \in {"delta", "check"} /\ h \in BOOLEAN /\ check \in BOOLEAN /\ w \in BOOLEAN
  BY DEF MayReuse
<1>4. /\ at = "delta" => delta /\ cache # NoCache /\ p = cache.payload /\ v = cache.revision
      /\ at = "check" => v = Unknown
      /\ hint.type # "ciphers" => at = "check"
      /\ check => hint.type = "check"
  OBVIOUS
<1> HIDE DEF r, at, p, v, l, h, w, check
<1>5. /\ r \in Runs /\ r.auto = auto /\ r.serves = auto /\ ~r.stale /\ ~r.aborted
      /\ r.hinted = h /\ r.removed = {} /\ r.at = at /\ r.reuse = check
      /\ r.revision = v /\ r.payload = p
  BY <1>1, <1>2, <1>3 DEF Runs
<1>6. Begins(r, auto, hint)
  BY <1>3, <1>4, <1>5 DEF h, Begins
<1> QED BY <1>6 DEF r

LEMMA JobStartsKeeps ==
  ASSUME Ind, JobStarts
  PROVE  Ind'
<1> DEFINE hint == IF job.hint = NoHint THEN Check ELSE job.hint
<1>1. /\ job.exists /\ ~job.running /\ run = NoRun /\ absent' = Absent
      /\ job' = [job EXCEPT !.hint = NoHint, !.running = TRUE]
      /\ UNCHANGED <<server, revision, vault, missed, edited, cache, mode, changes,
                     acts, faults>>
  BY DEF JobStarts, serverVars, vaultVars, countVars
<1>2. PICK fresh \in BOOLEAN : run' = Begun(TRUE, hint, fresh)
  BY DEF JobStarts
<1>3. /\ hint \in Hint /\ (job.hint = Full => hint.type = "full")
      /\ job \in Jobs
  BY Fields DEF Ind, Typed, Jobs, Full, NoHint
<1> HIDE DEF hint
<1>4. /\ run' \in Runs /\ run'.auto /\ run'.serves /\ ~run'.stale /\ ~run'.aborted
      /\ run'.removed = {} /\ run'.at \in {"delta", "check"}
      /\ job.hint = Full => run'.at = "check" /\ ~run'.reuse
      /\ run'.at = "delta" => /\ cache # NoCache /\ run'.payload = cache.payload
                              /\ run'.revision = cache.revision
      /\ run'.at = "check" => run'.revision = Unknown
  <2>1. Begins(run', TRUE, hint)
    BY <1>2, <1>3, BegunRun
  <2> QED BY <2>1, <1>3 DEF Begins
<1>5. job' \in Jobs /\ job'.exists /\ job'.running
  BY <1>1, <1>3, Fields DEF Jobs
<1>6. run' # NoRun
  BY <1>4, Fields
<1>7. Typed' /\ Counted'
  BY <1>1, <1>4, <1>5 DEF Ind, Typed, Counted, Absent
<1>8. Behind'
  BY <1>1, <1>4, Numbers DEF Ind, Behind, Unknown
<1>9. Serving'
  BY <1>1, <1>4, <1>5, <1>6 DEF Ind, Serving
<1>10. Seen' /\ Taken'
  BY <1>1, <1>4 DEF Seen, Absent, Taken
<1>11. Reads'
  BY <1>1, <1>4 DEF Ind, Reads
<1>12. Merged'
  BY <1>1, <1>4, <1>6 DEF Ind, Merged, Current, Debt, Shown
<1> QED BY <1>7, <1>8, <1>9, <1>10, <1>11, <1>12 DEF Ind

LEMMA JobJoinsKeeps ==
  ASSUME Ind, JobJoins
  PROVE  Ind'
<1>1. /\ job.exists /\ ~job.running /\ run # NoRun /\ run \in Runs /\ job \in Jobs
      /\ job' = [job EXCEPT !.hint = NoHint, !.running = TRUE]
      /\ run' = [run EXCEPT !.serves = TRUE]
      /\ UNCHANGED <<server, revision, vault, missed, edited, cache, mode, absent, changes,
                     acts, faults>>
  BY DEF JobJoins, serverVars, vaultVars, countVars, Ind, Typed
<1>2. job' \in Jobs /\ job'.exists /\ job'.running
  BY <1>1, Fields DEF Jobs
<1>3. /\ run' \in Runs /\ run'.serves
      /\ run'.removed = run.removed /\ run'.payload = run.payload
      /\ run'.at = run.at /\ run'.revision = run.revision /\ run'.stale = run.stale
      /\ run'.aborted = run.aborted /\ run'.auto = run.auto
      /\ run'.reuse = run.reuse /\ run'.hinted = run.hinted
  BY <1>1 DEF Runs
<1>4. run' # NoRun
  BY <1>3, Fields
<1>5. Typed' /\ Counted'
  BY <1>1, <1>2, <1>3 DEF Ind, Typed, Counted
<1>6. Behind' /\ Serving'
  BY <1>1, <1>2, <1>3 DEF Ind, Behind, Serving
<1>7. Seen' /\ Reads'
  BY <1>1, <1>3 DEF Ind, Seen, Absent, Reads
<1>8. Taken'
  BY <1>1, <1>3 DEF Ind, Taken
<1>9. Merged'
  <2>1. CASE run.stale
    BY <2>1, <1>1 DEF Ind, Serving, Merged, Current
  <2>2. CASE ~run.stale
    (* Only a run started by hand can be joined, and it reads everything. *)
    <3>1. ~run.auto /\ ~run.reuse /\ run.revision = Unknown
      BY <2>2, <1>1 DEF Ind, Serving
    <3>2. run.at # "delta"
      BY <2>2, <1>1, <3>1 DEF Ind, Serving
    <3> QED BY <3>1, <3>2, <2>2, <1>1, <1>3, <1>4 DEF Ind, Merged, Current, Debt, Shown, Runs
  <2> QED BY <2>1, <2>2 DEF Runs
<1> QED BY <1>5, <1>6, <1>7, <1>8, <1>9 DEF Ind

LEMMA ManualStartsKeeps ==
  ASSUME Ind, ManualStarts
  PROVE  Ind'
<1>1. /\ acts' = acts + 1 /\ acts < MaxActs /\ mode # "locked" /\ run = NoRun
      /\ run' = Begun(FALSE, NoHint, FALSE) /\ absent' = Absent
      /\ UNCHANGED <<server, revision, vault, missed, edited, cache, job, mode, changes,
                     faults>>
  BY DEF ManualStarts, Act, serverVars, vaultVars
<1>2. /\ run' \in Runs /\ ~run'.auto /\ ~run'.serves /\ ~run'.stale /\ ~run'.aborted
      /\ ~run'.hinted /\ ~run'.reuse
      /\ run'.removed = {} /\ run'.at = "check" /\ run'.revision = Unknown
  <2>1. NoHint.type = "none"
    BY DEF NoHint
  <2>2. Begins(run', FALSE, NoHint)
    BY <1>1, Fields, BegunRun
  <2>3. run' \in Runs /\ run'.auto = FALSE /\ run'.serves = FALSE /\ run'.hinted = FALSE
    BY <2>2 DEF Begins
  <2> QED BY <2>1, <2>2, <2>3 DEF Begins
<1>3. run' # NoRun
  BY <1>2, Fields
<1>4. acts' \in 0..MaxActs /\ Counted'
  BY <1>1, BoundsAssumption, InVersions DEF Ind, Typed, Counted
<1>5. Typed'
  BY <1>1, <1>2, <1>4 DEF Ind, Typed, Absent
<1>6. Behind'
  <2>1. revision \in Nat /\ Behind
    BY Numbers DEF Ind
  <2>2. run'.revision = 0 /\ cache' = cache /\ revision' = revision
    BY <1>1, <1>2 DEF Unknown
  <2> QED BY <2>1, <2>2 DEF Behind
<1>7. Serving' /\ Seen' /\ Taken' /\ Reads'
  BY <1>1, <1>2, <1>3 DEF Ind, Serving, Seen, Absent, Taken, Reads
<1>8. Merged'
  BY <1>1, <1>2, <1>3 DEF Ind, Merged, Current, Debt, Shown
<1> QED BY <1>4, <1>5, <1>6, <1>7, <1>8 DEF Ind

LEMMA CommitKeeps ==
  ASSUME Ind, Commit
  PROVE  Ind'
<1> USE Fields
<1> DEFINE taken == [known |-> TRUE, payload |-> run.payload, revision |-> run.revision]
<1>1. /\ run.at = "got" /\ run # NoRun /\ run \in Runs
      /\ run' = [run EXCEPT !.at = "apply"]
      /\ cache' = IF ~run.stale /\ ~run.aborted THEN taken ELSE cache
      /\ UNCHANGED <<server, revision, vault, missed, edited, job, mode, absent, changes,
                     acts, faults>>
  BY IsRun DEF Commit, MayCommit, RevisionRead, serverVars, vaultVars, countVars
<1>2. /\ run' \in Runs /\ run'.at = "apply" /\ run'.serves = run.serves
      /\ run'.removed = run.removed /\ run'.payload = run.payload
      /\ run'.revision = run.revision /\ run'.stale = run.stale
      /\ run'.aborted = run.aborted /\ run'.auto = run.auto
      /\ run'.reuse = run.reuse /\ run'.hinted = run.hinted
  BY <1>1 DEF Runs
<1>3. run' # NoRun
  BY <1>2
<1>4. taken \in Caches /\ taken.payload = run.payload /\ taken.revision = run.revision
  BY <1>1 DEF Caches, Runs
<1>5. taken # NoCache
  BY <1>4
<1>6. (~run.stale => cache' = taken) /\ (run.stale => cache' = cache)
  BY <1>1 DEF Ind, Serving
<1> HIDE DEF taken
<1>7. Typed' /\ Counted'
  BY <1>1, <1>2, <1>4 DEF Ind, Typed, Counted
<1>8. Behind'
  BY <1>1, <1>2, <1>4, <1>6 DEF Ind, Behind
<1>9. Serving'
  BY <1>1, <1>2, <1>6 DEF Ind, Serving
<1>10. Seen'
  BY <1>1, <1>2 DEF Ind, Seen, Absent
<1>11. Reads'
  BY <1>1, <1>2, <1>4, <1>6 DEF Ind, Reads
<1>12. Taken'
  BY <1>2, <1>6 DEF Taken, taken
<1>13. Merged'
  <2>1. CASE run.stale
    BY <2>1, <1>1, <1>6 DEF Ind, Serving, Merged, Current
  <2>2. CASE ~run.stale /\ run.auto
    BY <2>2, <1>1, <1>2, <1>3 DEF Ind, Serving, Merged, Debt
  <2>3. CASE ~run.stale /\ ~run.auto
    <3>1. cache'.revision = Unknown
      BY <2>3, <1>1, <1>4, <1>6 DEF Ind, Serving
    <3>2. cache'.revision # revision'
      BY <3>1, <1>1 DEF Ind, Counted, Unknown
    <3> QED BY <3>2 DEF Merged, Current
  <2> QED BY <2>1, <2>2, <2>3
<1> QED BY <1>7, <1>8, <1>9, <1>10, <1>11, <1>12, <1>13 DEF Ind

(* A run that ends answers its job, which keeps its hint or asks for         *)
(* everything.                                                               *)
LEMMA RunEnds ==
  ASSUME Ind, run # NoRun, run' = NoRun, absent' = {},
         NEW h \in {job.hint, Full}, job' = JobAfter(h),
         UNCHANGED <<server, revision, edited, cache, mode, changes, acts>>,
         faults' \in 0..MaxFaults, vault' \in Payloads, missed' \subseteq Ciphers,
         \/ Current => \A c \in Ciphers \ edited : Shown(c)'
         \/ ~Current
         \/ /\ UNCHANGED <<vault, missed>>
            /\ h = Full \/ \A c \in Ciphers \ edited : Shown(c)
  PROVE  Ind'
<1> USE Fields
<1>1. job \in Jobs /\ h \in Hint
  BY DEF Ind, Typed, Jobs
<1>2. /\ job' \in Jobs /\ job'.exists = job.exists
      /\ run.serves => ~job'.running /\ job'.hint = h
      /\ ~run.serves => job' = job
  BY <1>1 DEF JobAfter, Jobs
<1>3. Typed' /\ Counted'
  BY <1>2 DEF Ind, Typed, Counted
<1>4. Behind' /\ Serving' /\ Seen' /\ Reads' /\ Taken'
  BY <1>2 DEF Ind, Behind, Serving, Seen, Reads, Taken
<1>5. Merged'
  <2>1. CASE Current => \A c \in Ciphers \ edited : Shown(c)'
    BY <2>1 DEF Merged, Current
  <2>2. CASE ~Current
    BY <2>2 DEF Merged, Current
  <2>3. CASE UNCHANGED <<vault, missed>> /\ \A c \in Ciphers \ edited : Shown(c)
    BY <2>3 DEF Merged, Shown
  <2>4. CASE UNCHANGED <<vault, missed>> /\ h = Full
    <3>1. CASE run.serves
      BY <3>1, <2>4, <1>2 DEF Ind, Serving, Merged, Debt
    <3>2. CASE ~run.serves
      BY <3>2, <2>4, <1>2 DEF Ind, Merged, Debt, Current, Shown
    <3> QED BY <3>1, <3>2
  <2> QED BY <2>1, <2>2, <2>3, <2>4
<1> QED BY <1>3, <1>4, <1>5 DEF Ind

LEMMA AnsweredShows ==
  ASSUME Ind, Answered
  PROVE  \A c \in Ciphers \ edited : Shown(c)
<1>1. run.at = "check" /\ run # NoRun /\ run.reuse /\ Current
  BY IsRun DEF Answered, Unchanged, Current
<1>2. ~run.stale /\ run.auto /\ job.running
  BY <1>1 DEF Ind, Serving, Current
<1>3. ~Debt
  BY <1>1, <1>2 DEF Debt
<1> QED BY <1>1, <1>3 DEF Ind, Merged

LEMMA AnsweredKeeps ==
  ASSUME Ind, Answered
  PROVE  Ind'
<1>1. /\ run # NoRun /\ run' = NoRun /\ job' = JobAfter(job.hint) /\ absent' = {}
      /\ UNCHANGED <<server, revision, vault, missed, edited, cache, mode, changes, acts,
                     faults>>
  BY IsRun DEF Answered, serverVars, vaultVars, countVars
<1>2. vault' \in Payloads /\ missed' \subseteq Ciphers /\ faults' \in 0..MaxFaults
  BY <1>1 DEF Ind, Typed
<1>3. job.hint \in {job.hint, Full}
  OBVIOUS
<1> QED BY <1>1, <1>2, <1>3, AnsweredShows, RunEnds

LEMMA FailedKeeps ==
  ASSUME Ind, RunFails \/ Aborted
  PROVE  Ind'
<1>1. /\ run # NoRun /\ run' = NoRun /\ job' = JobAfter(Full) /\ absent' = {}
      /\ UNCHANGED <<server, revision, vault, missed, edited, cache, mode, changes, acts>>
  BY DEF RunFails, Aborted, Failed, HintAfterFailure, serverVars, vaultVars, countVars
<1>2. faults' \in 0..MaxFaults
  BY BoundsAssumption DEF RunFails, Aborted, countVars, Ind, Typed
<1>3. vault' \in Payloads /\ missed' \subseteq Ciphers
  BY <1>1 DEF Ind, Typed
<1>4. Full \in {job.hint, Full}
  OBVIOUS
<1> QED BY <1>1, <1>2, <1>3, <1>4, RunEnds

LEMMA ApplyKeeps ==
  ASSUME Ind, Apply
  PROVE  Ind'
<1>1. /\ run.at = "apply" /\ run # NoRun /\ run \in Runs /\ run' = NoRun
      /\ job' = JobAfter(job.hint) /\ absent' = {}
      /\ vault' = [c \in Ciphers |-> IF Stays(c) THEN vault[c] ELSE run.payload[c]]
      /\ missed' = {c \in Ciphers : Stays(c) /\ run.payload[c] = 0}
      /\ UNCHANGED <<server, revision, edited, cache, mode, changes, acts, faults>>
  BY IsRun DEF Apply, serverVars, vaultVars, countVars
<1>2. vault' \in Payloads /\ missed' \subseteq Ciphers /\ faults' \in 0..MaxFaults
  BY <1>1 DEF Ind, Typed, Runs, Payloads
<1>3. ASSUME Current, NEW c \in Ciphers \ edited
      PROVE  Shown(c)'
  <2>1. run.payload = server
    <3>1. ~run.stale
      BY <1>1, <1>3 DEF Ind, Serving, Current
    <3>2. run.revision = revision
      BY <1>1, <1>3, <3>1 DEF Ind, Taken, Current
    <3> QED BY <1>1, <3>2 DEF Ind, Reads
  <2>2. CASE Stays(c)
    BY <1>1, <2>1, <2>2 DEF Stays, Shown
  <2>3. CASE ~Stays(c)
    BY <1>1, <2>1, <2>3 DEF Shown
  <2> QED BY <2>2, <2>3
<1>4. job.hint \in {job.hint, Full}
  OBVIOUS
<1> QED BY <1>1, <1>2, <1>3, <1>4, RunEnds

LEMMA WriteKeeps ==
  ASSUME Ind, NEW c \in Ciphers, Write(c)
  PROVE  Ind'
<1> USE Fields
<1> DEFINE p == [run.payload EXCEPT ![c] = revision + 1]
<1>1. /\ run.at = "got" /\ run # NoRun /\ run \in Runs /\ c \in edited
      /\ server' = [server EXCEPT ![c] = revision + 1] /\ revision' = revision + 1
      /\ vault' = [vault EXCEPT ![c] = revision + 1] /\ edited' = edited \ {c}
      /\ run' = [run EXCEPT !.payload = p]
      /\ UNCHANGED <<missed, cache, job, mode, absent, changes, acts, faults>>
  BY IsRun DEF Write, countVars
<1>2. Cardinality(edited') = Cardinality(edited) - 1 /\ Cardinality(edited') \in Nat
  BY <1>1, InVersions, FS_RemoveElement, FS_CardinalityType
<1>3. Counted'
  BY <1>1, <1>2, InVersions, Numbers DEF Ind, Counted, Typed
<1>4. revision + 1 \in Versions
  BY <1>1, <1>2, <1>3, BoundsAssumption, Numbers DEF Ind, Typed, Counted, Versions
<1>5. /\ server' \in Payloads /\ vault' \in Payloads /\ p \in Payloads
      /\ server'[c] = revision + 1 /\ \A d \in Ciphers : d # c => server'[d] = server[d]
  BY <1>1, <1>4 DEF Ind, Typed, Payloads, Runs
<1> HIDE DEF p
<1>6. /\ run' \in Runs /\ run'.at = "got" /\ run'.serves = run.serves
      /\ run'.removed = run.removed
      /\ run'.revision = run.revision /\ run'.stale = run.stale
      /\ run'.aborted = run.aborted /\ run'.auto = run.auto
      /\ run'.reuse = run.reuse /\ run'.hinted = run.hinted
  BY <1>1, <1>5 DEF Runs
<1>7. \A d \in Ciphers : server'[d] <= revision'
  <2>1. \A d \in Ciphers : server[d] <= revision /\ server[d] \in Nat /\ revision \in Nat
    BY Numbers, BoundsAssumption DEF Ind, Typed, Payloads, Versions
  <2>2. ASSUME NEW d \in Ciphers, d # c PROVE server'[d] <= revision'
    <3>1. server'[d] = server[d] /\ revision' = revision + 1
      BY <1>1, <1>5, <2>2
    <3> QED BY <3>1, <2>1
  <2>3. server'[c] <= revision'
    BY <1>1, <1>5, <2>1
  <2> QED BY <2>2, <2>3
<1>8. Typed'
  BY <1>1, <1>5, <1>6, <1>7, Numbers DEF Ind, Typed
<1>9. Behind'
  <2>1. revision' = revision + 1 /\ cache' = cache /\ run'.revision = run.revision
    BY <1>1, <1>6
  <2>2. Behind
    BY DEF Ind
  <2> QED BY <1>1, <2>1, <2>2, Numbers DEF Behind
<1>10. Serving' /\ Taken'
  BY <1>1, <1>6 DEF Ind, Serving, Taken
<1>11. Absent' \subseteq Absent
  BY <1>5, Numbers DEF Absent
<1>12. Seen'
  BY <1>1, <1>6, <1>11 DEF Ind, Seen
<1>13. Reads' /\ Merged'
  <2>1. Behind /\ revision' = revision + 1 /\ cache' = cache /\ run'.revision = run.revision
    BY <1>1, <1>6 DEF Ind
  <2>2. cache # NoCache => cache'.revision # revision'
    BY <2>1, Numbers DEF Behind
  <2>3. run'.revision # revision'
    BY <1>1, <2>1, Numbers DEF Behind
  <2> QED BY <2>1, <2>2, <2>3 DEF Reads, Merged, Current
<1> QED BY <1>3, <1>8, <1>9, <1>10, <1>12, <1>13 DEF Ind

LEMMA StartsKeeps ==
  ASSUME Ind, Starts
  PROVE  Ind'
<1> USE Fields
<1>1. /\ mode # "on" /\ mode' = "on"
      /\ job' = [hint |-> Check, running |-> FALSE, exists |-> TRUE]
      /\ UNCHANGED <<server, revision, vault, missed, edited, cache, run, absent, changes,
                     acts, faults>>
  BY DEF Starts, serverVars, vaultVars, countVars
<1>2. job' \in Jobs /\ job'.exists /\ ~job.exists
  BY <1>1 DEF Jobs, Ind, Serving
<1>3. run # NoRun => ~run.serves
  BY <1>2 DEF Ind, Serving
<1>4. Typed' /\ Counted'
  BY <1>1, <1>2 DEF Ind, Typed, Counted
<1>5. Behind' /\ Serving' /\ Seen' /\ Reads' /\ Taken'
  BY <1>1, <1>2, <1>3 DEF Ind, Behind, Serving, Seen, Absent, Reads, Taken
<1>6. Merged'
  BY <1>1, <1>2, <1>3 DEF Ind, Merged, Current, Debt, Shown
<1> QED BY <1>4, <1>5, <1>6 DEF Ind

LEMMA StopsKeeps ==
  ASSUME Ind, NEW to \in {"off", "locked"}, Stops(to)
  PROVE  Ind'
<1> USE Fields
<1> DEFINE a == run.aborted \/ run.auto \/ to = "locked"
<1>1. /\ acts' = acts + 1 /\ acts < MaxActs /\ mode' = to
      /\ job' = NoJob /\ cache' = NoCache
      /\ run' = IF run = NoRun THEN run
                ELSE [run EXCEPT !.stale = TRUE, !.serves = FALSE, !.aborted = a]
      /\ UNCHANGED <<server, revision, vault, missed, edited, absent, changes, faults>>
  BY DEF Stops, Act, serverVars, vaultVars
<1>2. run = NoRun => run' = NoRun
  BY <1>1
<1>3. run # NoRun => run \in Runs
  BY DEF Ind, Typed
<1>4. a \in BOOLEAN
  OBVIOUS
<1> HIDE DEF a
<1>5. run # NoRun => /\ run' \in Runs /\ run'.at = run.at /\ ~run'.serves /\ run'.stale
                     /\ run'.removed = run.removed /\ run'.payload = run.payload
                     /\ run'.revision = run.revision /\ run'.auto = run.auto
                     /\ run'.reuse = run.reuse /\ run'.hinted = run.hinted
  BY <1>1, <1>3, <1>4 DEF Runs
<1>6. acts' \in 0..MaxActs /\ Counted'
  BY <1>1, BoundsAssumption, InVersions DEF Ind, Typed, Counted
<1>7. Typed'
  BY <1>1, <1>2, <1>5, <1>6 DEF Ind, Typed
<1>8. job'.exists = FALSE
  BY <1>1 DEF NoJob
<1>9. Behind' /\ Serving'
  BY <1>1, <1>2, <1>5, <1>8 DEF Ind, Behind, Serving
<1>10. Seen' /\ Reads' /\ Taken'
  BY <1>1, <1>2, <1>5 DEF Ind, Seen, Absent, Reads, Taken
<1>11. Merged'
  BY <1>1 DEF Merged, Current
<1> QED BY <1>6, <1>7, <1>9, <1>10, <1>11 DEF Ind

LEMMA StepKeeps == Ind /\ [Next]_vars => Ind'
<1> SUFFICES ASSUME Ind, [Next]_vars PROVE Ind'
  OBVIOUS
<1>1. CASE UNCHANGED vars
  BY <1>1 DEF vars, serverVars, vaultVars, countVars, Ind, Typed, Counted, Behind, Serving,
              Seen, Absent, Reads, Taken, Merged, Current, Debt, Shown
<1>2. ASSUME NEW c \in Ciphers, ServerChanges(c) \/ UserEdits(c) \/ Write(c)
      PROVE  Ind'
  BY <1>2, ServerChangesKeeps, UserEditsKeeps, WriteKeeps
<1>3. CASE ChannelSpeaks \/ JobStarts \/ JobJoins \/ ManualStarts
  BY <1>3, ChannelSpeaksKeeps, JobStartsKeeps, JobJoinsKeeps, ManualStartsKeeps
<1>4. CASE RunStep
  BY <1>4, ReadCipherKeeps, DeltaReadKeeps, AnsweredKeeps, RenewedKeeps, CheckRevisionKeeps,
     ReadAllKeeps, CommitKeeps, ApplyKeeps, FailedKeeps DEF RunStep
<1>5. CASE RunFails
  BY <1>5, FailedKeeps
<1>6. CASE Starts \/ Stops("off") \/ Stops("locked")
  BY <1>6, StartsKeeps, StopsKeeps
<1> QED BY <1>1, <1>2, <1>3, <1>4, <1>5, <1>6 DEF Next

LEMMA Always == Spec => []Ind
BY Initially, StepKeeps, PTL DEF Spec

(* Types and bounds: no Cipher is ahead of its account, no baseline ahead of *)
(* the server, and the revisions stay within the changes that were made.     *)
THEOREM TypeCorrect == Spec => []TypeOK
<1>1. Ind => TypeOK
  <2> SUFFICES ASSUME Ind PROVE TypeOK
    OBVIOUS
  <2>1. revision \in Versions
    BY InVersions
  <2>2. cache # NoCache => cache.payload \in Payloads /\ cache.revision <= revision
    BY DEF Ind, Typed, Behind, Caches
  <2>3. job.hint \in Hint /\ (job.exists => mode = "on")
    BY DEF Ind, Typed, Serving, Jobs
  <2>4. run # NoRun => /\ run.at \in {"delta", "check", "sync", "got", "apply"}
                       /\ run.payload \in Payloads /\ run.removed \subseteq Ciphers
    BY DEF Ind, Typed, Runs
  <2> QED BY <2>1, <2>2, <2>3, <2>4 DEF Ind, Typed, TypeOK
<1> QED BY <1>1, Always, PTL

(* While the vault is locked no decrypted baseline is kept, whatever runs    *)
(* were under way when it was locked (stopAutomaticSync, lock).              *)
THEOREM LockKeepsNothing == Spec => []NothingKept
<1>1. Ind => NothingKept
  BY DEF Ind, Serving, NothingKept
<1> QED BY <1>1, Always, PTL

(* "Unchanged" is only answered when the vault shows the account: the        *)
(* baseline is the account, and what it says was merged, or is still to be   *)
(* read again (read, run).                                                   *)
THEOREM UnchangedMeansShown == Spec => UnchangedIsTrue
<1>1. Ind /\ [Next]_vars => [Answered => \A c \in Ciphers \ edited : Shown(c)]_vars
  BY AnsweredShows
<1> QED BY <1>1, Always, PTL DEF Spec, UnchangedIsTrue

(* A Cipher only leaves the vault when the server lacked it at some time of  *)
(* the run that removed it: late notifications and partial readings cannot.  *)
THEOREM RemovedWasAbsent == Spec => NoFalseRemoval
<1> DEFINE A == \A c \in Ciphers : vault[c] # 0 /\ vault'[c] = 0 => c \in absent
<1>1. Ind /\ [Next]_vars => [A]_vars
  <2> SUFFICES ASSUME Ind, [Next]_vars, NEW c \in Ciphers, vault[c] # 0, vault'[c] = 0
               PROVE  c \in absent
    OBVIOUS
  <2>1. vault' # vault
    OBVIOUS
  <2>2. CASE Apply
    <3>1. ~Stays(c) /\ run.payload[c] = 0
      BY <2>2 DEF Apply
    <3>2. c \in run.removed
      BY <3>1 DEF Stays, Adopts
    <3>3. run # NoRun
      BY <2>2, IsRun DEF Apply
    <3> QED BY <3>2, <3>3 DEF Ind, Seen
  <2>3. ASSUME NEW d \in Ciphers, Write(d)
        PROVE  FALSE
    <3>1. vault' = [vault EXCEPT ![d] = revision + 1] /\ vault \in Payloads
      BY <2>3 DEF Write, Ind, Typed
    <3>2. vault'[c] = vault[c] \/ vault'[c] = revision + 1
      BY <3>1 DEF Payloads
    <3> QED BY <3>2, Numbers
  <2>4. Apply \/ \E d \in Ciphers : Write(d)
    BY <2>1 DEF Next, RunStep, vars, serverVars, vaultVars, countVars, ServerChanges, UserEdits,
       ChannelSpeaks, JobStarts, JobJoins, ManualStarts, ReadCipher, DeltaRead, Answered,
       Renewed, CheckRevision, ReadAll, Commit, Aborted, RunFails, Starts, Stops
  <2> QED BY <2>2, <2>3, <2>4
<1> QED BY <1>1, Always, PTL DEF Spec, NoFalseRemoval
=============================================================================
