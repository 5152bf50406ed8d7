------------------------- MODULE PasskeyCounterProofs -------------------------
(* What PasskeyCounter promises of the counts that pages are given, for any  *)
(* number of installations and logins and for every kind of source.          *)
EXTENDS PasskeyCounter, TLAPS

Signing(r) == login[r].at = "signs"
Staged(r)  == login[r].at = "staged"
Has(d)     == sync[d] # NoSync
Places     == {"recover", "recovered", "read", "got", "put", "done"}

\* Which synchronizations a kind of source has.
Placed ==
  /\ \A d \in Devices : Has(d) =>
       /\ kind # "local"
       /\ sync[d].at = "got" => kind = "bitwarden"
       /\ sync[d].at \in {"recover", "recovered"} => kind = "keepass"
  /\ late # {} => kind = "bitwarden"

\* A login that is prepared has the turn of its source, and the run is its own.
Turns ==
  /\ \A r \in Requests : login[r].at \in {"begun", "staged"} =>
       Has(At[r]) /\ sync[At[r]].by = r
  /\ \A r \in Requests : login[r].at = "fresh" => lock[At[r]] = r /\ kind # "local"
  /\ \A d \in Devices : Has(d) /\ sync[d].by # Poll =>
       At[sync[d].by] = d /\ login[sync[d].by].at \in {"begun", "staged"}

\* The mark covers what was signed, and a count that is reserved lies above it.
Marked ==
  \A r \in Requests : LET d == At[r]  c == login[r].count IN
    /\ Signing(r) => c <= vault[d].mark
    /\ Staged(r) => c > 0 /\ \A q \in Requests \ {r} : At[q] = d /\ Signing(q) => login[q].count < c
    /\ Signing(r) /\ c > 0 =>
         \A q \in Requests \ {r} : At[q] = d /\ Signing(q) => login[q].count # c
Grown ==
  \A d \in Devices : \A i \in 1..Len(signed[d]) :
    /\ signed[d][i] <= vault[d].mark
    /\ \A r \in Requests : At[r] = d =>
         /\ Staged(r) => signed[d][i] < login[r].count
         /\ Signing(r) /\ login[r].count > 0 => signed[d][i] # login[r].count

\* Whatever is known of the source was once in it.
KnownAt(d) ==
  /\ ~vault[d].queued \/ vault[d].count = 0 => vault[d].count \in held
  /\ vault[d].clash # NoClash => vault[d].clash.count \in held
  /\ file[d].base \in held
  /\ Has(d) /\ kind = "bitwarden" /\ sync[d].at \in {"got", "put", "done"} =>
       sync[d].got.count \in held
Known ==
  kind # "local" =>
    /\ source.count \in held /\ spent \subseteq held
    /\ \A d \in Devices : KnownAt(d)
    /\ \A r \in Requests : Signing(r) => login[r].count \in held

\* KeePass: a reservation is the next count after the baseline, in the vault and
\* in the copy; a copy that is saved has its receipt, one whose ETag is current
\* has the count of the file as its base.
CopyAt(d) ==
  LET p == vault[d]  f == file[d] IN
    /\ p.base = NoBase \/ p.count = IF p.queued THEN p.base + 1 ELSE p.base
    /\ f.work = IF f.dirty THEN f.base + 1 ELSE f.base
    /\ f.dirty => receipt[d] = f.work
    /\ f.etag <= source.rev /\ (f.etag = source.rev => f.base = source.count)
    /\ Has(d) /\ sync[d].at \in {"read", "recovered", "done"} => ~f.dirty
Copies == kind = "keepass" => \A d \in Devices : CopyAt(d)

\* KeePass: a login that was refreshed finds vault and copy at one count; the
\* count that it stages is the one its run saves.
PreparedAt(r) ==
  LET d == At[r]  p == vault[d]  f == file[d] IN
    /\ login[r].at = "fresh" =>
         /\ ~p.queued /\ p.clash = NoClash /\ receipt[d] = 0 /\ ~f.dirty
         /\ p.count = p.base /\ p.base = f.work
    /\ Staged(r) => sync[d].at \in {"read", "put", "done"}
    /\ Staged(r) /\ sync[d].at = "read" =>
         p.queued /\ p.count = login[r].count /\ p.count = p.base + 1 /\ p.base = f.work
    /\ Staged(r) /\ sync[d].at = "put" => f.dirty /\ f.work = login[r].count
Prepared == kind = "keepass" => \A r \in Requests : PreparedAt(r)

\* KeePass: as long as nobody sets the counter back, the file has the largest count.
Rising == kind = "keepass" /\ ~regressed => \A c \in held : c <= source.count

\* The counts that an installation has signed with, or is about to.
Reserved(r) == Staged(r) /\ sync[At[r]].at = "done" /\ ~sync[At[r]].rebased
Claims(d, c) ==
  \/ c \in DeliveredBy(d)
  \/ \E r \in Requests : At[r] = d /\ (Signing(r) \/ Reserved(r)) /\ login[r].count = c
Claimed ==
  kind = "keepass" /\ ~regressed =>
    \A d \in Devices : \A c \in Counts \ {0} : Claims(d, c) =>
      /\ c \in held /\ c \notin spent
      /\ \A e \in Devices \ {d} : ~Claims(e, c)

Ind ==
  /\ TypeOK /\ Placed /\ Turns /\ Marked /\ Grown /\ Known /\ Copies /\ Prepared
  /\ Rising /\ Claimed /\ DeliveredIsStored
-----------------------------------------------------------------------------
(* What the types say of one installation and of one login.                  *)
LEMMA Fields ==
  ASSUME TypeOK, NEW d \in Devices
  PROVE  /\ vault[d] \in Passkey /\ vault[d].count \in Counts /\ vault[d].mark \in Counts
         /\ vault[d].base \in Nat /\ vault[d].queued \in BOOLEAN
         /\ vault[d].clash \in {NoClash} \cup Seen
         /\ (~vault[d].queued => vault[d].mark >= vault[d].count)
         /\ receipt[d] \in Counts
         /\ file[d] \in Copy /\ file[d].base \in Counts /\ file[d].work \in Counts
         /\ file[d].etag \in Revs /\ file[d].dirty \in BOOLEAN
         /\ signed[d] \in Seq(Counts)
  <1>1. vault[d] \in Passkey /\ file[d] \in Copy /\ receipt[d] \in Counts /\ signed[d] \in Seq(Counts)
    BY DEF TypeOK
  <1>2. ~vault[d].queued => vault[d].mark >= vault[d].count
    BY DEF TypeOK
  <1>. QED BY <1>1, <1>2 DEF Passkey, Copy

LEMMA RunFields ==
  ASSUME TypeOK, NEW d \in Devices, Has(d)
  PROVE  /\ sync[d] \in Runs /\ sync[d].at \in Places /\ sync[d].by \in Requests \cup {Poll}
         /\ sync[d].send \in BOOLEAN /\ sync[d].rebased \in BOOLEAN /\ sync[d].reread \in BOOLEAN
         /\ sync[d].got \in Seen /\ sync[d].got.count \in Counts /\ sync[d].got.rev \in Revs
         /\ sync[d].put \in Seen /\ sync[d].put.count \in Counts /\ sync[d].put.rev \in Revs
         /\ sync[d].by = lock[d]
  <1>1. sync[d] \in Runs /\ sync[d].by = lock[d]
    BY DEF TypeOK, Has
  <1>. QED BY <1>1 DEF Runs, Seen, Places

LEMMA LoginFields ==
  ASSUME TypeOK, NEW r \in Requests
  PROVE  /\ At[r] \in Devices
         /\ login[r].at \in {"idle", "begun", "fresh", "staged", "signs", "ended"}
         /\ login[r] # Idle => /\ login[r] \in Logins /\ login[r].count \in Counts
                               /\ login[r].tries \in Nat
         /\ login[r].at # "idle" => login[r] # Idle
  <1>1. login[r] \in {Idle} \cup Logins /\ At[r] \in Devices
    BY DevicesAssumption DEF TypeOK
  <1>. QED BY <1>1 DEF Logins, Idle

LEMMA CountsAreNumbers == \A c \in Counts : c \in Nat /\ c <= MaxCount /\ c # NoBase
  BY BoundsAssumption DEF Counts, NoBase

LEMMA FixedFields == Over \in Logins /\ Over.at = "ended" /\ Nothing \in Seen /\ 0 \in Counts
  BY BoundsAssumption DEF Over, Logins, Nothing, Seen, Counts, Revs

-----------------------------------------------------------------------------
(* A step keeps the marks, and ends or confirms one login at most.           *)
Follows(r) ==
  \/ login'[r] = login[r]
  \/ login'[r].at \notin {"signs", "staged"}
  \/ /\ Staged(r) /\ login'[r].at = "signs" /\ login'[r].count = login[r].count
     /\ login[r].count <= vault'[At[r]].mark

LEMMA NumbersKept ==
  ASSUME TypeOK, Turns, Marked, Grown, signed' = signed,
         \A d \in Devices : vault'[d].mark \in Nat /\ vault'[d].mark >= vault[d].mark,
         \A r \in Requests : Follows(r),
         \A r, q \in Requests : r = q \/ login'[r] = login[r] \/ login'[q] = login[q]
  PROVE  Marked' /\ Grown'
  <1>1. \A r \in Requests : At[r] \in Devices /\ (login[r].at # "idle" => login[r].count \in Nat)
    BY LoginFields, CountsAreNumbers
  <1>2. \A d \in Devices : /\ vault[d].mark \in Nat
                           /\ \A i \in 1..Len(signed[d]) : signed[d][i] \in Nat
    BY Fields, CountsAreNumbers
  <1>3. Marked'
    <2>. SUFFICES ASSUME NEW r \in Requests
                  PROVE  LET d == At[r]  c == login'[r].count IN
                    /\ login'[r].at = "signs" => c <= vault'[d].mark
                    /\ login'[r].at = "staged" =>
                         c > 0 /\ \A q \in Requests \ {r} :
                           At[q] = d /\ login'[q].at = "signs" => login'[q].count < c
                    /\ login'[r].at = "signs" /\ c > 0 => \A q \in Requests \ {r} :
                         At[q] = d /\ login'[q].at = "signs" => login'[q].count # c
      BY DEF Marked, Signing, Staged
    <2>1. login'[r].at = "signs" => login'[r].count <= vault'[At[r]].mark
      BY <1>1, <1>2 DEF Marked, Follows, Signing, Staged
    <2>2. ASSUME login'[r].at = "staged"
          PROVE  login'[r].count > 0 /\ \A q \in Requests \ {r} :
                   At[q] = At[r] /\ login'[q].at = "signs" => login'[q].count < login'[r].count
      <3>1. Staged(r) /\ login'[r] = login[r]
        BY <2>2 DEF Follows, Staged
      <3>. SUFFICES ASSUME NEW q \in Requests \ {r}, At[q] = At[r], login'[q].at = "signs"
                    PROVE  login'[q].count < login'[r].count
        BY <3>1 DEF Marked
      <3>2. CASE login'[q] = login[q]
        BY <3>1, <3>2 DEF Marked, Signing
      <3>3. CASE Staged(q) /\ login'[q].count = login[q].count
        BY <3>1, <3>3 DEF Turns, Staged  \* one turn, one login
      <3>. QED BY <3>2, <3>3 DEF Follows
    <2>3. ASSUME login'[r].at = "signs", login'[r].count > 0, NEW q \in Requests \ {r},
                 At[q] = At[r], login'[q].at = "signs"
          PROVE  login'[q].count # login'[r].count
      <3>1. CASE login'[r] = login[r] /\ login'[q] = login[q]
        BY <2>3, <3>1 DEF Marked, Signing
      <3>2. CASE login'[r] # login[r]
        BY <2>3, <3>2, <1>1 DEF Marked, Signing, Staged, Follows
      <3>3. CASE login'[q] # login[q]
        BY <2>3, <3>3, <1>1 DEF Marked, Signing, Staged, Follows
      <3>. QED BY <3>1, <3>2, <3>3
    <2>. QED BY <2>1, <2>2, <2>3
  <1>4. Grown'
    <2>. SUFFICES ASSUME NEW d \in Devices, NEW i \in 1..Len(signed[d])
                  PROVE  /\ signed[d][i] <= vault'[d].mark
                         /\ \A r \in Requests : At[r] = d =>
                              /\ login'[r].at = "staged" => signed[d][i] < login'[r].count
                              /\ login'[r].at = "signs" /\ login'[r].count > 0 =>
                                   signed[d][i] # login'[r].count
      BY DEF Grown, Signing, Staged
    <2>1. signed[d][i] <= vault'[d].mark
      BY <1>2 DEF Grown
    <2>2. ASSUME NEW r \in Requests, At[r] = d
          PROVE  /\ login'[r].at = "staged" => signed[d][i] < login'[r].count
                 /\ login'[r].at = "signs" /\ login'[r].count > 0 => signed[d][i] # login'[r].count
      BY <2>2, <1>1, <1>2 DEF Grown, Signing, Staged, Follows
    <2>. QED BY <2>1, <2>2
  <1>. QED BY <1>3, <1>4

-----------------------------------------------------------------------------
(* What a step of this model's clients leaves in the store.                  *)
StoreMoves ==
  /\ source' \in Seen /\ held' \subseteq Counts
  /\ kind # "local" => source'.count \in held' /\ spent' \subseteq held'
  /\ held \subseteq held' /\ spent' = spent /\ regressed' = regressed
  /\ (source' = source \/ source'.rev = source.rev + 1)
  /\ Rising'

LEMMA StoreStays ==
  ASSUME Ind, UNCHANGED <<kind, storeVars>>
  PROVE  StoreMoves
  BY DEF Ind, TypeOK, Known, Rising, StoreMoves, storeVars

LEMMA StoreTakes ==
  ASSUME Ind, kind' = kind, NEW count \in Counts, Stored(count),
         kind = "keepass" => source.count <= count
  PROVE  StoreMoves
  <1>1. source \in Seen /\ source.count \in Counts /\ source.rev \in Nat \ {0} /\ held \subseteq Counts
    BY DEF Ind, TypeOK, Seen, Revs
  <1>2. source' \in Seen /\ source'.count = count /\ source'.rev = source.rev + 1
    BY <1>1 DEF Stored, Seen, Revs
  <1>3. held' = held \cup {count} /\ spent' = spent /\ regressed' = regressed
    BY DEF Stored
  <1>4. Rising'
    <2>. SUFFICES ASSUME kind = "keepass", ~regressed, NEW c \in held'
                  PROVE  c <= count
      BY <1>2, <1>3 DEF Rising
    <2>1. c \in held => c <= source.count
      BY DEF Ind, Rising
    <2>. QED BY <2>1, <1>1, <1>3, CountsAreNumbers
  <1>. QED BY <1>1, <1>2, <1>3, <1>4 DEF StoreMoves, Ind, Known

(* A step of one installation disturbs what the others know as little as     *)
(* what it leaves alone itself.                                              *)
Elsewhere(d) ==
  /\ \A e \in Devices \ {d} :
       /\ vault'[e] = vault[e] /\ file'[e] = file[e] /\ sync'[e] = sync[e]
       /\ receipt'[e] = receipt[e]
  /\ \A r \in Requests : At[r] # d => login'[r] = login[r]

LEMMA StepAt ==
  ASSUME Ind, NEW d \in Devices, Elsewhere(d), StoreMoves, kind' = kind, signed' = signed,
         kind # "local" => KnownAt(d)',
         kind # "local" => \A r \in Requests : At[r] = d /\ login'[r].at = "signs" =>
           login'[r].count \in held',
         kind = "keepass" => CopyAt(d)',
         kind = "keepass" => \A r \in Requests : At[r] = d => PreparedAt(r)'
  PROVE  Known' /\ Copies' /\ Prepared' /\ Rising' /\ DeliveredIsStored'
  <1>1. ASSUME kind # "local", NEW e \in Devices
        PROVE  KnownAt(e)'
    BY <1>1 DEF Elsewhere, StoreMoves, Ind, Known, KnownAt, Has
  <1>2. ASSUME kind # "local", NEW r \in Requests, login'[r].at = "signs"
        PROVE  login'[r].count \in held'
    BY <1>2 DEF Elsewhere, StoreMoves, Ind, Known, Signing
  <1>3. Known'
    BY <1>1, <1>2 DEF Known, StoreMoves, Signing
  <1>4. Copies'
    <2>. SUFFICES ASSUME kind = "keepass", NEW e \in Devices, e # d
                  PROVE  CopyAt(e)'
      BY DEF Copies
    <2>1. CopyAt(e)
      BY DEF Ind, Copies
    <2>2. file[e].etag \in Nat /\ source.rev \in Nat
      BY Fields DEF Ind, TypeOK, Revs, Seen
    <2>3. file[e].etag <= source'.rev /\ (file[e].etag = source'.rev => file[e].base = source'.count)
      BY <2>1, <2>2 DEF CopyAt, StoreMoves
    <2>. QED BY <2>1, <2>3 DEF CopyAt, Elsewhere, Has
  <1>5. Prepared'
    <2>. SUFFICES ASSUME kind = "keepass", NEW r \in Requests, At[r] # d
                  PROVE  PreparedAt(r)'
      BY DEF Prepared
    <2>1. PreparedAt(r) /\ At[r] \in Devices \ {d}
      BY DevicesAssumption DEF Ind, Prepared
    <2>. QED BY <2>1 DEF PreparedAt, Elsewhere, Staged
  <1>6. DeliveredIsStored'
    BY DEF Ind, DeliveredIsStored, DeliveredBy, StoreMoves
  <1>. QED BY <1>3, <1>4, <1>5, <1>6 DEF StoreMoves

(* A step that makes nobody sign with a new count.                           *)
Spoken(r) == Signing(r) \/ Reserved(r)
LEMMA ClaimsKept ==
  ASSUME Ind, StoreMoves, kind' = kind, signed' = signed,
         kind = "keepass" => \A r \in Requests : Spoken(r)' /\ login'[r].count # 0 =>
           Spoken(r) /\ login'[r].count = login[r].count
  PROVE  Claimed'
  <1>. SUFFICES ASSUME kind = "keepass", ~regressed, NEW d \in Devices, NEW c \in Counts \ {0},
                       Claims(d, c)'
                PROVE  /\ c \in held' /\ c \notin spent'
                       /\ \A e \in Devices \ {d} : ~Claims(e, c)'
    BY DEF Claimed, StoreMoves
  <1>1. ASSUME NEW e \in Devices, Claims(e, c)'
        PROVE  Claims(e, c)
    BY <1>1 DEF Claims, Spoken, DeliveredBy
  <1>2. Claims(d, c) /\ c \in held /\ c \notin spent /\ \A e \in Devices \ {d} : ~Claims(e, c)
    BY <1>1 DEF Ind, Claimed
  <1>. QED BY <1>1, <1>2 DEF StoreMoves

-----------------------------------------------------------------------------
(* A run goes on, for the same login or poll.                                *)
SyncTyped ==
  /\ sync \in [Devices -> {NoSync} \cup Runs]
  /\ lock \in [Devices -> {NoOne, Poll} \cup Requests]
  /\ \A d \in Devices : sync[d] # NoSync => sync[d].by = lock[d]
  /\ login \in [Requests -> {Idle} \cup Logins]

MarksGrow == \A d \in Devices : vault'[d].mark \in Nat /\ vault'[d].mark >= vault[d].mark

LEMMA MarksStay ==
  ASSUME Ind, vault' = vault
  PROVE  MarksGrow
  BY Fields, CountsAreNumbers DEF MarksGrow, Ind

LEMMA RunIsReal == \A s \in Runs : s # NoSync /\ s.at \in Places
  BY DEF Runs, NoSync, Places

LEMMA GoesOn ==
  ASSUME Ind, NEW d \in Devices, NEW s \in Runs, Has(d), s.by = sync[d].by,
         sync' = [sync EXCEPT ![d] = s], UNCHANGED <<kind, login, lock, late, signed>>,
         s.at = "got" => kind = "bitwarden",
         s.at \in {"recover", "recovered"} => kind = "keepass",
         MarksGrow
  PROVE  SyncTyped' /\ Placed' /\ Turns' /\ Marked' /\ Grown' /\ sync'[d] = s
  <1>1. sync'[d] = s /\ \A e \in Devices \ {d} : sync'[e] = sync[e]
    BY DEF Ind, TypeOK
  <1>2. \A e \in Devices : (Has(e)' <=> Has(e)) /\ sync'[e].by = sync[e].by
    BY <1>1, RunIsReal DEF Has
  <1>3. SyncTyped'
    BY <1>1, <1>2 DEF SyncTyped, Ind, TypeOK, Has
  <1>4. Placed'
    BY <1>1, <1>2 DEF Ind, Placed
  <1>5. Turns'
    BY <1>2, DevicesAssumption DEF Ind, Turns
  <1>6. Marked' /\ Grown'
    BY NumbersKept DEF Ind, Follows, MarksGrow
  <1>. QED BY <1>1, <1>3, <1>4, <1>5, <1>6

(* A run ends; w is what becomes of its login.                               *)
LEMMA Ends ==
  ASSUME Ind, NEW d \in Devices, NEW w \in Logins, Has(d), MarksGrow,
         sync' = [sync EXCEPT ![d] = NoSync],
         login' = IF sync[d].by = Poll THEN login ELSE [login EXCEPT ![sync[d].by] = w],
         w.at \in {"fresh", "signs", "ended"},
         sync[d].by # Poll /\ w.at = "signs" =>
           Staged(sync[d].by) /\ w.count = login[sync[d].by].count /\ w.count <= vault'[d].mark,
         lock' = lock \/ lock' = [lock EXCEPT ![d] = NoOne],
         sync[d].by # Poll /\ w.at = "fresh" => lock' = lock,
         UNCHANGED <<kind, signed>>,
         late' # {} => kind = "bitwarden"
  PROVE  /\ SyncTyped' /\ Placed' /\ Turns' /\ Marked' /\ Grown' /\ ~Has(d)'
         /\ \A r \in Requests : At[r] # d => login'[r] = login[r]
         /\ \A r \in Requests : login'[r] # login[r] => r = sync[d].by /\ login'[r] = w
         /\ \A r \in Requests : At[r] = d => ~Staged(r)'
  <1>. DEFINE b == sync[d].by
  <1>1. sync'[d] = NoSync /\ \A e \in Devices \ {d} : sync'[e] = sync[e]
    BY DEF Ind, TypeOK
  <1>2. b \in Requests \cup {Poll} /\ b = lock[d] /\ (b # Poll => At[b] = d)
    BY RunFields DEF Ind, Turns
  <1>3. \A r \in Requests : login'[r] = IF r = b /\ b # Poll THEN w ELSE login[r]
    BY <1>2 DEF Ind, TypeOK
  <1>4. lock \in [Devices -> {NoOne, Poll} \cup Requests] /\ lock' \in [Devices -> {NoOne, Poll} \cup Requests]
    BY DEF Ind, TypeOK
  <1>5. \A e \in Devices \ {d} : lock'[e] = lock[e]
    BY <1>4
  <1>6. SyncTyped'
    <2>1. login' \in [Requests -> {Idle} \cup Logins]
      BY <1>2 DEF Ind, TypeOK
    <2>. QED BY <1>1, <1>4, <1>5, <2>1 DEF SyncTyped, Ind, TypeOK
  <1>7. Placed'
    BY <1>1 DEF Ind, Placed, Has
  <1>8. \A r \in Requests : At[r] = d => login'[r].at \notin {"begun", "staged"}
    <2>. SUFFICES ASSUME NEW r \in Requests, At[r] = d, login'[r].at \in {"begun", "staged"}
                  PROVE  FALSE
      OBVIOUS
    <2>1. login'[r] = login[r] /\ (b = Poll \/ r # b)
      BY <1>3
    <2>2. sync[d].by = r
      BY <2>1 DEF Ind, Turns
    <2>. QED BY <2>1, <2>2, NamesAssumption
  <1>9. Turns'
    <2>1. ASSUME NEW r \in Requests, login'[r].at \in {"begun", "staged"}
          PROVE  Has(At[r])' /\ sync'[At[r]].by = r
      <3>1. At[r] \in Devices \ {d} /\ login'[r] = login[r]
        BY <1>8, <2>1, <1>2, <1>3, DevicesAssumption
      <3>. QED BY <3>1, <2>1, <1>1 DEF Ind, Turns, Has
    <2>2. ASSUME NEW r \in Requests, login'[r].at = "fresh"
          PROVE  lock'[At[r]] = r /\ kind # "local"
      <3>1. CASE r = b /\ b # Poll
        BY <3>1, <2>2, <1>2, <1>3 DEF Ind, Placed
      <3>2. CASE ~(r = b /\ b # Poll)
        <4>1. login[r].at = "fresh" /\ lock[At[r]] = r /\ kind # "local"
          BY <3>2, <2>2, <1>3 DEF Ind, Turns
        <4>2. At[r] # d
          BY <4>1, <3>2, <1>2, NamesAssumption
        <4>. QED BY <4>1, <4>2, <1>5, DevicesAssumption
      <3>. QED BY <3>1, <3>2
    <2>3. ASSUME NEW e \in Devices, Has(e)', sync'[e].by # Poll
          PROVE  At[sync'[e].by] = e /\ login'[sync'[e].by].at \in {"begun", "staged"}
      <3>1. e # d /\ sync'[e] = sync[e] /\ Has(e)
        BY <2>3, <1>1 DEF Has
      <3>2. At[sync[e].by] = e /\ login[sync[e].by].at \in {"begun", "staged"} /\ sync[e].by \in Requests
        BY <3>1, <2>3, RunFields DEF Ind, Turns
      <3>. QED BY <3>1, <3>2, <1>2, <1>3
    <2>. QED BY <2>1, <2>2, <2>3 DEF Turns
  <1>10. Marked' /\ Grown'
    <2>1. \A r \in Requests : Follows(r)
      BY <1>2, <1>3 DEF Follows
    <2>2. \A r, q \in Requests : r = q \/ login'[r] = login[r] \/ login'[q] = login[q]
      BY <1>3
    <2>. QED BY <2>1, <2>2, NumbersKept DEF Ind, MarksGrow
  <1>. QED BY <1>1, <1>2, <1>3, <1>6, <1>7, <1>8, <1>9, <1>10 DEF Has, Staged

-----------------------------------------------------------------------------
(* What a login finds after its run.                                         *)
LEMMA LoginGoesOn ==
  ASSUME TypeOK, NEW r \in Requests, login[r] # Idle, NEW p \in Passkey, NEW rebased \in BOOLEAN,
         NEW w, w = LoginAfter(r, p, rebased)
  PROVE  /\ w \in Logins /\ w.at \in {"fresh", "signs", "ended"}
         /\ w.at = "signs" => /\ Staged(r) /\ Clear(p) /\ ~rebased
                              /\ p.count = login[r].count /\ w.count = login[r].count
         /\ w.at = "fresh" => Clear(p)
  <1>. DEFINE was == login[r]
              fresh == [was EXCEPT !.at = "fresh", !.count = p.count]
              signs == [was EXCEPT !.at = "signs", !.count = p.count]
  <1>1. was \in Logins /\ p.count \in Counts
    BY DEF TypeOK, Passkey
  <1>2. fresh \in Logins /\ fresh.at = "fresh" /\ signs \in Logins /\ signs.at = "signs"
        /\ signs.count = p.count
    BY <1>1 DEF Logins
  <1>3. \/ w = fresh /\ Clear(p)
        \/ w = signs /\ was.at = "staged" /\ Clear(p) /\ ~rebased /\ p.count = was.count
        \/ w = Over
    BY DEF LoginAfter, IsConfirmed
  <1>. HIDE DEF fresh, signs
  <1>4. CASE w = fresh /\ Clear(p)
    BY <1>4, <1>2
  <1>5. CASE w = signs /\ was.at = "staged" /\ Clear(p) /\ ~rebased /\ p.count = was.count
    BY <1>5, <1>2 DEF Staged
  <1>6. CASE w = Over
    BY <1>6, FixedFields
  <1>. QED BY <1>3, <1>4, <1>5, <1>6

(* The end of a run, with what is known of the passkey p it leaves.          *)
LEMMA EndedKeeps ==
  ASSUME Ind, NEW d \in Devices, NEW p \in Passkey, NEW x \in Counts, Has(d), Ended(d, p),
         vault' = [vault EXCEPT ![d] = p], receipt' = [receipt EXCEPT ![d] = x],
         UNCHANGED <<kind, storeVars, file, late, signed, boundVars>>,
         p.mark >= vault[d].mark, ~p.queued => p.mark >= p.count,
         ~p.queued \/ p.count = 0 => p.count \in held,
         p.clash # NoClash => p.clash.count \in held,
         kind = "keepass" =>
           /\ sync[d].at = "done" /\ x = 0
           /\ p.base = NoBase \/ p.count = IF p.queued THEN p.base + 1 ELSE p.base
           /\ Clear(p) => p.count = p.base /\ p.base = file[d].work
  PROVE  Ind'
  <1>. DEFINE b == sync[d].by
              w == IF b = Poll THEN Over ELSE LoginAfter(b, p, sync[d].rebased)
  <1>0. TypeOK /\ kind # "local" /\ (kind = "keepass" => ~file[d].dirty)
    BY DEF Ind, Placed, Copies, CopyAt
  <1>1. vault'[d] = p /\ (\A e \in Devices \ {d} : vault'[e] = vault[e])
        /\ receipt'[d] = x /\ (\A e \in Devices \ {d} : receipt'[e] = receipt[e])
    BY <1>0 DEF TypeOK
  <1>2. p.mark \in Counts /\ p.count \in Counts /\ p.queued \in BOOLEAN
    BY DEF Passkey
  <1>3. MarksGrow
    BY <1>0, <1>1, <1>2, Fields, CountsAreNumbers DEF MarksGrow
  <1>4. b \in Requests \cup {Poll} /\ sync[d].rebased \in BOOLEAN
        /\ (b # Poll => b \in Requests /\ At[b] = d /\ login[b] # Idle)
    BY <1>0, RunFields DEF Ind, Turns, Idle
  <1>5. /\ w \in Logins /\ w.at \in {"fresh", "signs", "ended"}
        /\ b # Poll /\ w.at = "signs" => /\ Staged(b) /\ Clear(p) /\ ~sync[d].rebased
                              /\ p.count = login[b].count /\ w.count = login[b].count
        /\ b # Poll /\ w.at = "fresh" => Clear(p)
    <2>1. CASE b = Poll
      BY <2>1, FixedFields
    <2>2. CASE b # Poll
      <3>1. w = LoginAfter(b, p, sync[d].rebased)
        BY <2>2
      <3>. HIDE DEF w
      <3>. QED BY <2>2, <3>1, <1>0, <1>4, LoginGoesOn
    <2>. QED BY <2>1, <2>2
  <1>6. /\ sync' = [sync EXCEPT ![d] = NoSync]
        /\ login' = IF b = Poll THEN login ELSE [login EXCEPT ![b] = w]
        /\ lock' = lock \/ lock' = [lock EXCEPT ![d] = NoOne]
        /\ b # Poll /\ w.at = "fresh" => lock' = lock
    <2>0. b # Poll => w = LoginAfter(b, p, sync[d].rebased)
      OBVIOUS
    <2>. HIDE DEF w
    <2>1. /\ sync' = [sync EXCEPT ![d] = NoSync]
          /\ login' = IF b = Poll THEN login ELSE [login EXCEPT ![b] = w]
          /\ lock' = IF b = Poll \/ login'[b].at = "ended"
                        \/ (kind = "keepass" /\ login'[b].at = "signs")
                     THEN [lock EXCEPT ![d] = NoOne] ELSE lock
      <3>1. CASE b = Poll
        BY <3>1 DEF Ended
      <3>2. CASE b # Poll
        BY <3>2, <2>0 DEF Ended
      <3>. QED BY <3>1, <3>2
    <2>2. b # Poll => login'[b] = w
      BY <2>1, <1>0, <1>4 DEF TypeOK
    <2>. QED BY <2>1, <2>2
  <1>7. b # Poll /\ w.at = "signs" =>
          Staged(b) /\ w.count = login[b].count /\ w.count <= vault'[d].mark
    BY <1>1, <1>2, <1>5, CountsAreNumbers DEF Clear
  <1>8. late' # {} => kind = "bitwarden"
    BY DEF Ind, Placed
  <1>. HIDE DEF w
  <1>9. /\ SyncTyped' /\ Placed' /\ Turns' /\ Marked' /\ Grown' /\ ~Has(d)'
        /\ \A r \in Requests : At[r] # d => login'[r] = login[r]
        /\ \A r \in Requests : login'[r] # login[r] => r = b /\ login'[r] = w
        /\ \A r \in Requests : At[r] = d => ~Staged(r)'
    BY <1>3, <1>5, <1>6, <1>7, <1>8, Ends
  <1>10. TypeOK'
    <2>1. \A e \in Devices : ~vault'[e].queued => vault'[e].mark >= vault'[e].count
      BY <1>0, <1>1, Fields
    <2>. QED BY <1>0, <1>9, <2>1 DEF TypeOK, SyncTyped, storeVars, boundVars
  <1>11. StoreMoves
    BY StoreStays
  <1>12. Elsewhere(d)
    BY <1>1, <1>6, <1>9, <1>0 DEF Elsewhere, TypeOK
  <1>13. KnownAt(d)'
    BY <1>0, <1>1, <1>9 DEF Ind, Known, KnownAt, storeVars
  <1>14. \A r \in Requests : At[r] = d /\ login'[r].at = "signs" => login'[r].count \in held'
    <2>. SUFFICES ASSUME NEW r \in Requests, login'[r].at = "signs"
                  PROVE  login'[r].count \in held
      BY DEF storeVars
    <2>1. CASE login'[r] = login[r]
      BY <2>1, <1>0 DEF Ind, Known, Signing
    <2>2. CASE login'[r] # login[r]
      <3>1. r = b /\ login'[r] = w /\ b # Poll
        BY <2>2, <1>9, NamesAssumption
      <3>. QED BY <3>1, <1>5 DEF Clear
    <2>. QED BY <2>1, <2>2
  <1>15. kind = "keepass" => CopyAt(d)'
    <2>. SUFFICES ASSUME kind = "keepass"
                  PROVE  CopyAt(d)'
      OBVIOUS
    <2>1. CopyAt(d)
      BY DEF Ind, Copies
    <2>. QED BY <2>1, <1>0, <1>1, <1>9 DEF CopyAt, storeVars
  <1>16. kind = "keepass" => \A r \in Requests : At[r] = d => PreparedAt(r)'
    <2>. SUFFICES ASSUME kind = "keepass", NEW r \in Requests, At[r] = d, login'[r].at = "fresh"
                  PROVE  ~p.queued /\ p.clash = NoClash /\ x = 0 /\ ~file[d].dirty
                         /\ p.count = p.base /\ p.base = file[d].work
      BY <1>1, <1>9 DEF PreparedAt
    <2>1. CASE login'[r] = login[r]
      <3>1. lock[d] = r /\ login[r].at = "fresh" /\ b = r
        BY <2>1, <1>0, RunFields DEF Ind, Turns
      <3>. QED BY <3>1, <1>4, NamesAssumption DEF Ind, Turns
    <2>2. CASE login'[r] # login[r]
      <3>1. r = b /\ login'[r] = w /\ b # Poll
        BY <2>2, <1>9, NamesAssumption
      <3>. QED BY <3>1, <1>0, <1>5 DEF Clear
    <2>. QED BY <2>1, <2>2
  <1>17. Known' /\ Copies' /\ Prepared' /\ Rising' /\ DeliveredIsStored'
    BY <1>11, <1>12, <1>13, <1>14, <1>15, <1>16, StepAt
  <1>18. Claimed'
    <2>. SUFFICES ASSUME kind = "keepass", NEW r \in Requests, Spoken(r)', login'[r].count # 0
                  PROVE  Spoken(r) /\ login'[r].count = login[r].count
      BY <1>11, ClaimsKept
    <2>1. CASE login'[r] = login[r]
      BY <2>1, <1>6, <1>9, <1>12, DevicesAssumption
         DEF Spoken, Signing, Staged, Reserved, Elsewhere
    <2>2. CASE login'[r] # login[r]
      <3>1. r = b /\ login'[r] = w /\ b # Poll
        BY <2>2, <1>9, NamesAssumption
      <3>. QED BY <3>1, <1>0, <1>4, <1>5, <1>9
               DEF Spoken, Signing, Reserved, Staged, Clear
    <2>. QED BY <2>1, <2>2
  <1>. QED BY <1>9, <1>10, <1>17, <1>18 DEF Ind

(* A run that goes on, with what is known of the passkey p, the receipt x and *)
(* the copy f that it leaves.                                                *)
LEMMA GoesOnKeeps ==
  ASSUME Ind, NEW d \in Devices, NEW s \in Runs, NEW p \in Passkey, NEW x \in Counts,
         NEW f \in Copy, Has(d), s.by = sync[d].by, sync' = [sync EXCEPT ![d] = s],
         vault' = [vault EXCEPT ![d] = p], receipt' = [receipt EXCEPT ![d] = x],
         file' = [file EXCEPT ![d] = f],
         UNCHANGED <<kind, login, lock, late, signed, boundVars>>, StoreMoves,
         s.at = "got" => kind = "bitwarden",
         s.at \in {"recover", "recovered"} => kind = "keepass",
         p.mark >= vault[d].mark, ~p.queued => p.mark >= p.count,
         ~p.queued \/ p.count = 0 => p.count \in held',
         p.clash # NoClash => p.clash.count \in held',
         f.base \in held',
         kind = "bitwarden" /\ s.at \in {"got", "put", "done"} => s.got.count \in held',
         kind = "keepass" =>
           /\ p.base = NoBase \/ p.count = IF p.queued THEN p.base + 1 ELSE p.base
           /\ f.work = IF f.dirty THEN f.base + 1 ELSE f.base
           /\ f.dirty => x = f.work
           /\ f.etag <= source'.rev /\ (f.etag = source'.rev => f.base = source'.count)
           /\ s.at \in {"read", "recovered", "done"} => ~f.dirty
           /\ s.by # Poll /\ Staged(s.by) =>
                /\ s.at \in {"put", "done"}
                /\ s.at = "put" => f.dirty /\ f.work = login[s.by].count
  PROVE  /\ TypeOK' /\ Placed' /\ Turns' /\ Marked' /\ Grown' /\ Known' /\ Copies'
         /\ Prepared' /\ Rising' /\ DeliveredIsStored' /\ sync'[d] = s
         /\ Elsewhere(d)
  <1>0. TypeOK /\ kind # "local"
    BY DEF Ind, Placed
  <1>1. /\ vault'[d] = p /\ (\A e \in Devices \ {d} : vault'[e] = vault[e])
        /\ receipt'[d] = x /\ (\A e \in Devices \ {d} : receipt'[e] = receipt[e])
        /\ file'[d] = f /\ (\A e \in Devices \ {d} : file'[e] = file[e])
    BY <1>0 DEF TypeOK
  <1>2. p.mark \in Counts
    BY DEF Passkey
  <1>3. MarksGrow
    BY <1>0, <1>1, <1>2, Fields, CountsAreNumbers DEF MarksGrow
  <1>4. SyncTyped' /\ Placed' /\ Turns' /\ Marked' /\ Grown' /\ sync'[d] = s
    BY <1>3, GoesOn
  <1>5. TypeOK'
    <2>1. \A e \in Devices : ~vault'[e].queued => vault'[e].mark >= vault'[e].count
      BY <1>0, <1>1, Fields
    <2>2. source' \in Seen /\ held' \subseteq Counts /\ spent' \subseteq Counts /\ regressed' \in BOOLEAN
      BY <1>0 DEF StoreMoves, TypeOK
    <2>. QED BY <1>0, <1>4, <2>1, <2>2 DEF TypeOK, SyncTyped, boundVars
  <1>6. Elsewhere(d)
    BY <1>0, <1>1 DEF Elsewhere, TypeOK
  <1>7. KnownAt(d)'
    BY <1>1, <1>4 DEF KnownAt
  <1>8. \A r \in Requests : At[r] = d /\ login'[r].at = "signs" => login'[r].count \in held'
    BY <1>0 DEF Ind, Known, Signing, StoreMoves
  <1>9. kind = "keepass" => CopyAt(d)'
    BY <1>1, <1>4 DEF CopyAt
  <1>10. kind = "keepass" => \A r \in Requests : At[r] = d => PreparedAt(r)'
    <2>. SUFFICES ASSUME kind = "keepass", NEW r \in Requests, At[r] = d
                  PROVE  PreparedAt(r)'
      OBVIOUS
    <2>1. login[r].at # "fresh"
      BY <1>0, RunFields, NamesAssumption DEF Ind, Turns
    <2>2. Staged(r) => s.by = r /\ s.by # Poll
      BY NamesAssumption DEF Ind, Turns, Staged
    <2>3. Staged(r) => s.at \in {"put", "done"} /\ (s.at = "put" => f.dirty /\ f.work = login[r].count)
      BY <2>2
    <2>. QED BY <2>1, <2>3, <1>1, <1>4 DEF PreparedAt, Staged
  <1>11. Known' /\ Copies' /\ Prepared' /\ Rising' /\ DeliveredIsStored'
    BY <1>6, <1>7, <1>8, <1>9, <1>10, StepAt
  <1>. QED BY <1>4, <1>5, <1>6, <1>11

(* It makes nobody sign with a new count, unless it brings a login to an end *)
(* that its copy was published for.                                          *)
LEMMA RunClaims ==
  ASSUME Ind, NEW d \in Devices, NEW s \in Runs, Has(d), s.by = sync[d].by, sync'[d] = s,
         UNCHANGED <<kind, login, signed>>, Elsewhere(d), StoreMoves,
         kind = "keepass" /\ s.by # Poll /\ Staged(s.by) => s.at # "done" \/ s.rebased
  PROVE  Claimed'
  <1>. SUFFICES ASSUME kind = "keepass", NEW r \in Requests, Spoken(r)'
                PROVE  Spoken(r)
    BY ClaimsKept
  <1>1. CASE At[r] = d
    <2>1. Staged(r) => s.by = r /\ s.by # Poll
      BY <1>1, NamesAssumption DEF Ind, Turns, Staged
    <2>. QED BY <1>1, <2>1 DEF Spoken, Signing, Reserved, Staged
  <1>2. CASE At[r] # d
    BY <1>2, DevicesAssumption DEF Spoken, Signing, Reserved, Staged, Elsewhere
  <1>. QED BY <1>1, <1>2

-----------------------------------------------------------------------------
(* What is taken from a source keeps the history of the counter.             *)
LEMMA TakenFacts ==
  ASSUME NEW q \in Passkey, NEW count \in Counts, NEW base \in Nat
  PROVE  LET t == Taken(q, count, base) IN
         /\ t \in Passkey /\ t.count = count /\ t.base = base /\ ~t.queued /\ t.clash = NoClash
         /\ t.mark >= q.mark /\ t.mark >= count
  <1>1. q.mark \in Counts /\ q.mark \in Nat /\ count \in Nat
    BY CountsAreNumbers DEF Passkey
  <1>2. /\ MarkAfter(q, count) \in Counts
        /\ MarkAfter(q, count) >= q.mark /\ MarkAfter(q, count) >= count
    BY <1>1 DEF MarkAfter, Larger
  <1>. QED BY <1>2 DEF Taken, Passkey

LEMMA ObservedFacts ==
  ASSUME NEW q \in Passkey, NEW got \in Seen
  PROVE  LET t == Observed(q, got) IN
         /\ t \in Passkey /\ t.count = q.count /\ t.base = q.base /\ t.queued = q.queued
         /\ t.clash = q.clash /\ t.mark >= q.mark
  <1>1. q.mark \in Counts /\ q.mark \in Nat /\ got.count \in Counts /\ got.count \in Nat
    BY CountsAreNumbers DEF Passkey, Seen
  <1>2. MarkAfter(q, got.count) \in Counts /\ MarkAfter(q, got.count) >= q.mark
    BY <1>1 DEF MarkAfter, Larger
  <1>. QED BY <1>2 DEF Observed, Passkey

LEMMA ClashFacts ==
  ASSUME NEW q \in Passkey, NEW got \in Seen
  PROVE  LET t == [q EXCEPT !.clash = got] IN
         /\ t \in Passkey /\ t.count = q.count /\ t.base = q.base /\ t.queued = q.queued
         /\ t.clash = got /\ t.mark = q.mark
  BY DEF Passkey

(* The passkey after it was compared with the Cipher that was read.          *)
LEMMA ComparedFacts ==
  ASSUME TypeOK, NEW d \in Devices, Has(d), NEW q \in Passkey, NEW got \in Seen,
         ~q.queued => q.mark >= q.count
  PROVE  LET t == Compared(d, q, got) IN
         /\ t \in Passkey /\ t.mark >= q.mark /\ (~t.queued => t.mark >= t.count)
         /\ t.count \in {q.count, got.count} /\ (t.count = q.count \/ ~t.queued)
         /\ t.clash \in {q.clash, got, NoClash} /\ (t.queued = q.queued \/ t.count = got.count)
  <1>. DEFINE seen == IF NotRegressed(got.count, q.mark) THEN Observed(q, got) ELSE q
              clashed == [seen EXCEPT !.clash = got]
              taken   == Taken(q, got.count, got.rev)
              based   == [seen EXCEPT !.base = IF sync[d].send THEN @ ELSE got.rev,
                                      !.clash = IF Differs(q, got) THEN got ELSE NoClash]
              t == Compared(d, q, got)
  <1>1. /\ q.mark \in Nat /\ got.count \in Counts /\ got.rev \in Nat /\ q.mark \in Counts
        /\ q.count \in Counts /\ q.queued \in BOOLEAN
    BY CountsAreNumbers DEF Passkey, Seen, Revs
  <1>2. /\ seen \in Passkey /\ seen.count = q.count /\ seen.queued = q.queued
        /\ seen.clash = q.clash /\ seen.mark >= q.mark /\ seen.base \in Nat /\ seen.mark \in Nat
    <2>1. /\ seen \in Passkey /\ seen.count = q.count /\ seen.queued = q.queued
          /\ seen.clash = q.clash /\ seen.mark >= q.mark
      BY <1>1, ObservedFacts
    <2>2. seen.base \in Nat /\ seen.mark \in Counts
      BY <2>1 DEF Passkey
    <2>. QED BY <2>1, <2>2, CountsAreNumbers
  <1>3. t = clashed \/ t = taken \/ t = based
    BY DEF Compared
  <1>. HIDE DEF seen, t
  <1>4. /\ clashed \in Passkey /\ clashed.count = q.count /\ clashed.queued = q.queued
        /\ clashed.clash = got /\ clashed.mark = seen.mark
    BY <1>2, ClashFacts
  <1>5. /\ taken \in Passkey /\ taken.count = got.count /\ ~taken.queued /\ taken.clash = NoClash
        /\ taken.mark >= q.mark /\ taken.mark >= taken.count
    <2>1. /\ taken \in Passkey /\ taken.count = got.count /\ ~taken.queued
          /\ taken.clash = NoClash /\ taken.mark >= q.mark /\ taken.mark >= got.count
      BY <1>1, TakenFacts, ZenonT(30)
    <2>. HIDE DEF taken
    <2>. QED BY <2>1
  <1>6. /\ based \in Passkey /\ based.count = q.count /\ based.queued = q.queued
        /\ based.clash \in {got, NoClash} /\ based.mark = seen.mark
    BY <1>1, <1>2 DEF Passkey
  <1>. HIDE DEF clashed, taken, based
  <1>7. CASE t = clashed
    BY <1>7, <1>1, <1>2, <1>4, CountsAreNumbers DEF t
  <1>8. CASE t = taken
    BY <1>8, <1>1, <1>5 DEF t
  <1>9. CASE t = based
    BY <1>9, <1>1, <1>2, <1>6, CountsAreNumbers DEF t
  <1>. QED BY <1>3, <1>7, <1>8, <1>9

-----------------------------------------------------------------------------
(* Bitwarden.                                                                *)
(* A Bitwarden run leaves the passkey and the copy as they are until its end. *)
LEMMA CipherRunKeeps ==
  ASSUME Ind, NEW d \in Devices, NEW s \in Runs, NEW x \in Counts, Has(d), s.by = sync[d].by,
         kind = "bitwarden", sync' = [sync EXCEPT ![d] = s],
         receipt' = [receipt EXCEPT ![d] = x],
         UNCHANGED <<kind, vault, file, login, lock, late, signed, boundVars>>, StoreMoves,
         s.at \in {"got", "put", "done"}, s.got.count \in held'
  PROVE  Ind'
  <1>0. TypeOK /\ kind # "keepass" /\ kind # "local" /\ s.at \notin {"recover", "recovered"}
    BY DEF Ind
  <1>1. /\ vault[d] \in Passkey /\ file[d] \in Copy
        /\ (~vault[d].queued => vault[d].mark >= vault[d].count)
    BY <1>0, Fields
  <1>2. vault[d].mark >= vault[d].mark
    BY <1>0, Fields, CountsAreNumbers
  <1>3. vault' = [vault EXCEPT ![d] = vault[d]] /\ file' = [file EXCEPT ![d] = file[d]]
    BY <1>0 DEF TypeOK
  <1>4. /\ ~vault[d].queued \/ vault[d].count = 0 => vault[d].count \in held'
        /\ vault[d].clash # NoClash => vault[d].clash.count \in held'
        /\ file[d].base \in held'
    BY <1>0 DEF Ind, Known, KnownAt, StoreMoves
  <1>5. UNCHANGED <<kind, login, lock, late, signed, boundVars>>
    OBVIOUS
  <1>6. /\ TypeOK' /\ Placed' /\ Turns' /\ Marked' /\ Grown' /\ Known' /\ Copies'
        /\ Prepared' /\ Rising' /\ DeliveredIsStored' /\ sync'[d] = s /\ Elsewhere(d)
    BY <1>0, <1>1, <1>2, <1>3, <1>4, <1>5, GoesOnKeeps
  <1>7. Claimed'
    BY <1>0, <1>6, RunClaims
  <1>. QED BY <1>6, <1>7 DEF Ind

LEMMA FetchKeeps ==
  ASSUME Ind, NEW d \in Devices, Fetch(d)
  PROVE  Ind'
  <1>. DEFINE s == [sync[d] EXCEPT !.at = "got", !.got = source]
  <1>0. TypeOK /\ Has(d) /\ kind = "bitwarden"
    BY DEF Fetch, Running, Has, Ind
  <1>1. receipt[d] \in Counts
    BY <1>0, Fields
  <1>2. sync[d] \in Runs /\ source \in Seen
    BY <1>0, RunFields DEF TypeOK
  <1>3. s \in Runs /\ s.by = sync[d].by /\ s.at = "got" /\ s.got = source
    BY <1>2 DEF Runs
  <1>4. sync' = [sync EXCEPT ![d] = s]
    BY <1>0 DEF Fetch, TypeOK
  <1>. HIDE DEF s
  <1>5. /\ receipt' = [receipt EXCEPT ![d] = receipt[d]]
        /\ UNCHANGED <<kind, vault, file, login, lock, late, signed, boundVars>>
        /\ UNCHANGED <<kind, storeVars>>
    BY <1>0 DEF Fetch, TypeOK
  <1>6. StoreMoves
    BY <1>5, StoreStays
  <1>7. source.count \in held'
    BY <1>0, <1>5 DEF Ind, Known, storeVars
  <1>. QED BY <1>0, <1>1, <1>3, <1>4, <1>5, <1>6, <1>7, CipherRunKeeps

LEMMA DecideKeeps ==
  ASSUME Ind, NEW d \in Devices, Decide(d)
  PROVE  Ind'
  <1>. DEFINE got == sync[d].got
              p == Compared(d, vault[d], got)
              x == IF p.queued THEN receipt[d] ELSE 0
  <1>0. TypeOK /\ Has(d) /\ kind = "bitwarden" /\ sync[d].at = "got"
    BY DEF Decide, Running, Has, Ind, Placed
  <1>1. /\ vault[d] \in Passkey /\ receipt[d] \in Counts /\ vault[d].mark \in Counts
        /\ vault[d].count \in Counts /\ vault[d].queued \in BOOLEAN
        /\ (~vault[d].queued => vault[d].mark >= vault[d].count)
    BY <1>0, Fields
  <1>2. got \in Seen
    BY <1>0, RunFields
  <1>3. /\ p \in Passkey /\ p.mark >= vault[d].mark /\ (~p.queued => p.mark >= p.count)
        /\ p.count \in {vault[d].count, got.count} /\ (p.count = vault[d].count \/ ~p.queued)
        /\ p.clash \in {vault[d].clash, got, NoClash}
        /\ (p.queued = vault[d].queued \/ p.count = got.count)
    BY <1>0, <1>1, <1>2, ComparedFacts
  <1>4. KnownAt(d) /\ got.count \in held
    BY <1>0 DEF Ind, Known, KnownAt
  <1>5. vault' = [vault EXCEPT ![d] = p] /\ vault'[d] = p
    BY <1>0 DEF Decide, TypeOK
  <1>6. receipt' = [receipt EXCEPT ![d] = x] /\ x \in Counts
    BY <1>1, <1>5, FixedFields DEF Decide
  <1>7. Ended(d, p) /\ UNCHANGED <<kind, storeVars, file, late, signed, boundVars>>
    BY <1>5 DEF Decide
  <1>8. p.queued \in BOOLEAN
    BY <1>3 DEF Passkey
  <1>. HIDE DEF p, x
  <1>9. (~p.queued \/ p.count = 0 => p.count \in held) /\ (p.clash # NoClash => p.clash.count \in held)
    <2>. HIDE DEF got
    <2>. QED BY <1>1, <1>3, <1>4, <1>8 DEF KnownAt
  <1>. QED BY <1>0, <1>3, <1>5, <1>6, <1>7, <1>9, EndedKeeps

LEMMA AttemptKeeps ==
  ASSUME Ind, NEW d \in Devices, Attempt(d)
  PROVE  Ind'
  <1>. DEFINE put == [count |-> vault[d].count, rev |-> sync[d].got.rev]
              s == [sync[d] EXCEPT !.at = "put", !.put = put]
  <1>0. TypeOK /\ Has(d) /\ kind = "bitwarden" /\ sync[d].at = "got"
    BY DEF Attempt, Running, Has, Ind, Placed
  <1>1. vault[d].count \in Counts
    BY <1>0, Fields
  <1>2. sync[d] \in Runs /\ put \in Seen
    BY <1>0, <1>1, RunFields DEF Seen
  <1>3. sync' = [sync EXCEPT ![d] = s]
    BY <1>0 DEF Attempt, TypeOK
  <1>. HIDE DEF put
  <1>4. s \in Runs /\ s.by = sync[d].by /\ s.at = "put" /\ s.got = sync[d].got
    BY <1>2 DEF Runs
  <1>. HIDE DEF s
  <1>5. /\ receipt' = [receipt EXCEPT ![d] = vault[d].count]
        /\ UNCHANGED <<kind, vault, file, login, lock, late, signed, boundVars>>
        /\ UNCHANGED <<kind, storeVars>>
    BY DEF Attempt
  <1>6. StoreMoves
    BY <1>5, StoreStays
  <1>7. sync[d].got.count \in held'
    BY <1>0, <1>5 DEF Ind, Known, KnownAt, storeVars
  <1>. QED BY <1>0, <1>1, <1>3, <1>4, <1>5, <1>6, <1>7, CipherRunKeeps

LEMMA PutKeeps ==
  ASSUME Ind, NEW d \in Devices, Put(d)
  PROVE  Ind'
  <1>0. TypeOK /\ Has(d) /\ kind = "bitwarden" /\ sync[d].at = "put"
    BY DEF Put, Running, Has, Ind
  <1>1. /\ vault[d] \in Passkey /\ receipt[d] \in Counts /\ file[d] \in Copy
        /\ vault[d].mark \in Nat /\ (~vault[d].queued => vault[d].mark >= vault[d].count)
        /\ vault[d].queued \in BOOLEAN
    BY <1>0, Fields, CountsAreNumbers
  <1>2. sync[d] \in Runs /\ sync[d].put.count \in Counts /\ sync[d].got \in Seen
    BY <1>0, RunFields
  <1>3. KnownAt(d) /\ sync[d].got.count \in held
    BY <1>0 DEF Ind, Known, KnownAt
  <1>4. CASE sync[d].put.rev = source.rev
    <2>. DEFINE s == [sync[d] EXCEPT !.at = "done", !.put = Nothing, !.got = source']
    <2>1. Stored(sync[d].put.count) /\ UNCHANGED <<vault, lock, login>>
          /\ UNCHANGED <<kind, receipt, file, late, signed, boundVars>>
      BY <1>4 DEF Put
    <2>2. StoreMoves
      BY <1>0, <1>2, <2>1, StoreTakes
    <2>3. source' \in Seen /\ source'.count \in held' /\ held \subseteq held'
      BY <1>0, <2>2 DEF StoreMoves
    <2>4. sync' = [sync EXCEPT ![d] = s]
      BY <1>0, <1>4 DEF Put, TypeOK
    <2>5. s \in Runs /\ s.by = sync[d].by /\ s.at = "done" /\ s.got = source'
      BY <1>2, <2>3, FixedFields DEF Runs
    <2>. HIDE DEF s
    <2>6. receipt' = [receipt EXCEPT ![d] = receipt[d]]
      BY <1>0, <2>1 DEF TypeOK
    <2>7. UNCHANGED <<kind, vault, file, login, lock, late, signed, boundVars>>
      BY <2>1
    <2>. QED BY <1>0, <1>1, <2>2, <2>3, <2>4, <2>5, <2>6, <2>7, CipherRunKeeps
  <1>5. CASE sync[d].put.rev # source.rev
    <2>. DEFINE got == sync[d].got
                q == Observed(vault[d], got)
                p == [q EXCEPT !.clash = got]
    <2>1. vault' = [vault EXCEPT ![d] = p] /\ vault'[d] = p
      BY <1>0, <1>5 DEF Put, TypeOK
    <2>2. Ended(d, p) /\ UNCHANGED <<kind, storeVars, file, late, signed, boundVars>>
          /\ receipt' = [receipt EXCEPT ![d] = receipt[d]]
      BY <1>0, <1>5, <2>1 DEF Put, TypeOK
    <2>3. /\ q \in Passkey /\ q.count = vault[d].count /\ q.queued = vault[d].queued
          /\ q.mark >= vault[d].mark /\ q.mark \in Nat
      <3>1. /\ q \in Passkey /\ q.count = vault[d].count /\ q.queued = vault[d].queued
            /\ q.mark >= vault[d].mark
        BY <1>1, <1>2, ObservedFacts
      <3>. HIDE DEF q
      <3>. QED BY <3>1, CountsAreNumbers DEF Passkey
    <2>. HIDE DEF q
    <2>4. /\ p \in Passkey /\ p.count = vault[d].count /\ p.queued = vault[d].queued
          /\ p.mark = q.mark /\ p.clash = got
      BY <1>2, <2>3, ClashFacts
    <2>5. vault[d].count \in Nat
      BY <1>0, Fields, CountsAreNumbers
    <2>. HIDE DEF p
    <2>6. (~p.queued => p.mark >= p.count) /\ p.mark >= vault[d].mark
      BY <1>1, <2>3, <2>4, <2>5
    <2>7. (~p.queued \/ p.count = 0 => p.count \in held) /\ (p.clash # NoClash => p.clash.count \in held)
      BY <1>3, <2>4 DEF KnownAt
    <2>. QED BY <1>0, <1>1, <2>1, <2>2, <2>4, <2>6, <2>7, EndedKeeps
  <1>. QED BY <1>4, <1>5

LEMMA AcknowledgeKeeps ==
  ASSUME Ind, NEW d \in Devices, Acknowledge(d)
  PROVE  Ind'
  <1>. DEFINE got == sync[d].got
              p == Taken(vault[d], got.count, got.rev)
  <1>0. TypeOK /\ Has(d) /\ kind = "bitwarden" /\ sync[d].at = "done"
    BY DEF Acknowledge, Running, Has, Ind
  <1>1. vault[d] \in Passkey /\ got.count \in Counts /\ got.rev \in Nat
    BY <1>0, Fields, RunFields DEF Revs
  <1>2. /\ p \in Passkey /\ p.count = got.count /\ ~p.queued /\ p.clash = NoClash
        /\ p.mark >= vault[d].mark /\ p.mark >= got.count
    BY <1>1, TakenFacts, ZenonT(30)
  <1>3. vault' = [vault EXCEPT ![d] = p] /\ vault'[d] = p
    BY <1>0 DEF Acknowledge, TypeOK
  <1>4. /\ receipt' = [receipt EXCEPT ![d] = 0] /\ Ended(d, p)
        /\ UNCHANGED <<kind, storeVars, file, late, signed, boundVars>>
    BY <1>3 DEF Acknowledge
  <1>5. got.count \in held
    BY <1>0 DEF Ind, Known, KnownAt
  <1>. HIDE DEF p
  <1>. QED BY <1>0, <1>2, <1>3, <1>4, <1>5, FixedFields, EndedKeeps

-----------------------------------------------------------------------------
(* KeePass.                                                                  *)
LEMMA SaveKeeps ==
  ASSUME Ind, NEW d \in Devices, Save(d)
  PROVE  Ind'
  <1>. DEFINE s == [sync[d] EXCEPT !.at = "put"]
              f == IF Edits(d) THEN [file[d] EXCEPT !.work = vault[d].count, !.dirty = TRUE] ELSE file[d]
              x == IF Edits(d) THEN vault[d].count ELSE receipt[d]
  <1>0. TypeOK /\ Has(d) /\ kind = "keepass" /\ sync[d].at = "read"
    BY DEF Save, Running, Has, Ind
  <1>1. /\ vault[d] \in Passkey /\ receipt[d] \in Counts /\ file[d] \in Copy
        /\ vault[d].mark \in Nat /\ (~vault[d].queued => vault[d].mark >= vault[d].count)
        /\ vault[d].count \in Counts /\ file[d].work \in Counts /\ vault[d].queued \in BOOLEAN
        /\ file[d].base \in Nat /\ vault[d].base \in Nat
    BY <1>0, Fields, CountsAreNumbers
  <1>2. sync[d] \in Runs
    BY <1>0, RunFields
  <1>3. s \in Runs /\ s.by = sync[d].by /\ s.at = "put"
    BY <1>2 DEF Runs
  <1>4. sync' = [sync EXCEPT ![d] = s]
    BY <1>0 DEF Save, TypeOK
  <1>5. KnownAt(d) /\ CopyAt(d) /\ ~file[d].dirty
    BY <1>0 DEF Ind, Known, Copies, CopyAt
  <1>6. /\ f \in Copy /\ f.base = file[d].base /\ f.etag = file[d].etag
        /\ Edits(d) => f.work = vault[d].count /\ f.dirty
        /\ ~Edits(d) => f = file[d]
    BY <1>1 DEF Copy
  <1>7. file' = [file EXCEPT ![d] = f] /\ receipt' = [receipt EXCEPT ![d] = x] /\ x \in Counts
    BY <1>0, <1>1 DEF Save, TypeOK
  <1>8. /\ vault' = [vault EXCEPT ![d] = vault[d]]
        /\ UNCHANGED <<kind, login, lock, late, signed, boundVars>>
    BY <1>0 DEF Save, TypeOK
  <1>9. StoreMoves /\ UNCHANGED storeVars
    BY StoreStays DEF Save
  <1>10. Edits(d) => vault[d].queued /\ vault[d].count = vault[d].base + 1 /\ vault[d].base = file[d].work
    BY <1>1, <1>5, CountsAreNumbers DEF Edits, CopyAt
  <1>11. Edits(d) => x = vault[d].count
    OBVIOUS
  <1>. HIDE DEF s, f, x
  <1>12. s.by # Poll /\ Staged(s.by) => Edits(d) /\ vault[d].count = login[s.by].count
    <2>. SUFFICES ASSUME s.by # Poll, Staged(s.by)
                  PROVE  Edits(d) /\ vault[d].count = login[s.by].count
      OBVIOUS
    <2>1. s.by \in Requests /\ At[s.by] = d
      BY <1>0, <1>3, RunFields DEF Ind, Turns
    <2>2. PreparedAt(s.by)
      BY <1>0, <2>1 DEF Ind, Prepared
    <2>. QED BY <1>0, <1>1, <2>1, <2>2 DEF PreparedAt, Edits
  <1>13. /\ vault[d].base = NoBase \/ vault[d].count = IF vault[d].queued THEN vault[d].base + 1 ELSE vault[d].base
         /\ f.work = IF f.dirty THEN f.base + 1 ELSE f.base
         /\ f.dirty => x = f.work
         /\ f.etag <= source'.rev /\ (f.etag = source'.rev => f.base = source'.count)
    <2>1. CASE Edits(d)
      BY <2>1, <1>5, <1>6, <1>9, <1>10, <1>11 DEF CopyAt, storeVars
    <2>2. CASE ~Edits(d)
      BY <2>2, <1>5, <1>6, <1>9 DEF CopyAt, storeVars
    <2>. QED BY <2>1, <2>2
  <1>14. s.by # Poll /\ Staged(s.by) =>
           s.at \in {"put", "done"} /\ (s.at = "put" => f.dirty /\ f.work = login[s.by].count)
    BY <1>3, <1>6, <1>12
  <1>15. /\ ~vault[d].queued \/ vault[d].count = 0 => vault[d].count \in held'
         /\ vault[d].clash # NoClash => vault[d].clash.count \in held'
         /\ f.base \in held'
    BY <1>5, <1>6, <1>9 DEF KnownAt, storeVars
  <1>16. /\ s.at \notin {"recover", "recovered", "read", "done", "got"} /\ kind # "bitwarden"
         /\ vault[d].mark >= vault[d].mark
    BY <1>0, <1>1, <1>3
  <1>17. /\ TypeOK' /\ Placed' /\ Turns' /\ Marked' /\ Grown' /\ Known' /\ Copies'
         /\ Prepared' /\ Rising' /\ DeliveredIsStored' /\ sync'[d] = s /\ Elsewhere(d)
    BY <1>0, <1>1, <1>3, <1>4, <1>6, <1>7, <1>8, <1>9, <1>13, <1>14, <1>15, <1>16, GoesOnKeeps
  <1>18. Claimed'
    BY <1>0, <1>3, <1>8, <1>9, <1>17, RunClaims
  <1>. QED BY <1>17, <1>18 DEF Ind

(* What a changed copy is published as: the file's count does not fall, and  *)
(* over a file that nobody changed it is the next one.                       *)
LEMMA PublishedCount ==
  ASSUME Ind, NEW d \in Devices, kind = "keepass", file[d].dirty, MayPublish(file[d])
  PROVE  /\ ToPublish(file[d]) \in Counts /\ source.count <= ToPublish(file[d])
         /\ ~Stale(file[d]) => /\ ToPublish(file[d]) = file[d].work
                               /\ file[d].work = source.count + 1
  <1>1. /\ file[d].work \in Counts /\ file[d].base \in Nat /\ file[d].work \in Nat
        /\ source.count \in Counts /\ source.count \in Nat
    BY Fields, CountsAreNumbers DEF Ind, TypeOK, Seen
  <1>2. file[d].work = file[d].base + 1 /\ (~Stale(file[d]) => file[d].base = source.count)
    BY DEF Ind, Copies, CopyAt, Stale
  <1>. QED BY <1>1, <1>2 DEF ToPublish, Rebased, MayPublish, Agrees

LEMMA PublishKeeps ==
  ASSUME Ind, NEW d \in Devices, Publish(d)
  PROVE  Ind'
  <1>. DEFINE rebased == sync[d].at = "put" /\ WasRebased(file[d])
              at == Published(sync[d].at)
              stale == Stale(file[d])
              s == [sync[d] EXCEPT !.at = at, !.reread = stale, !.rebased = rebased]
              f == [base |-> source'.count, work |-> source'.count, etag |-> source'.rev, dirty |-> FALSE]
  <1>0. TypeOK /\ Has(d) /\ kind = "keepass" /\ sync[d].at \in {"recover", "put"} /\ MayPublish(file[d])
    BY DEF Publish, Running, Has, Ind
  <1>1. /\ vault[d] \in Passkey /\ receipt[d] \in Counts /\ file[d].dirty \in BOOLEAN
        /\ vault[d].mark \in Nat /\ (~vault[d].queued => vault[d].mark >= vault[d].count)
    BY <1>0, Fields, CountsAreNumbers
  <1>2. sync[d] \in Runs
    BY <1>0, RunFields
  <1>3. /\ rebased \in BOOLEAN /\ stale \in BOOLEAN
        /\ at = IF sync[d].at = "recover" THEN "recovered" ELSE "done"
    BY DEF Published, Stale
  <1>4. sync' = [sync EXCEPT ![d] = s]
    BY <1>0 DEF Publish, TypeOK
  <1>5. rebased <=> sync[d].at = "put" /\ WasRebased(file[d])
    OBVIOUS
  <1>. HIDE DEF rebased, stale, at
  <1>6. s \in Runs /\ s.by = sync[d].by /\ s.at = at /\ s.rebased = rebased
    BY <1>2, <1>3 DEF Runs
  <1>. HIDE DEF s
  <1>7. /\ vault' = [vault EXCEPT ![d] = vault[d]] /\ receipt' = [receipt EXCEPT ![d] = receipt[d]]
        /\ file' = [file EXCEPT ![d] = f]
        /\ UNCHANGED <<kind, login, lock, late, signed, boundVars>>
    BY <1>0 DEF Publish, TypeOK
  <1>8. file[d].dirty => Stored(ToPublish(file[d]))
    BY DEF Publish
  <1>9. ~file[d].dirty => UNCHANGED storeVars
    BY DEF Publish
  <1>10. StoreMoves
    <2>1. CASE file[d].dirty
      BY <2>1, <1>0, <1>7, <1>8, PublishedCount, StoreTakes
    <2>2. CASE ~file[d].dirty
      BY <2>2, <1>7, <1>9, StoreStays
    <2>. QED BY <2>1, <2>2
  <1>11. source' \in Seen /\ source'.count \in held' /\ held \subseteq held'
    BY <1>0, <1>10 DEF StoreMoves
  <1>12. /\ f \in Copy /\ f.base = source'.count /\ f.work = source'.count /\ f.etag = source'.rev
         /\ ~f.dirty /\ f.etag <= source'.rev
    BY <1>11 DEF Copy, Seen, Revs
  <1>. HIDE DEF f
  <1>13. CopyAt(d) /\ KnownAt(d)
    BY <1>0 DEF Ind, Copies, Known
  <1>14. s.by # Poll /\ Staged(s.by) =>
           /\ sync[d].at = "put" /\ s.at = "done" /\ file[d].dirty
           /\ file[d].work = login[s.by].count /\ s.by \in Requests /\ At[s.by] = d
    <2>. SUFFICES ASSUME s.by # Poll, Staged(s.by)
                  PROVE  /\ sync[d].at = "put" /\ s.at = "done" /\ file[d].dirty
                         /\ file[d].work = login[s.by].count /\ s.by \in Requests /\ At[s.by] = d
      OBVIOUS
    <2>1. s.by \in Requests /\ At[s.by] = d
      BY <1>0, <1>6, RunFields DEF Ind, Turns
    <2>2. PreparedAt(s.by)
      BY <1>0, <2>1 DEF Ind, Prepared
    <2>. QED BY <1>0, <1>3, <1>6, <2>1, <2>2 DEF PreparedAt
  <1>15. /\ vault[d].base = NoBase \/ vault[d].count = IF vault[d].queued THEN vault[d].base + 1 ELSE vault[d].base
         /\ f.work = IF f.dirty THEN f.base + 1 ELSE f.base
         /\ f.dirty => receipt[d] = f.work
         /\ f.etag <= source'.rev /\ (f.etag = source'.rev => f.base = source'.count)
         /\ s.at \in {"read", "recovered", "done"} => ~f.dirty
    BY <1>12, <1>13 DEF CopyAt
  <1>16. s.by # Poll /\ Staged(s.by) =>
           s.at \in {"put", "done"} /\ (s.at = "put" => f.dirty /\ f.work = login[s.by].count)
    BY <1>14
  <1>17. /\ ~vault[d].queued \/ vault[d].count = 0 => vault[d].count \in held'
         /\ vault[d].clash # NoClash => vault[d].clash.count \in held'
         /\ f.base \in held'
    BY <1>11, <1>12, <1>13 DEF KnownAt
  <1>18. s.at \in {"recovered", "done"} /\ kind # "bitwarden" /\ vault[d].mark >= vault[d].mark
    BY <1>0, <1>1, <1>3, <1>6
  <1>19. /\ TypeOK' /\ Placed' /\ Turns' /\ Marked' /\ Grown' /\ Known' /\ Copies'
         /\ Prepared' /\ Rising' /\ DeliveredIsStored' /\ sync'[d] = s /\ Elsewhere(d)
    BY <1>0, <1>1, <1>4, <1>6, <1>7, <1>10, <1>12, <1>15, <1>16, <1>17, <1>18, GoesOnKeeps
  <1>20. CASE s.by # Poll /\ Staged(s.by) /\ ~s.rebased
    <2>0. PICK r \in Requests, n \in Counts : r = s.by /\ n = login[s.by].count
      BY <1>0, <1>14, <1>20, LoginFields DEF Staged
    <2>1. /\ sync[d].at = "put" /\ s.at = "done" /\ file[d].dirty /\ file[d].work = n
          /\ r \in Requests /\ At[r] = d
      BY <1>14, <1>20, <2>0
    <2>2. ~Stale(file[d])
      BY <1>5, <1>6, <1>20, <2>1 DEF WasRebased
    <2>3. /\ n = source.count + 1 /\ n \in Counts /\ held' = held \cup {n}
          /\ spent' = spent /\ regressed' = regressed
      BY <1>0, <1>8, <2>1, <2>2, PublishedCount DEF Stored
    <2>4. n # 0 /\ (~regressed => n \notin held)
      <3>1. source.count \in Nat
        BY <1>0, CountsAreNumbers DEF TypeOK, Seen
      <3>. QED BY <1>0, <2>3, <3>1 DEF Ind, Rising
    <2>5. \A q \in Requests \ {r} : (Spoken(q)' <=> Spoken(q)) /\ ~(Staged(q) /\ At[q] = d)
      <3>. SUFFICES ASSUME NEW q \in Requests \ {r}
                    PROVE  (Spoken(q)' <=> Spoken(q)) /\ ~(Staged(q) /\ At[q] = d)
        OBVIOUS
      <3>1. ~(Staged(q) /\ At[q] = d)
        BY <1>6, <2>0 DEF Ind, Turns, Staged
      <3>. QED BY <3>1, <1>7, <1>19, DevicesAssumption DEF Spoken, Signing, Reserved, Staged, Elsewhere
    <2>7. ASSUME NEW e \in Devices, NEW c \in Counts \ {0}, Claims(e, c)', ~(e = d /\ c = n)
          PROVE  Claims(e, c)
      <3>1. CASE c \in DeliveredBy(e)'
        BY <3>1, <1>7 DEF Claims, DeliveredBy
      <3>2. CASE \E q \in Requests : At[q] = e /\ Spoken(q)' /\ login'[q].count = c
        <4>1. PICK q \in Requests : At[q] = e /\ Spoken(q)' /\ login[q].count = c
          BY <3>2, <1>7
        <4>2. q # r
          BY <4>1, <2>0, <2>1, <2>7
        <4>. QED BY <4>1, <4>2, <2>5 DEF Claims, Spoken
      <3>. QED BY <2>7, <3>1, <3>2 DEF Claims, Spoken
    <2>8. ASSUME ~regressed, NEW e \in Devices
          PROVE  ~Claims(e, n)
      BY <1>0, <2>3, <2>4, <2>8 DEF Ind, Claimed
    <2>9. ASSUME ~regressed, NEW e \in Devices \ {d}
          PROVE  ~Claims(e, n)'
      BY <2>3, <2>4, <2>7, <2>8, <2>9
    <2>10. Claimed'
      <3>. SUFFICES ASSUME ~regressed, NEW e \in Devices, NEW c \in Counts \ {0}, Claims(e, c)'
                    PROVE  /\ c \in held' /\ c \notin spent'
                           /\ \A o \in Devices \ {e} : ~Claims(o, c)'
        BY <2>3 DEF Claimed
      <3>1. CASE c = n
        <4>1. e = d
          BY <3>1, <2>9
        <4>2. spent \subseteq held
          BY <1>0 DEF Ind, Known
        <4>. QED BY <3>1, <4>1, <4>2, <2>3, <2>4, <2>9
      <3>2. CASE c # n
        <4>1. Claims(e, c)
          BY <3>2, <2>7
        <4>2. c \in held /\ c \notin spent /\ \A o \in Devices \ {e} : ~Claims(o, c)
          BY <4>1, <1>0 DEF Ind, Claimed
        <4>. QED BY <3>2, <4>2, <2>3, <2>7
      <3>. QED BY <3>1, <3>2
    <2>. QED BY <1>19, <2>10 DEF Ind
  <1>21. CASE ~(s.by # Poll /\ Staged(s.by) /\ ~s.rebased)
    <2>1. Claimed'
      BY <1>0, <1>6, <1>7, <1>10, <1>19, <1>21, RunClaims
    <2>. QED BY <1>19, <2>1 DEF Ind
  <1>. QED BY <1>20, <1>21

(* What a merge leaves of the passkey.                                       *)
LEMMA MergedFacts ==
  ASSUME Ind, NEW d \in Devices, kind = "keepass", Has(d), sync[d].at \in {"recovered", "done"}
  PROVE  LET p == Merged(d, vault[d]) IN
         /\ p \in Passkey /\ p.mark >= vault[d].mark /\ (~p.queued => p.mark >= p.count)
         /\ ~p.queued \/ p.count = 0 => p.count \in held
         /\ p.clash # NoClash => p.clash.count \in held
         /\ p.base = NoBase \/ p.count = IF p.queued THEN p.base + 1 ELSE p.base
         /\ Clear(p) => p.count = p.base /\ p.base = file[d].work
  <1>. DEFINE q == vault[d]
              n == file[d].work
              got == [count |-> n, rev |-> file[d].etag]
              taken == Taken(q, n, n)
              clashed == [q EXCEPT !.clash = got]
              p == Merged(d, q)
  <1>1. /\ TypeOK /\ q \in Passkey /\ q.mark \in Nat /\ n \in Counts /\ n \in Nat
        /\ file[d].etag \in Revs /\ q.queued \in BOOLEAN
    BY Fields, CountsAreNumbers DEF Ind
  <1>2. CopyAt(d) /\ KnownAt(d) /\ n \in held
    BY DEF Ind, Copies, Known, KnownAt, CopyAt
  <1>3. got \in Seen /\ got.count = n
    BY <1>1 DEF Seen
  <1>4. p = taken \/ (q.queued /\ p = clashed)
    BY DEF Merged
  <1>5. /\ taken \in Passkey /\ taken.count = n /\ taken.base = n /\ ~taken.queued
        /\ taken.clash = NoClash /\ taken.mark >= q.mark /\ taken.mark >= n
    <2>. HIDE DEF n, q
    <2>. QED BY <1>1, TakenFacts, ZenonT(30)
  <1>. HIDE DEF got, n
  <1>6. /\ clashed \in Passkey /\ clashed.count = q.count /\ clashed.base = q.base
        /\ clashed.queued = q.queued /\ clashed.clash = got /\ clashed.mark = q.mark
    BY <1>1, <1>3, ClashFacts
  <1>7. got # NoClash
    BY <1>3 DEF Seen, NoClash
  <1>. HIDE DEF p, taken, clashed
  <1>8. CASE p = taken
    BY <1>8, <1>2, <1>5 DEF p, n
  <1>9. CASE q.queued /\ p = clashed
    BY <1>9, <1>1, <1>2, <1>3, <1>6, <1>7 DEF p, KnownAt, CopyAt, Clear
  <1>. QED BY <1>4, <1>8, <1>9

LEMMA MergeKeeps ==
  ASSUME Ind, NEW d \in Devices, Merge(d)
  PROVE  Ind'
  <1>. DEFINE p == Merged(d, vault[d])
  <1>0. TypeOK /\ Has(d) /\ kind = "keepass" /\ sync[d].at \in {"recovered", "done"}
    BY DEF Merge, Running, Has, Ind
  <1>1. /\ p \in Passkey /\ p.mark >= vault[d].mark /\ (~p.queued => p.mark >= p.count)
        /\ ~p.queued \/ p.count = 0 => p.count \in held
        /\ p.clash # NoClash => p.clash.count \in held
        /\ p.base = NoBase \/ p.count = IF p.queued THEN p.base + 1 ELSE p.base
        /\ Clear(p) => p.count = p.base /\ p.base = file[d].work
    BY <1>0, MergedFacts
  <1>2. vault' = [vault EXCEPT ![d] = p] /\ vault'[d] = p /\ receipt' = [receipt EXCEPT ![d] = 0]
    BY <1>0 DEF Merge, TypeOK
  <1>3. UNCHANGED <<kind, storeVars, file, late, signed, boundVars>>
    BY DEF Merge
  <1>. HIDE DEF p
  <1>4. CASE sync[d].at = "done"
    <2>1. Ended(d, p)
      BY <1>2, <1>4 DEF Merge, Running
    <2>. QED BY <1>0, <1>1, <1>2, <1>3, <1>4, <2>1, FixedFields, EndedKeeps
  <1>5. CASE sync[d].at = "recovered"
    <2>. DEFINE s == [Started(d, sync[d].by, sync[d].send) EXCEPT !.at = "read"]
    <2>1. sync' = [sync EXCEPT ![d] = s] /\ UNCHANGED <<lock, login>>
      BY <1>0, <1>5 DEF Merge, Running, Has, TypeOK
    <2>2. s \in Runs /\ s.by = sync[d].by /\ s.at = "read"
      BY <1>0, RunFields, FixedFields DEF Started, Runs
    <2>. HIDE DEF s
    <2>3. StoreMoves /\ UNCHANGED storeVars
      BY <1>3, StoreStays
    <2>4. file[d] \in Copy /\ CopyAt(d) /\ KnownAt(d) /\ ~file[d].dirty
      BY <1>0, <1>5, Fields DEF Ind, Copies, Known, CopyAt
    <2>5. s.by # Poll => ~Staged(s.by)
      <3>1. s.by # Poll => s.by \in Requests /\ At[s.by] = d
        BY <1>0, <2>2, RunFields DEF Ind, Turns
      <3>. QED BY <1>0, <1>5, <3>1 DEF Ind, Prepared, PreparedAt
    <2>6. /\ file' = [file EXCEPT ![d] = file[d]]
          /\ UNCHANGED <<kind, login, lock, late, signed, boundVars>>
      BY <1>0, <1>3, <2>1 DEF TypeOK
    <2>7. /\ file[d].work = IF file[d].dirty THEN file[d].base + 1 ELSE file[d].base
          /\ file[d].dirty => 0 = file[d].work
          /\ file[d].etag <= source'.rev /\ (file[d].etag = source'.rev => file[d].base = source'.count)
          /\ file[d].base \in held'
      BY <2>3, <2>4 DEF CopyAt, KnownAt, storeVars
    <2>8. /\ ~p.queued \/ p.count = 0 => p.count \in held'
          /\ p.clash # NoClash => p.clash.count \in held'
      BY <1>1, <2>3 DEF storeVars
    <2>9. s.at \notin {"recover", "recovered", "put", "done", "got"} /\ kind # "bitwarden"
      BY <1>0, <2>2
    <2>10. /\ TypeOK' /\ Placed' /\ Turns' /\ Marked' /\ Grown' /\ Known' /\ Copies'
           /\ Prepared' /\ Rising' /\ DeliveredIsStored' /\ sync'[d] = s /\ Elsewhere(d)
      BY <1>0, <1>1, <1>2, <2>1, <2>2, <2>3, <2>4, <2>5, <2>6, <2>7, <2>8, <2>9,
         FixedFields, GoesOnKeeps
    <2>11. Claimed'
      BY <1>0, <2>2, <2>3, <2>5, <2>6, <2>10, RunClaims
    <2>. QED BY <2>10, <2>11 DEF Ind
  <1>. QED BY <1>0, <1>4, <1>5

-----------------------------------------------------------------------------
(* A run that fails leaves everything but the store and the turn.            *)
LEMMA DropKeeps ==
  ASSUME Ind, NEW d \in Devices, Has(d), StoreMoves,
         sync' = [sync EXCEPT ![d] = NoSync], lock' = [lock EXCEPT ![d] = NoOne],
         login' = IF sync[d].by = Poll THEN login ELSE [login EXCEPT ![sync[d].by] = Over],
         UNCHANGED <<kind, vault, receipt, file, signed, logins, others, polls>>,
         faults' \in 0..MaxFaults, late' \subseteq Seen, late' # {} => kind = "bitwarden"
  PROVE  Ind'
  <1>0. TypeOK /\ kind # "local"
    BY DEF Ind, Placed
  <1>1. MarksGrow
    BY MarksStay
  <1>2. /\ SyncTyped' /\ Placed' /\ Turns' /\ Marked' /\ Grown' /\ ~Has(d)'
        /\ \A r \in Requests : At[r] # d => login'[r] = login[r]
        /\ \A r \in Requests : login'[r] # login[r] => r = sync[d].by /\ login'[r] = Over
        /\ \A r \in Requests : At[r] = d => ~Staged(r)'
    BY <1>1, FixedFields, Ends
  <1>3. TypeOK'
    <2>1. source' \in Seen /\ held' \subseteq Counts /\ spent' \subseteq Counts /\ regressed' \in BOOLEAN
      BY <1>0 DEF StoreMoves, TypeOK
    <2>. QED BY <1>0, <1>2, <2>1 DEF TypeOK, SyncTyped
  <1>4. Elsewhere(d)
    BY <1>0, <1>2 DEF Elsewhere, TypeOK
  <1>5. KnownAt(d)'
    BY <1>0, <1>2 DEF Ind, Known, KnownAt, StoreMoves
  <1>6. \A r \in Requests : At[r] = d /\ login'[r].at = "signs" => login'[r].count \in held'
    BY <1>0, <1>2, FixedFields DEF Ind, Known, Signing, StoreMoves
  <1>7. kind = "keepass" => CopyAt(d)'
    <2>. SUFFICES ASSUME kind = "keepass"
                  PROVE  CopyAt(d)'
      OBVIOUS
    <2>1. CopyAt(d) /\ file[d].etag \in Nat /\ source.rev \in Nat
      BY <1>0, Fields DEF Ind, Copies, TypeOK, Seen, Revs
    <2>2. file[d].etag <= source'.rev /\ (file[d].etag = source'.rev => file[d].base = source'.count)
      BY <2>1 DEF CopyAt, StoreMoves
    <2>. QED BY <1>2, <2>1, <2>2 DEF CopyAt
  <1>8. kind = "keepass" => \A r \in Requests : At[r] = d => PreparedAt(r)'
    <2>. SUFFICES ASSUME kind = "keepass", NEW r \in Requests, At[r] = d, login'[r].at = "fresh"
                  PROVE  PreparedAt(r)'
      BY <1>2 DEF PreparedAt
    <2>1. login'[r] = login[r]
      BY <1>2, FixedFields
    <2>2. lock[d] = r /\ sync[d].by = r /\ login[r].at = "fresh"
      BY <1>0, <2>1, RunFields DEF Ind, Turns
    <2>. QED BY <2>2, NamesAssumption DEF Ind, Turns
  <1>9. Known' /\ Copies' /\ Prepared' /\ Rising' /\ DeliveredIsStored'
    BY <1>4, <1>5, <1>6, <1>7, <1>8, StepAt
  <1>10. Claimed'
    <2>. SUFFICES ASSUME NEW r \in Requests, Spoken(r)', login'[r].count # 0
                  PROVE  Spoken(r) /\ login'[r].count = login[r].count
      BY ClaimsKept
    <2>1. CASE login'[r] = login[r]
      BY <2>1, <1>2, <1>4, DevicesAssumption DEF Spoken, Signing, Staged, Reserved, Elsewhere
    <2>2. CASE login'[r] = Over
      BY <2>2, FixedFields DEF Spoken, Signing, Staged, Reserved
    <2>. QED BY <1>2, <2>1, <2>2
  <1>. QED BY <1>2, <1>3, <1>9, <1>10 DEF Ind

LEMMA SyncFailsKeeps ==
  ASSUME Ind, NEW d \in Devices, SyncFails(d)
  PROVE  Ind'
  <1>1. Has(d) /\ StoreMoves
    BY StoreStays DEF SyncFails, Has
  <1>2. faults' \in 0..MaxFaults
    BY BoundsAssumption DEF Ind, TypeOK, SyncFails
  <1>3. late' \subseteq Seen /\ (late' # {} => kind = "bitwarden")
    <2>1. sync[d].put \in Seen
      BY <1>1, RunFields DEF Ind
    <2>. QED BY <2>1 DEF Ind, TypeOK, Placed, SyncFails
  <1>. QED BY <1>1, <1>2, <1>3, DropKeeps DEF SyncFails

LEMMA AnswerLostKeeps ==
  ASSUME Ind, NEW d \in Devices, AnswerLost(d)
  PROVE  Ind'
  <1>1. Has(d) /\ kind = "keepass" /\ kind' = kind
    BY DEF AnswerLost, Running, Has
  <1>2. StoreMoves
    BY <1>1, PublishedCount, StoreTakes DEF AnswerLost
  <1>3. faults' \in 0..MaxFaults
    BY BoundsAssumption DEF Ind, TypeOK, AnswerLost
  <1>4. late' \subseteq Seen /\ (late' # {} => kind = "bitwarden")
    BY DEF Ind, TypeOK, Placed, AnswerLost
  <1>. QED BY <1>1, <1>2, <1>3, <1>4, DropKeeps DEF AnswerLost

LEMMA CannotRebaseKeeps ==
  ASSUME Ind, NEW d \in Devices, CannotRebase(d)
  PROVE  Ind'
  <1>1. Has(d) /\ StoreMoves
    BY StoreStays DEF CannotRebase, Running, Has
  <1>2. /\ faults' \in 0..MaxFaults /\ late' \subseteq Seen /\ (late' # {} => kind = "bitwarden")
        /\ UNCHANGED <<kind, vault, receipt, file, signed, logins, others, polls>>
    BY DEF Ind, TypeOK, Placed, CannotRebase, boundVars
  <1>. QED BY <1>1, <1>2, DropKeeps DEF CannotRebase

-----------------------------------------------------------------------------
(* A conflict is decided while no run is under way.                          *)
LEMMA DecidedKeeps ==
  ASSUME Ind, NEW d \in Devices, NEW p \in Passkey, Decided(d, p),
         p.mark >= vault[d].mark, ~p.queued => p.mark >= p.count,
         ~p.queued \/ p.count = 0 => p.count \in held \/ kind = "local",
         p.clash = NoClash, kind = "keepass" => p.base = NoBase
  PROVE  Ind'
  <1>. DEFINE x == IF kind = "bitwarden" THEN 0 ELSE receipt[d]
  <1>0. TypeOK /\ ~Has(d) /\ vault[d].clash # NoClash
    BY DEF Ind, Decided, Has
  <1>1. /\ vault' = [vault EXCEPT ![d] = p] /\ receipt' = [receipt EXCEPT ![d] = x]
        /\ UNCHANGED <<kind, storeVars, file, lock, sync, late, login, signed, boundVars>>
    BY <1>0 DEF Decided, TypeOK
  <1>2. x \in Counts /\ p.mark \in Counts /\ (kind = "keepass" => x = receipt[d])
    BY <1>0, Fields, FixedFields DEF Passkey
  <1>. HIDE DEF x
  <1>3. /\ vault'[d] = p /\ (\A e \in Devices \ {d} : vault'[e] = vault[e])
        /\ receipt'[d] = x /\ (\A e \in Devices \ {d} : receipt'[e] = receipt[e])
    BY <1>0, <1>1 DEF TypeOK
  <1>4. TypeOK'
    <2>1. \A e \in Devices : ~vault'[e].queued => vault'[e].mark >= vault'[e].count
      BY <1>0, <1>3, Fields
    <2>. QED BY <1>0, <1>1, <1>2, <2>1 DEF TypeOK, storeVars, boundVars
  <1>5. Placed' /\ Turns'
    BY <1>1 DEF Ind, Placed, Turns, Has
  <1>6. Marked' /\ Grown'
    <2>1. \A e \in Devices : vault'[e].mark \in Nat /\ vault'[e].mark >= vault[e].mark
      BY <1>0, <1>2, <1>3, Fields, CountsAreNumbers
    <2>. QED BY <1>1, <2>1, NumbersKept DEF Ind, Follows
  <1>7. StoreMoves /\ Elsewhere(d)
    BY <1>1, <1>3, StoreStays DEF Elsewhere
  <1>8. kind # "local" => KnownAt(d)'
    <2>. SUFFICES ASSUME kind # "local"
                  PROVE  KnownAt(d)'
      OBVIOUS
    <2>1. KnownAt(d)
      BY DEF Ind, Known
    <2>. QED BY <2>1, <1>0, <1>1, <1>3 DEF KnownAt, storeVars, Has
  <1>9. kind # "local" => \A r \in Requests : At[r] = d /\ login'[r].at = "signs" =>
          login'[r].count \in held'
    BY <1>1 DEF Ind, Known, Signing, storeVars
  <1>10. kind = "keepass" => CopyAt(d)'
    <2>. SUFFICES ASSUME kind = "keepass"
                  PROVE  CopyAt(d)'
      OBVIOUS
    <2>1. CopyAt(d)
      BY DEF Ind, Copies
    <2>. QED BY <2>1, <1>0, <1>1, <1>2, <1>3 DEF CopyAt, storeVars, Has
  <1>11. kind = "keepass" => \A r \in Requests : At[r] = d => PreparedAt(r)'
    <2>. SUFFICES ASSUME kind = "keepass", NEW r \in Requests, At[r] = d
                  PROVE  login[r].at # "fresh" /\ ~Staged(r)
      BY <1>1 DEF PreparedAt, Staged
    <2>1. login[r].at # "fresh"
      BY <1>0 DEF Ind, Prepared, PreparedAt
    <2>2. ~Staged(r)
      BY <1>0 DEF Ind, Turns, Staged
    <2>. QED BY <2>1, <2>2
  <1>12. Known' /\ Copies' /\ Prepared' /\ Rising' /\ DeliveredIsStored'
    BY <1>1, <1>7, <1>8, <1>9, <1>10, <1>11, StepAt
  <1>13. Claimed'
    BY <1>1, <1>7, ClaimsKept DEF Spoken, Signing, Staged, Reserved
  <1>. QED BY <1>4, <1>5, <1>6, <1>12, <1>13 DEF Ind

LEMMA ConflictKeeps ==
  ASSUME Ind, NEW d \in Devices, UseRemote(d) \/ KeepLocal(d)
  PROVE  Ind'
  <1>. DEFINE q == vault[d]
              got == q.clash
              base == BaseOf(got)
              taken == Taken(q, got.count, base)
              kept == [q EXCEPT !.base = base, !.queued = TRUE, !.clash = NoClash]
  <1>1. /\ q \in Passkey /\ q.mark \in Nat /\ got # NoClash /\ got \in Seen
        /\ got.count \in Counts /\ got.rev \in Nat
    BY Fields, CountsAreNumbers DEF Ind, UseRemote, KeepLocal, Decided, Seen, Revs
  <1>2. base \in Nat /\ (kind = "keepass" => base = NoBase)
    BY <1>1, BoundsAssumption DEF BaseOf, NoBase
  <1>3. kind # "local" => KnownAt(d)
    BY DEF Ind, Known
  <1>4. got.count \in held \/ kind = "local"
    BY <1>1, <1>3 DEF KnownAt
  <1>. HIDE DEF base
  <1>5. CASE UseRemote(d)
    <2>1. Decided(d, taken)
      BY <1>5 DEF UseRemote, base
    <2>2. /\ taken \in Passkey /\ taken.count = got.count /\ taken.base = base /\ ~taken.queued
          /\ taken.clash = NoClash /\ taken.mark >= q.mark /\ taken.mark >= got.count
      <3>. HIDE DEF q, got
      <3>. QED BY <1>1, <1>2, TakenFacts, ZenonT(30)
    <2>. HIDE DEF taken
    <2>. QED BY <1>2, <1>4, <2>1, <2>2, DecidedKeeps
  <1>6. CASE KeepLocal(d)
    <2>1. Decided(d, kept)
      BY <1>6 DEF KeepLocal, base
    <2>2. /\ kept \in Passkey /\ kept.count = q.count /\ kept.base = base /\ kept.queued
          /\ kept.clash = NoClash /\ kept.mark = q.mark
      BY <1>1, <1>2 DEF Passkey
    <2>3. kept.count = 0 => kept.count \in held \/ kind = "local"
      BY <1>3, <2>2 DEF KnownAt
    <2>. HIDE DEF kept
    <2>4. kept.mark >= vault[d].mark
      BY <1>1, <2>2
    <2>. QED BY <1>2, <2>1, <2>2, <2>3, <2>4, DecidedKeeps
  <1>. QED BY <1>5, <1>6

-----------------------------------------------------------------------------
(* The source changes by itself.                                             *)
LEMMA SourceKeeps ==
  ASSUME Ind, kind # "local", UNCHANGED <<kind, vault, receipt, file, lock, sync, login, signed>>,
         source' \in Seen, held' \subseteq Counts, spent' \subseteq held', source'.count \in held',
         held \subseteq held', regressed' \in BOOLEAN,
         (source' = source \/ source'.rev = source.rev + 1),
         late' \subseteq Seen, late' # {} => kind = "bitwarden",
         logins' \in 0..MaxLogins, others' \in 0..MaxOthers, polls' \in 0..MaxPolls,
         faults' \in 0..MaxFaults
  PROVE  /\ TypeOK' /\ Placed' /\ Turns' /\ Marked' /\ Grown' /\ Known' /\ Copies'
         /\ Prepared' /\ DeliveredIsStored'
  <1>1. TypeOK'
    BY DEF Ind, TypeOK
  <1>2. Placed' /\ Turns' /\ Prepared'
    BY DEF Ind, Placed, Turns, Has, Prepared, PreparedAt, Staged
  <1>3. Marked' /\ Grown'
    <2>1. \A e \in Devices : vault'[e].mark \in Nat /\ vault'[e].mark >= vault[e].mark
      BY Fields, CountsAreNumbers DEF Ind
    <2>. QED BY <2>1, NumbersKept DEF Ind, Follows
  <1>4. Known'
    <2>1. \A d \in Devices : KnownAt(d)'
      BY DEF Ind, Known, KnownAt, Has
    <2>2. \A r \in Requests : login[r].at = "signs" => login[r].count \in held'
      BY DEF Ind, Known, Signing
    <2>. QED BY <2>1, <2>2 DEF Known, Signing
  <1>5. Copies'
    <2>. SUFFICES ASSUME kind = "keepass", NEW d \in Devices
                  PROVE  CopyAt(d)'
      BY DEF Copies
    <2>1. CopyAt(d) /\ file[d].etag \in Nat /\ source.rev \in Nat
      BY Fields DEF Ind, Copies, TypeOK, Seen, Revs
    <2>2. file[d].etag <= source'.rev /\ (file[d].etag = source'.rev => file[d].base = source'.count)
      BY <2>1 DEF CopyAt
    <2>. QED BY <2>1, <2>2 DEF CopyAt, Has
  <1>6. DeliveredIsStored'
    BY DEF Ind, DeliveredIsStored, DeliveredBy
  <1>. QED BY <1>1, <1>2, <1>3, <1>4, <1>5, <1>6

(* What is signed was stored, so another client that does not set the counter *)
(* back writes a count that nobody has signed with.                          *)
LEMMA OthersWriteKeeps ==
  ASSUME Ind, OthersWrite
  PROVE  Ind'
  <1>1. PICK n \in Counts \ {source.count} :
          /\ source' = [count |-> n, rev |-> source.rev + 1]
          /\ held' = held \cup {n} /\ spent' = spent \cup {n}
          /\ regressed' = (regressed \/ n < source.count)
    BY DEF OthersWrite
  <1>2. /\ kind # "local" /\ source.rev \in Nat \ {0} /\ source.count \in Nat /\ n \in Nat
        /\ held \subseteq Counts /\ spent \subseteq held
    BY CountsAreNumbers DEF Ind, TypeOK, Known, Seen, Revs, OthersWrite
  <1>3. source' \in Seen /\ source'.count = n /\ source'.rev = source.rev + 1
    BY <1>1, <1>2 DEF Seen, Revs
  <1>4. /\ UNCHANGED <<kind, vault, receipt, file, lock, sync, late, login, signed, logins, polls, faults>>
        /\ others' \in 0..MaxOthers
    BY BoundsAssumption DEF Ind, TypeOK, OthersWrite
  <1>5. regressed' \in BOOLEAN /\ held' \subseteq Counts /\ spent' \subseteq held' /\ held \subseteq held'
    BY <1>1, <1>2
  <1>6. late' \subseteq Seen /\ (late' # {} => kind = "bitwarden") /\ logins' \in 0..MaxLogins
        /\ polls' \in 0..MaxPolls /\ faults' \in 0..MaxFaults
    BY <1>4 DEF Ind, TypeOK, Placed
  <1>7. /\ TypeOK' /\ Placed' /\ Turns' /\ Marked' /\ Grown' /\ Known' /\ Copies'
        /\ Prepared' /\ DeliveredIsStored'
    BY <1>1, <1>2, <1>3, <1>4, <1>5, <1>6, SourceKeeps
  <1>8. kind = "keepass" /\ ~regressed' => \A c \in held : c < n
    <2>. SUFFICES ASSUME kind = "keepass", ~regressed', NEW c \in held
                  PROVE  c < n
      OBVIOUS
    <2>1. ~regressed /\ ~(n < source.count)
      BY <1>1
    <2>2. c <= source.count
      BY <2>1 DEF Ind, Rising
    <2>3. c \in Nat /\ n # source.count
      BY <1>1, <1>2, CountsAreNumbers
    <2>. QED BY <2>1, <2>2, <2>3, <1>2
  <1>9. Rising'
    <2>. SUFFICES ASSUME kind = "keepass", ~regressed', NEW c \in held'
                  PROVE  c <= n
      BY <1>3, <1>4 DEF Rising
    <2>. QED BY <1>1, <1>2, <1>8, CountsAreNumbers
  <1>10. Claimed'
    <2>. SUFFICES ASSUME kind = "keepass", ~regressed', NEW d \in Devices,
                         NEW c \in Counts \ {0}, Claims(d, c)'
                  PROVE  c \in held' /\ c \notin spent' /\ \A e \in Devices \ {d} : ~Claims(e, c)'
      BY <1>4 DEF Claimed
    <2>1. \A e \in Devices : Claims(e, c)' <=> Claims(e, c)
      BY <1>4 DEF Claims, Signing, Reserved, Staged, DeliveredBy
    <2>2. c \in held /\ c \notin spent /\ \A e \in Devices \ {d} : ~Claims(e, c)
      BY <1>1, <2>1 DEF Ind, Claimed
    <2>. QED BY <1>1, <1>2, <1>8, <2>1, <2>2
  <1>. QED BY <1>7, <1>9, <1>10 DEF Ind

LEMMA LateWriteKeeps ==
  ASSUME Ind, LateWrite
  PROVE  Ind'
  <1>1. PICK m \in late : /\ late' = late \ {m}
                          /\ IF m.rev = source.rev THEN Stored(m.count) ELSE UNCHANGED storeVars
    BY DEF LateWrite
  <1>2. /\ kind = "bitwarden" /\ m.count \in Counts
        /\ UNCHANGED <<kind, vault, receipt, file, lock, sync, login, signed, boundVars>>
    BY <1>1 DEF Ind, TypeOK, Placed, Seen, LateWrite
  <1>3. StoreMoves
    BY <1>1, <1>2, StoreStays, StoreTakes
  <1>4. /\ late' \subseteq Seen /\ (late' # {} => kind = "bitwarden") /\ logins' \in 0..MaxLogins
        /\ others' \in 0..MaxOthers /\ polls' \in 0..MaxPolls /\ faults' \in 0..MaxFaults
        /\ regressed' \in BOOLEAN
    BY <1>1, <1>2, <1>3 DEF Ind, TypeOK, boundVars, StoreMoves
  <1>5. /\ TypeOK' /\ Placed' /\ Turns' /\ Marked' /\ Grown' /\ Known' /\ Copies'
        /\ Prepared' /\ DeliveredIsStored'
    BY <1>2, <1>3, <1>4, SourceKeeps DEF StoreMoves
  <1>6. Rising' /\ Claimed'
    BY <1>2 DEF Rising, Claimed
  <1>. QED BY <1>5, <1>6 DEF Ind

-----------------------------------------------------------------------------
(* A run starts, for a poll or a login.                                      *)
LEMMA StartedFacts ==
  ASSUME Ind, NEW d \in Devices, NEW by \in Requests \cup {Poll}, NEW send \in BOOLEAN
  PROVE  LET s == Started(d, by, send) IN
         /\ s \in Runs /\ s.by = by /\ s.at \in {"recover", "read"} /\ ~s.rebased
         /\ s.at = "recover" => kind = "keepass"
         /\ kind = "keepass" /\ receipt[d] = 0 => s.at = "read"
         /\ kind = "keepass" /\ s.at = "read" => ~file[d].dirty
  <1>1. Started(d, by, send).at = "read" /\ kind = "keepass" => ~file[d].dirty
    <2>1. CASE kind = "keepass" /\ receipt[d] = 0
      <3>1. CopyAt(d) /\ file[d].base \in Nat
        BY <2>1, Fields, CountsAreNumbers DEF Ind, Copies
      <3>. QED BY <2>1, <3>1 DEF CopyAt
    <2>. QED BY <2>1 DEF Started
  <1>. QED BY <1>1, FixedFields DEF Started, Runs

StartsRun(d, by, s, w) ==
  /\ s.by = by /\ s.at \in {"recover", "read"} /\ (s.at = "recover" => kind = "keepass")
  /\ kind # "local" /\ ~Has(d) /\ lock[d] \in {NoOne, by}
  /\ sync' = [sync EXCEPT ![d] = s] /\ lock' = [lock EXCEPT ![d] = by]
  /\ UNCHANGED <<kind, late>> /\ w.at \in {"begun", "staged"}
  /\ login' = IF by = Poll THEN login ELSE [login EXCEPT ![by] = w]
  /\ by # Poll => At[by] = d

LEMMA Starts ==
  ASSUME Ind, NEW d \in Devices, NEW by \in Requests \cup {Poll}, NEW s \in Runs, NEW w \in Logins,
         StartsRun(d, by, s, w)
  PROVE  /\ SyncTyped' /\ Placed' /\ Turns' /\ sync'[d] = s
         /\ \A e \in Devices \ {d} : sync'[e] = sync[e]
         /\ \A r \in Requests : login'[r] = IF r = by THEN w ELSE login[r]
         /\ \A r \in Requests : At[r] = d => login[r].at \notin {"begun", "staged"}
         /\ \A r \in Requests \ {by} : At[r] = d => login[r].at # "fresh"
  <1>. USE DEF StartsRun
  <1>1. /\ sync'[d] = s /\ (\A e \in Devices \ {d} : sync'[e] = sync[e])
        /\ lock'[d] = by /\ (\A e \in Devices \ {d} : lock'[e] = lock[e])
    BY DEF Ind, TypeOK
  <1>2. \A r \in Requests : login'[r] = IF r = by THEN w ELSE login[r]
    <2>1. CASE by = Poll
      BY <2>1, NamesAssumption
    <2>2. CASE by # Poll
      BY <2>2 DEF Ind, TypeOK
    <2>. QED BY <2>1, <2>2
  <1>3. SyncTyped'
    <2>1. login' \in [Requests -> {Idle} \cup Logins]
      BY DEF Ind, TypeOK
    <2>2. sync' \in [Devices -> {NoSync} \cup Runs] /\ lock' \in [Devices -> {NoOne, Poll} \cup Requests]
      BY DEF Ind, TypeOK
    <2>. QED BY <1>1, <2>1, <2>2 DEF SyncTyped, Ind, TypeOK
  <1>4. Placed'
    BY <1>1 DEF Ind, Placed, Has
  <1>5. \A r \in Requests : At[r] = d => login[r].at \notin {"begun", "staged"}
    BY DEF Ind, Turns
  <1>6. \A r \in Requests \ {by} : At[r] = d => login[r].at # "fresh"
    BY NamesAssumption DEF Ind, Turns
  <1>7. s # NoSync
    BY RunIsReal
  <1>8. Turns'
    <2>1. ASSUME NEW r \in Requests, login'[r].at \in {"begun", "staged"}
          PROVE  Has(At[r])' /\ sync'[At[r]].by = r
      <3>1. CASE r = by
        BY <3>1, <1>1, <1>7, NamesAssumption DEF Has
      <3>2. CASE r # by
        BY <3>2, <2>1, <1>1, <1>2, <1>5, DevicesAssumption DEF Ind, Turns, Has
      <3>. QED BY <3>1, <3>2
    <2>2. ASSUME NEW r \in Requests, login'[r].at = "fresh"
          PROVE  lock'[At[r]] = r /\ kind # "local"
      <3>1. r # by /\ login[r].at = "fresh" /\ At[r] # d
        BY <2>2, <1>2, <1>6
      <3>. QED BY <3>1, <1>1, DevicesAssumption DEF Ind, Turns
    <2>3. ASSUME NEW e \in Devices, Has(e)', sync'[e].by # Poll
          PROVE  At[sync'[e].by] = e /\ login'[sync'[e].by].at \in {"begun", "staged"}
      <3>1. CASE e = d
        BY <3>1, <2>3, <1>1, <1>2
      <3>2. CASE e # d
        <4>1. Has(e) /\ sync'[e] = sync[e] /\ sync[e].by \in Requests
          BY <3>2, <2>3, <1>1, RunFields DEF Has, Ind
        <4>. QED BY <3>2, <4>1, <2>3, <1>1, <1>2 DEF Ind, Turns
      <3>. QED BY <3>1, <3>2
    <2>. QED BY <2>1, <2>2, <2>3 DEF Turns
  <1>. QED BY <1>1, <1>2, <1>3, <1>4, <1>5, <1>6, <1>8

(* A count that lies above the mark is new to the installation.              *)
LEMMA NumbersWith ==
  ASSUME Ind, NEW r \in Requests, NEW w \in Logins, login' = [login EXCEPT ![r] = w],
         signed' = signed, MarksGrow,
         w.at = "signs" =>
           /\ w.count <= vault'[At[r]].mark
           /\ w.count = 0 \/ vault[At[r]].mark < w.count
           /\ w.count = 0 \/ \A q \in Requests \ {r} : At[q] = At[r] => ~Staged(q),
         w.at = "staged" => vault[At[r]].mark < w.count
  PROVE  Marked' /\ Grown'
  <1>1. login'[r] = w /\ \A q \in Requests \ {r} : login'[q] = login[q]
    BY DEF Ind, TypeOK
  <1>2. /\ w.count \in Nat
        /\ \A q \in Requests : At[q] \in Devices /\ (login[q].at # "idle" => login[q].count \in Nat)
    BY LoginFields, CountsAreNumbers DEF Ind, Logins
  <1>3. \A d \in Devices : vault[d].mark \in Nat /\ vault'[d].mark \in Nat
                           /\ vault'[d].mark >= vault[d].mark
    BY Fields, CountsAreNumbers DEF Ind, MarksGrow
  <1>4. \A d \in Devices : \A i \in 1..Len(signed[d]) :
          signed[d][i] \in Nat /\ signed[d][i] <= vault[d].mark
    BY Fields, CountsAreNumbers DEF Ind, Grown
  <1>5. \A q \in Requests : Signing(q) => login[q].count \in Nat /\ login[q].count <= vault[At[q]].mark
    BY <1>2 DEF Ind, Marked, Signing
  <1>6. Marked'
    <2>. SUFFICES ASSUME NEW p \in Requests
                  PROVE  LET d == At[p]  c == login'[p].count IN
                    /\ login'[p].at = "signs" => c <= vault'[d].mark
                    /\ login'[p].at = "staged" =>
                         c > 0 /\ \A q \in Requests \ {p} :
                           At[q] = d /\ login'[q].at = "signs" => login'[q].count < c
                    /\ login'[p].at = "signs" /\ c > 0 => \A q \in Requests \ {p} :
                         At[q] = d /\ login'[q].at = "signs" => login'[q].count # c
      BY DEF Marked, Signing, Staged
    <2>1. CASE p = r
      BY <2>1, <1>1, <1>2, <1>3, <1>5 DEF Signing
    <2>2. CASE p # r
      <3>1. login'[p] = login[p]
        BY <2>2, <1>1
      <3>2. login[p].at = "signs" => login[p].count <= vault'[At[p]].mark
        BY <1>2, <1>3, <1>5 DEF Signing
      <3>3. ASSUME login[p].at = "staged", NEW q \in Requests \ {p}, At[q] = At[p], login'[q].at = "signs"
            PROVE  login'[q].count < login[p].count
        <4>1. CASE q = r
          <5>1. w.count = 0 /\ login[p].count > 0
            BY <2>2, <3>3, <4>1, <1>1 DEF Ind, Marked, Staged
          <5>. QED BY <4>1, <5>1, <1>1
        <4>2. CASE q # r
          BY <3>3, <4>2, <1>1 DEF Ind, Marked, Staged, Signing
        <4>. QED BY <4>1, <4>2
      <3>4. login[p].at = "staged" => login[p].count > 0
        BY DEF Ind, Marked, Staged
      <3>5. ASSUME login[p].at = "signs", login[p].count > 0, NEW q \in Requests \ {p},
                   At[q] = At[p], login'[q].at = "signs"
            PROVE  login'[q].count # login[p].count
        <4>1. CASE q = r
          BY <3>5, <4>1, <1>1, <1>2, <1>3, <1>5 DEF Signing
        <4>2. CASE q # r
          BY <3>5, <4>2, <1>1 DEF Ind, Marked, Signing
        <4>. QED BY <4>1, <4>2
      <3>. QED BY <3>1, <3>2, <3>3, <3>4, <3>5
    <2>. QED BY <2>1, <2>2
  <1>7. Grown'
    <2>. SUFFICES ASSUME NEW d \in Devices, NEW i \in 1..Len(signed[d])
                  PROVE  /\ signed[d][i] <= vault'[d].mark
                         /\ \A p \in Requests : At[p] = d =>
                              /\ login'[p].at = "staged" => signed[d][i] < login'[p].count
                              /\ login'[p].at = "signs" /\ login'[p].count > 0 =>
                                   signed[d][i] # login'[p].count
      BY DEF Grown, Signing, Staged
    <2>1. signed[d][i] <= vault'[d].mark
      BY <1>3, <1>4
    <2>2. ASSUME NEW p \in Requests, At[p] = d
          PROVE  /\ login'[p].at = "staged" => signed[d][i] < login'[p].count
                 /\ login'[p].at = "signs" /\ login'[p].count > 0 => signed[d][i] # login'[p].count
      <3>1. CASE p = r
        BY <2>2, <3>1, <1>1, <1>2, <1>3, <1>4
      <3>2. CASE p # r
        BY <2>2, <3>2, <1>1 DEF Ind, Grown, Signing, Staged
      <3>. QED BY <3>1, <3>2
    <2>. QED BY <2>1, <2>2
  <1>. QED BY <1>6, <1>7

LEMMA PollStartsKeeps ==
  ASSUME Ind, NEW d \in Devices, PollStarts(d)
  PROVE  Ind'
  <1>1. PICK send \in BOOLEAN : sync' = [sync EXCEPT ![d] = Started(d, Poll, send)]
    BY DEF PollStarts
  <1>. DEFINE s == Started(d, Poll, send)
  <1>2. /\ TypeOK /\ kind # "local" /\ lock[d] = NoOne /\ lock' = [lock EXCEPT ![d] = Poll]
        /\ UNCHANGED <<kind, storeVars, vault, receipt, file, late, login, signed, logins, others, faults>>
        /\ polls' \in 0..MaxPolls
    BY BoundsAssumption DEF PollStarts, Ind, TypeOK
  <1>3. ~Has(d)
    BY <1>2, RunFields, NamesAssumption DEF NoOne, Poll
  <1>4. /\ s \in Runs /\ s.by = Poll /\ s.at \in {"recover", "read"} /\ ~s.rebased
        /\ s.at = "recover" => kind = "keepass"
        /\ kind = "keepass" /\ s.at = "read" => ~file[d].dirty
    BY StartedFacts
  <1>5. sync' = [sync EXCEPT ![d] = s]
    BY <1>1
  <1>. HIDE DEF s
  <1>6. PICK w \in Logins : w.at \in {"begun", "staged"}
    <2>1. [at |-> "begun", count |-> 0, tries |-> 0] \in Logins
      BY FixedFields DEF Logins
    <2>. QED BY <2>1
  <1>7. /\ SyncTyped' /\ Placed' /\ Turns' /\ sync'[d] = s
        /\ \A e \in Devices \ {d} : sync'[e] = sync[e]
        /\ \A r \in Requests : At[r] = d => login[r].at \notin {"begun", "staged"}
        /\ \A r \in Requests \ {Poll} : At[r] = d => login[r].at # "fresh"
    <2>1. StartsRun(d, Poll, s, w)
      BY <1>2, <1>3, <1>4, <1>5, <1>6 DEF StartsRun
    <2>. QED BY <1>4, <1>6, <2>1, Starts
  <1>8. TypeOK'
    BY <1>2, <1>7 DEF TypeOK, SyncTyped, storeVars
  <1>9. Marked' /\ Grown'
    <2>1. MarksGrow
      BY <1>2, MarksStay
    <2>. QED BY <1>2, <2>1, NumbersKept DEF Ind, Follows, MarksGrow
  <1>10. StoreMoves /\ Elsewhere(d)
    BY <1>2, <1>7, StoreStays DEF Elsewhere
  <1>11. KnownAt(d)'
    <2>1. KnownAt(d)
      BY <1>2 DEF Ind, Known
    <2>. QED BY <2>1, <1>2, <1>4, <1>7 DEF KnownAt, storeVars
  <1>12. \A r \in Requests : At[r] = d /\ login'[r].at = "signs" => login'[r].count \in held'
    BY <1>2 DEF Ind, Known, Signing, storeVars
  <1>13. kind = "keepass" => CopyAt(d)'
    <2>. SUFFICES ASSUME kind = "keepass"
                  PROVE  CopyAt(d)'
      OBVIOUS
    <2>1. CopyAt(d)
      BY DEF Ind, Copies
    <2>. QED BY <2>1, <1>2, <1>4, <1>7 DEF CopyAt, storeVars
  <1>14. kind = "keepass" => \A r \in Requests : At[r] = d => PreparedAt(r)'
    BY <1>2, <1>7, NamesAssumption DEF PreparedAt, Staged
  <1>15. Known' /\ Copies' /\ Prepared' /\ Rising' /\ DeliveredIsStored'
    BY <1>2, <1>10, <1>11, <1>12, <1>13, <1>14, StepAt
  <1>16. Claimed'
    <2>. SUFFICES ASSUME NEW r \in Requests, Spoken(r)'
                  PROVE  Spoken(r)
      BY <1>2, <1>10, ClaimsKept
    <2>1. CASE At[r] = d
      BY <2>1, <1>2, <1>4, <1>7 DEF Spoken, Signing, Reserved, Staged
    <2>2. CASE At[r] # d
      BY <2>2, <1>2, <1>7, DevicesAssumption DEF Spoken, Signing, Reserved, Staged
    <2>. QED BY <2>1, <2>2
  <1>. QED BY <1>7, <1>8, <1>9, <1>15, <1>16 DEF Ind

-----------------------------------------------------------------------------
(* A login that has no run takes its last step or its last but one.          *)
LEMMA Signs ==
  ASSUME Ind, NEW r \in Requests, NEW w \in Logins, login' = [login EXCEPT ![r] = w],
         login[r].at \notin {"begun", "staged"}, w.at \in {"signs", "ended"},
         UNCHANGED <<kind, sync, late>>, lock' = lock \/ lock' = Freed(r)
  PROVE  /\ SyncTyped' /\ Placed' /\ Turns' /\ login'[r] = w
         /\ \A q \in Requests \ {r} : login'[q] = login[q]
  <1>. DEFINE d == At[r]
  <1>1. d \in Devices /\ login'[r] = w /\ \A q \in Requests \ {r} : login'[q] = login[q]
    BY DevicesAssumption DEF Ind, TypeOK
  <1>2. /\ lock' \in [Devices -> {NoOne, Poll} \cup Requests]
        /\ \A e \in Devices : lock'[e] = lock[e] \/ (e = d /\ lock[e] = r)
    BY <1>1 DEF Ind, TypeOK, Freed
  <1>3. Has(d) => sync[d].by # r
    BY <1>1, NamesAssumption DEF Ind, Turns
  <1>4. \A e \in Devices : Has(e) => lock'[e] = lock[e]
    BY <1>2, <1>3 DEF Ind, TypeOK, Has
  <1>5. SyncTyped'
    <2>1. login' \in [Requests -> {Idle} \cup Logins]
      BY DEF Ind, TypeOK
    <2>. QED BY <1>2, <1>4, <2>1 DEF SyncTyped, Ind, TypeOK, Has
  <1>6. Placed'
    BY DEF Ind, Placed, Has
  <1>7. Turns'
    <2>1. ASSUME NEW q \in Requests, login'[q].at \in {"begun", "staged"}
          PROVE  Has(At[q])' /\ sync'[At[q]].by = q
      BY <2>1, <1>1 DEF Ind, Turns, Has
    <2>2. ASSUME NEW q \in Requests, login'[q].at = "fresh"
          PROVE  lock'[At[q]] = q /\ kind # "local"
      BY <2>2, <1>1, <1>2, DevicesAssumption DEF Ind, Turns
    <2>3. ASSUME NEW e \in Devices, Has(e)', sync'[e].by # Poll
          PROVE  At[sync'[e].by] = e /\ login'[sync'[e].by].at \in {"begun", "staged"}
      <3>1. Has(e) /\ sync'[e] = sync[e] /\ sync[e].by \in Requests
        BY <2>3, RunFields DEF Has, Ind
      <3>2. At[sync[e].by] = e /\ login[sync[e].by].at \in {"begun", "staged"}
        BY <3>1, <2>3 DEF Ind, Turns
      <3>. QED BY <3>1, <3>2, <1>1
    <2>. QED BY <2>1, <2>2, <2>3 DEF Turns
  <1>. QED BY <1>1, <1>5, <1>6, <1>7

(* A step that changes one login and no passkey.                             *)
LEMMA LoginSteps ==
  ASSUME Ind, NEW r \in Requests, NEW w \in Logins, login' = [login EXCEPT ![r] = w],
         login[r].at \notin {"begun", "staged"}, w.at \in {"signs", "ended"},
         UNCHANGED <<kind, storeVars, vault, receipt, file, sync, late, signed, others, polls, faults>>,
         lock' = lock \/ lock' = Freed(r), logins' \in 0..MaxLogins,
         w.at = "signs" => w.count = 0 /\ vault[At[r]].count = 0
  PROVE  Ind'
  <1>. DEFINE d == At[r]
  <1>0. TypeOK /\ d \in Devices
    BY DevicesAssumption DEF Ind
  <1>1. /\ SyncTyped' /\ Placed' /\ Turns' /\ login'[r] = w
        /\ \A q \in Requests \ {r} : login'[q] = login[q]
    BY Signs
  <1>2. TypeOK'
    BY <1>0, <1>1 DEF TypeOK, SyncTyped, storeVars
  <1>3. MarksGrow
    BY MarksStay
  <1>4. vault'[d].mark \in Nat
    BY <1>0, <1>3 DEF MarksGrow
  <1>5. Marked' /\ Grown'
    <2>1. w.at = "signs" => w.count <= vault'[d].mark
      BY <1>4
    <2>. QED BY <1>3, <2>1, NumbersWith
  <1>6. StoreMoves /\ Elsewhere(d)
    BY <1>1, StoreStays DEF Elsewhere
  <1>7. kind # "local" => KnownAt(d)'
    <2>. SUFFICES ASSUME kind # "local"
                  PROVE  KnownAt(d)'
      OBVIOUS
    <2>1. KnownAt(d)
      BY <1>0 DEF Ind, Known
    <2>. QED BY <2>1 DEF KnownAt, storeVars, Has
  <1>8. kind # "local" => \A q \in Requests : At[q] = d /\ login'[q].at = "signs" =>
          login'[q].count \in held'
    <2>. SUFFICES ASSUME kind # "local", NEW q \in Requests, login'[q].at = "signs"
                  PROVE  login'[q].count \in held
      BY DEF storeVars
    <2>1. CASE q = r
      BY <2>1, <1>0, <1>1 DEF Ind, Known, KnownAt
    <2>2. CASE q # r
      BY <2>2, <1>1 DEF Ind, Known, Signing
    <2>. QED BY <2>1, <2>2
  <1>9. kind = "keepass" => CopyAt(d)'
    <2>. SUFFICES ASSUME kind = "keepass"
                  PROVE  CopyAt(d)'
      OBVIOUS
    <2>1. CopyAt(d)
      BY <1>0 DEF Ind, Copies
    <2>. QED BY <2>1 DEF CopyAt, storeVars, Has
  <1>10. kind = "keepass" => \A q \in Requests : At[q] = d => PreparedAt(q)'
    <2>. SUFFICES ASSUME kind = "keepass", NEW q \in Requests
                  PROVE  PreparedAt(q)'
      OBVIOUS
    <2>1. CASE q = r
      BY <2>1, <1>1 DEF PreparedAt, Staged
    <2>2. CASE q # r
      <3>1. PreparedAt(q)
        BY DEF Ind, Prepared
      <3>. QED BY <2>2, <3>1, <1>1 DEF PreparedAt, Staged
    <2>. QED BY <2>1, <2>2
  <1>11. Known' /\ Copies' /\ Prepared' /\ Rising' /\ DeliveredIsStored'
    BY <1>0, <1>6, <1>7, <1>8, <1>9, <1>10, StepAt
  <1>12. Claimed'
    <2>. SUFFICES ASSUME NEW q \in Requests, Spoken(q)', login'[q].count # 0
                  PROVE  Spoken(q) /\ login'[q].count = login[q].count
      BY <1>6, ClaimsKept
    <2>1. q # r
      BY <1>1 DEF Spoken, Signing, Reserved, Staged
    <2>. QED BY <2>1, <1>1 DEF Spoken, Signing, Reserved, Staged
  <1>. QED BY <1>1, <1>2, <1>5, <1>11, <1>12 DEF Ind

LEMMA AbandonKeeps ==
  ASSUME Ind, NEW r \in Requests, Abandon(r)
  PROVE  Ind'
  <1>1. /\ login' = [login EXCEPT ![r] = Over] /\ login[r].at \notin {"begun", "staged"}
        /\ UNCHANGED <<kind, storeVars, vault, receipt, file, sync, late, signed, others, polls, faults>>
        /\ lock' = Freed(r) /\ logins' \in 0..MaxLogins
    BY DEF Abandon, boundVars, Ind, TypeOK
  <1>. QED BY <1>1, FixedFields, LoginSteps

(* An assertion is delivered: its count is larger than all before, and known. *)
LEMMA DeliverKeeps ==
  ASSUME Ind, NEW r \in Requests, Deliver(r)
  PROVE  Ind'
  <1>0. PICK d \in Devices, n \in Counts : d = At[r] /\ n = login[r].count
    BY LoginFields DEF Ind, Deliver
  <1>1. /\ Signing(r) /\ n = vault[d].count /\ n >= vault[d].mark
        /\ login' = [login EXCEPT ![r] = Over] /\ lock' = Freed(r)
        /\ signed' = [signed EXCEPT ![d] = Append(@, n)]
        /\ UNCHANGED <<kind, storeVars, vault, receipt, file, sync, late, boundVars>>
    BY <1>0 DEF Deliver, Signing, StillCurrent, NotRegressed
  <1>2. /\ SyncTyped' /\ Placed' /\ Turns' /\ login'[r] = Over
        /\ \A q \in Requests \ {r} : login'[q] = login[q]
    BY <1>1, FixedFields, Signs DEF Signing
  <1>3. /\ signed[d] \in Seq(Counts) /\ n \in Nat /\ Len(signed[d]) \in Nat
        /\ \A e \in Devices : signed'[e] = IF e = d THEN Append(signed[d], n) ELSE signed[e]
    BY <1>1, Fields, CountsAreNumbers DEF Ind, TypeOK
  <1>4. /\ signed'[d] \in Seq(Counts) /\ Len(signed'[d]) = Len(signed[d]) + 1
        /\ \A i \in 1..Len(signed'[d]) :
             signed'[d][i] = IF i <= Len(signed[d]) THEN signed[d][i] ELSE n
    <2>. DEFINE was == signed[d]
    <2>1. was \in Seq(Counts) /\ signed'[d] = Append(was, n)
      BY <1>3
    <2>. HIDE DEF was
    <2>2. /\ Append(was, n) \in Seq(Counts) /\ Len(Append(was, n)) = Len(was) + 1
          /\ \A i \in 1..Len(was) + 1 :
               Append(was, n)[i] = IF i <= Len(was) THEN was[i] ELSE n
      BY <2>1
    <2>. QED BY <2>1, <2>2 DEF was
  <1>5. TypeOK'
    <2>1. signed' \in [Devices -> Seq(Counts)]
      BY <1>1, <1>3, <1>4 DEF Ind, TypeOK
    <2>. QED BY <1>1, <1>2, <2>1 DEF Ind, TypeOK, SyncTyped, storeVars, boundVars
  <1>6. \A q \in Requests : At[q] \in Devices /\ (login[q].at # "idle" => login[q].count \in Nat)
    BY LoginFields, CountsAreNumbers DEF Ind
  <1>7. Marked'
    BY <1>1, <1>2, FixedFields DEF Ind, Marked, Signing, Staged
  <1>8. Grown'
    <2>. SUFFICES ASSUME NEW e \in Devices, NEW i \in 1..Len(signed'[e])
                  PROVE  /\ signed'[e][i] <= vault[e].mark
                         /\ \A q \in Requests : At[q] = e =>
                              /\ login'[q].at = "staged" => signed'[e][i] < login'[q].count
                              /\ login'[q].at = "signs" /\ login'[q].count > 0 =>
                                   signed'[e][i] # login'[q].count
      BY <1>1 DEF Grown, Signing, Staged
    <2>1. CASE e = d /\ i = Len(signed[d]) + 1
      <3>1. signed'[e][i] = n /\ n <= vault[d].mark
        <4>1. ~(i <= Len(signed[d])) /\ i \in 1..Len(signed'[d])
          BY <2>1, <1>3, <1>4
        <4>2. login[r].count <= vault[At[r]].mark
          BY <1>1 DEF Ind, Marked
        <4>. QED BY <2>1, <4>1, <4>2, <1>0, <1>4
      <3>2. ASSUME NEW q \in Requests, At[q] = d
            PROVE  /\ login'[q].at = "staged" => n < login'[q].count
                   /\ login'[q].at = "signs" /\ login'[q].count > 0 => n # login'[q].count
        <4>1. CASE q = r
          BY <4>1, <1>2, FixedFields
        <4>2. CASE q # r
          <5>1. login'[q] = login[q] /\ r \in Requests \ {q} /\ q \in Requests \ {r} /\ At[q] = At[r]
            BY <4>2, <3>2, <1>0, <1>2
          <5>2. Staged(q) => login[r].count < login[q].count
            BY <5>1, <1>1 DEF Ind, Marked
          <5>3. Signing(q) /\ login[q].count > 0 => login[r].count # login[q].count
            BY <5>1, <1>1 DEF Ind, Marked
          <5>. QED BY <5>1, <5>2, <5>3, <1>0 DEF Signing, Staged
        <4>. QED BY <4>1, <4>2
      <3>. QED BY <2>1, <3>1, <3>2
    <2>2. CASE ~(e = d /\ i = Len(signed[d]) + 1)
      <3>1. i \in 1..Len(signed[e]) /\ signed'[e][i] = signed[e][i]
        BY <2>2, <1>3, <1>4
      <3>. QED BY <3>1, <1>2, FixedFields DEF Ind, Grown, Signing, Staged
    <2>. QED BY <2>1, <2>2
  <1>9. Known'
    <2>1. kind # "local" => \A e \in Devices : KnownAt(e)'
      BY <1>1 DEF Ind, Known, KnownAt, storeVars, Has
    <2>2. kind # "local" => \A q \in Requests : login'[q].at = "signs" => login'[q].count \in held
      BY <1>2, FixedFields DEF Ind, Known, Signing
    <2>. QED BY <1>1, <2>1, <2>2 DEF Ind, Known, Signing, storeVars
  <1>10. Copies'
    BY <1>1 DEF Ind, Copies, CopyAt, storeVars, Has
  <1>11. Prepared'
    BY <1>1, <1>2, FixedFields DEF Ind, Prepared, PreparedAt, Staged
  <1>12. Rising'
    BY <1>1 DEF Ind, Rising, storeVars
  <1>13. \A e \in Devices : \A c : c \in DeliveredBy(e)' =>
           c \in DeliveredBy(e) \/ (e = d /\ c = n)
    <2>. SUFFICES ASSUME NEW e \in Devices, NEW i \in 1..Len(signed'[e])
                  PROVE  signed'[e][i] \in DeliveredBy(e) \/ (e = d /\ signed'[e][i] = n)
      BY DEF DeliveredBy
    <2>. QED BY <1>3, <1>4 DEF DeliveredBy
  <1>14. DeliveredIsStored'
    <2>1. kind # "local" => n \in held
      BY <1>0, <1>1 DEF Ind, Known, Signing
    <2>. QED BY <1>1, <1>13, <2>1 DEF Ind, DeliveredIsStored, storeVars
  <1>15. Claimed'
    <2>1. ASSUME NEW e \in Devices, NEW c \in Counts \ {0}, Claims(e, c)'
          PROVE  Claims(e, c)
      <3>1. CASE c \in DeliveredBy(e)'
        <4>1. CASE c \in DeliveredBy(e)
          BY <4>1 DEF Claims
        <4>2. CASE e = d /\ c = n
          BY <4>2, <1>0, <1>1 DEF Claims
        <4>. QED BY <3>1, <4>1, <4>2, <1>13
      <3>2. CASE \E q \in Requests : At[q] = e /\ Spoken(q)' /\ login'[q].count = c
        <4>1. PICK q \in Requests : At[q] = e /\ Spoken(q)' /\ login'[q].count = c
          BY <3>2
        <4>2. q # r
          BY <4>1, <1>2, FixedFields DEF Spoken, Signing, Reserved, Staged
        <4>3. Spoken(q) /\ login[q].count = c
          BY <4>1, <4>2, <1>1, <1>2 DEF Spoken, Signing, Reserved, Staged
        <4>. QED BY <4>1, <4>3 DEF Claims, Spoken
      <3>. QED BY <2>1, <3>1, <3>2 DEF Claims, Spoken
    <2>. SUFFICES ASSUME kind = "keepass", ~regressed, NEW e \in Devices, NEW c \in Counts \ {0},
                         Claims(e, c)'
                  PROVE  c \in held /\ c \notin spent /\ \A o \in Devices \ {e} : ~Claims(o, c)'
      BY <1>1 DEF Claimed, storeVars
    <2>2. c \in held /\ c \notin spent /\ \A o \in Devices \ {e} : ~Claims(o, c)
      BY <2>1 DEF Ind, Claimed
    <2>. QED BY <2>1, <2>2
  <1>. QED BY <1>2, <1>5, <1>7, <1>8, <1>9, <1>10, <1>11, <1>12, <1>14, <1>15 DEF Ind

-----------------------------------------------------------------------------
(* A login starts a run, and has perhaps reserved the next count for it.     *)
LEMMA RunStarts ==
  ASSUME Ind, NEW r \in Requests, NEW d \in Devices, d = At[r], NEW s \in Runs, NEW w \in Logins,
         NEW p \in Passkey, StartsRun(d, r, s, w), ~s.rebased, vault' = [vault EXCEPT ![d] = p],
         UNCHANGED <<storeVars, receipt, file, signed, others, polls, faults>>,
         logins' \in 0..MaxLogins,
         p.mark >= vault[d].mark, ~p.queued => p.mark >= p.count,
         ~p.queued \/ p.count = 0 => p.count \in held,
         p.clash # NoClash => p.clash.count \in held,
         w.at = "staged" => vault[d].mark < w.count,
         kind = "keepass" =>
           /\ p.base = NoBase \/ p.count = IF p.queued THEN p.base + 1 ELSE p.base
           /\ s.at = "read" => ~file[d].dirty
           /\ w.at = "staged" =>
                /\ s.at = "read" /\ p.queued
                /\ p.count = w.count /\ p.count = p.base + 1 /\ p.base = file[d].work
  PROVE  Ind'
  <1>0. TypeOK /\ kind # "local" /\ kind' = kind /\ late' = late /\ w.at \in {"begun", "staged"}
        /\ login' = [login EXCEPT ![r] = w] /\ s.at \in {"recover", "read"}
    BY NamesAssumption DEF Ind, StartsRun
  <1>1. /\ SyncTyped' /\ Placed' /\ Turns' /\ sync'[d] = s
        /\ \A e \in Devices \ {d} : sync'[e] = sync[e]
        /\ \A q \in Requests : login'[q] = IF q = r THEN w ELSE login[q]
        /\ \A q \in Requests : At[q] = d => login[q].at \notin {"begun", "staged"}
        /\ \A q \in Requests \ {r} : At[q] = d => login[q].at # "fresh"
    BY Starts
  <1>2. vault'[d] = p /\ \A e \in Devices \ {d} : vault'[e] = vault[e]
    BY <1>0 DEF TypeOK
  <1>3. p.mark \in Counts
    BY DEF Passkey
  <1>4. MarksGrow
    BY <1>0, <1>2, <1>3, Fields, CountsAreNumbers DEF MarksGrow
  <1>5. TypeOK'
    <2>1. \A e \in Devices : ~vault'[e].queued => vault'[e].mark >= vault'[e].count
      BY <1>0, <1>2, Fields
    <2>. QED BY <1>0, <1>1, <2>1 DEF TypeOK, SyncTyped, storeVars
  <1>6. Marked' /\ Grown'
    BY <1>0, <1>4, NumbersWith
  <1>7. StoreMoves /\ Elsewhere(d)
    BY <1>0, <1>1, <1>2, StoreStays DEF Elsewhere
  <1>8. KnownAt(d)'
    <2>1. KnownAt(d)
      BY <1>0 DEF Ind, Known
    <2>. QED BY <2>1, <1>0, <1>1, <1>2 DEF KnownAt, storeVars
  <1>9. \A q \in Requests : At[q] = d /\ login'[q].at = "signs" => login'[q].count \in held'
    BY <1>0, <1>1 DEF Ind, Known, Signing, storeVars
  <1>10. kind = "keepass" => CopyAt(d)'
    <2>. SUFFICES ASSUME kind = "keepass"
                  PROVE  CopyAt(d)'
      OBVIOUS
    <2>1. CopyAt(d)
      BY DEF Ind, Copies
    <2>. QED BY <2>1, <1>0, <1>1, <1>2 DEF CopyAt, storeVars
  <1>11. kind = "keepass" => \A q \in Requests : At[q] = d => PreparedAt(q)'
    <2>. SUFFICES ASSUME kind = "keepass", NEW q \in Requests, At[q] = d
                  PROVE  PreparedAt(q)'
      OBVIOUS
    <2>1. CASE q = r
      BY <2>1, <1>0, <1>1, <1>2 DEF PreparedAt, Staged
    <2>2. CASE q # r
      BY <2>2, <1>1 DEF PreparedAt, Staged
    <2>. QED BY <2>1, <2>2
  <1>12. Known' /\ Copies' /\ Prepared' /\ Rising' /\ DeliveredIsStored'
    BY <1>0, <1>7, <1>8, <1>9, <1>10, <1>11, StepAt
  <1>13. Claimed'
    <2>. SUFFICES ASSUME NEW q \in Requests, Spoken(q)'
                  PROVE  Spoken(q) /\ login'[q].count = login[q].count
      BY <1>0, <1>7, ClaimsKept
    <2>1. CASE At[q] = d
      BY <2>1, <1>0, <1>1 DEF Spoken, Signing, Reserved, Staged
    <2>2. CASE At[q] # d
      BY <2>2, <1>1, DevicesAssumption DEF Spoken, Signing, Reserved, Staged
    <2>. QED BY <2>1, <2>2
  <1>. QED BY <1>1, <1>5, <1>6, <1>12, <1>13 DEF Ind

LEMMA BeginKeeps ==
  ASSUME Ind, NEW r \in Requests, Begin(r)
  PROVE  Ind'
  <1>0. PICK d \in Devices, n \in Counts : d = At[r] /\ n = vault[d].count
    BY DevicesAssumption, Fields DEF Ind
  <1>1. /\ login[r] = Idle /\ logins' \in 0..MaxLogins
        /\ UNCHANGED <<kind, storeVars, vault, receipt, file, late, signed, others, polls, faults>>
    BY BoundsAssumption DEF Begin, Ind, TypeOK
  <1>2. CASE n = 0
    <2>. DEFINE w == [at |-> "signs", count |-> n, tries |-> 0]
    <2>1. login' = [login EXCEPT ![r] = w] /\ UNCHANGED <<lock, sync>>
      BY <1>0, <1>2 DEF Begin, Asked
    <2>2. w \in Logins /\ w.at = "signs" /\ w.count = n
      BY DEF Logins
    <2>. HIDE DEF w
    <2>3. login[r].at = "idle"
      BY <1>1 DEF Idle
    <2>4. login[r].at \notin {"begun", "staged"} /\ w.at \in {"signs", "ended"}
      BY <2>2, <2>3
    <2>5. w.at = "signs" => w.count = 0 /\ vault[At[r]].count = 0
      BY <1>0, <1>2, <2>2
    <2>6. lock' = lock /\ login' = [login EXCEPT ![r] = w]
          /\ UNCHANGED <<kind, storeVars, vault, receipt, file, sync, late, signed, others, polls, faults>>
      BY <1>1, <2>1
    <2>. QED BY <1>1, <2>2, <2>4, <2>5, <2>6, LoginSteps
  <1>3. CASE n # 0
    <2>. DEFINE w == [at |-> "begun", count |-> n, tries |-> 0]
                s == Started(d, r, vault[d].queued)
    <2>1. /\ kind # "local" /\ lock[d] = NoOne /\ lock' = [lock EXCEPT ![d] = r]
          /\ sync' = [sync EXCEPT ![d] = s] /\ login' = [login EXCEPT ![r] = w]
      BY <1>0, <1>3 DEF Begin, Asked
    <2>2. w \in Logins /\ w.at = "begun"
      BY DEF Logins
    <2>3. vault[d].queued \in BOOLEAN /\ vault[d] \in Passkey /\ vault[d].mark \in Nat
          /\ (~vault[d].queued => vault[d].mark >= vault[d].count)
      BY Fields, CountsAreNumbers DEF Ind
    <2>4. /\ s \in Runs /\ s.by = r /\ s.at \in {"recover", "read"} /\ ~s.rebased
          /\ s.at = "recover" => kind = "keepass"
          /\ kind = "keepass" /\ s.at = "read" => ~file[d].dirty
      BY <2>3, StartedFacts
    <2>. HIDE DEF s, w
    <2>5. ~Has(d)
      BY <2>1, RunFields, NamesAssumption DEF NoOne, Poll, Ind
    <2>6. StartsRun(d, r, s, w)
      BY <1>0, <1>1, <2>1, <2>2, <2>4, <2>5, NamesAssumption DEF StartsRun
    <2>7. KnownAt(d) /\ (kind = "keepass" => CopyAt(d))
      BY <2>1 DEF Ind, Known, Copies
    <2>8. /\ vault' = [vault EXCEPT ![d] = vault[d]] /\ vault[d].mark >= vault[d].mark
          /\ ~vault[d].queued \/ vault[d].count = 0 => vault[d].count \in held
          /\ vault[d].clash # NoClash => vault[d].clash.count \in held
      BY <1>1, <2>3, <2>7 DEF Ind, TypeOK, KnownAt
    <2>9. kind = "keepass" =>
            vault[d].base = NoBase \/ vault[d].count = IF vault[d].queued THEN vault[d].base + 1 ELSE vault[d].base
      BY <2>7 DEF CopyAt
    <2>. QED BY <1>0, <1>1, <2>2, <2>3, <2>4, <2>6, <2>8, <2>9, RunStarts
  <1>. QED BY <1>2, <1>3

LEMMA ReserveKeeps ==
  ASSUME Ind, NEW r \in Requests, Reserve(r)
  PROVE  Ind'
  <1>0. PICK d \in Devices : d = At[r]
    BY DevicesAssumption
  <1>. DEFINE q == vault[d]
              n == q.count + 1
              p == [q EXCEPT !.count = n, !.mark = Larger(q.mark, q.count), !.queued = TRUE]
              w == [at |-> "staged", count |-> n, tries |-> login[r].tries + 1]
              s == Started(d, r, TRUE)
  <1>1. /\ login[r].at = "fresh" /\ login[r] # Idle /\ q.count < MaxCount /\ q.count >= q.mark
        /\ lock[d] = r /\ kind # "local"
        /\ UNCHANGED <<kind, storeVars, receipt, file, lock, late, signed, boundVars>>
    BY <1>0 DEF Reserve, MayAdvance, NotRegressed, Ind, Turns
  <1>2. /\ q \in Passkey /\ q.count \in Nat /\ q.mark \in Nat /\ q.base \in Nat /\ q.mark \in Counts
        /\ q.count \in Counts /\ login[r].tries \in Nat /\ q.clash \in {NoClash} \cup Seen
    BY <1>1, Fields, LoginFields, CountsAreNumbers DEF Ind
  <1>3. n \in Counts /\ n \in Nat /\ n # 0 /\ n > q.mark
    BY <1>1, <1>2, BoundsAssumption DEF Counts
  <1>4. Larger(q.mark, q.count) \in Counts /\ Larger(q.mark, q.count) >= q.mark
    BY <1>2 DEF Larger
  <1>5. /\ vault' = [vault EXCEPT ![d] = p] /\ login' = [login EXCEPT ![r] = w]
        /\ sync' = [sync EXCEPT ![d] = s]
    BY <1>0 DEF Reserve, Ind, TypeOK
  <1>6. /\ s \in Runs /\ s.by = r /\ s.at \in {"recover", "read"} /\ ~s.rebased
        /\ s.at = "recover" => kind = "keepass"
        /\ kind = "keepass" /\ receipt[d] = 0 => s.at = "read"
        /\ kind = "keepass" /\ s.at = "read" => ~file[d].dirty
    BY StartedFacts
  <1>. HIDE DEF s, n
  <1>7. /\ p \in Passkey /\ p.count = n /\ p.queued /\ p.mark >= q.mark /\ p.base = q.base
        /\ p.clash = q.clash
    BY <1>2, <1>3, <1>4 DEF Passkey
  <1>8. w \in Logins /\ w.at = "staged" /\ w.count = n
    BY <1>2, <1>3 DEF Logins
  <1>. HIDE DEF p, w
  <1>9. ~Has(d)
    BY <1>0, <1>1, RunFields, NamesAssumption DEF Ind, Turns
  <1>10. StartsRun(d, r, s, w)
    <2>1. lock' = [lock EXCEPT ![d] = r] /\ lock[d] \in {NoOne, r}
      BY <1>1 DEF Ind, TypeOK
    <2>. QED BY <1>0, <1>1, <1>5, <1>6, <1>8, <1>9, <2>1, NamesAssumption DEF StartsRun
  <1>11. p.clash # NoClash => p.clash.count \in held
    BY <1>1, <1>7 DEF Ind, Known, KnownAt
  <1>12. kind = "keepass" =>
           s.at = "read" /\ p.queued /\ p.count = w.count /\ p.count = p.base + 1 /\ p.base = file[d].work
    <2>. SUFFICES ASSUME kind = "keepass"
                  PROVE  s.at = "read" /\ p.count = w.count /\ p.count = p.base + 1 /\ p.base = file[d].work
      BY <1>7
    <2>1. receipt[d] = 0 /\ q.count = q.base /\ q.base = file[d].work
      BY <1>0, <1>1 DEF Ind, Prepared, PreparedAt
    <2>. QED BY <2>1, <1>6, <1>7, <1>8 DEF n
  <1>13. logins' \in 0..MaxLogins /\ UNCHANGED <<storeVars, receipt, file, signed, others, polls, faults>>
    BY <1>1 DEF Ind, TypeOK, boundVars
  <1>14. vault[d].mark < w.count /\ p.mark >= vault[d].mark
    BY <1>2, <1>3, <1>7, <1>8
  <1>15. p.count # 0
    BY <1>3, <1>7
  <1>. QED BY <1>0, <1>5, <1>6, <1>7, <1>8, <1>10, <1>11, <1>12, <1>13, <1>14, <1>15, RunStarts

LEMMA ReserveLocalKeeps ==
  ASSUME Ind, NEW r \in Requests, ReserveLocal(r)
  PROVE  Ind'
  <1>0. PICK d \in Devices : d = At[r]
    BY DevicesAssumption
  <1>. DEFINE q == vault[d]
              n == q.count + 1
              p == [q EXCEPT !.count = n, !.mark = n]
              w == [at |-> "signs", count |-> n, tries |-> 0]
  <1>1. /\ login[r].at = "idle" /\ kind = "local" /\ q.count < MaxCount /\ q.count >= q.mark
        /\ UNCHANGED <<kind, storeVars, receipt, file, lock, sync, late, signed, others, polls, faults>>
        /\ logins' \in 0..MaxLogins
    BY <1>0, BoundsAssumption DEF ReserveLocal, MayAdvance, NotRegressed, Idle, Ind, TypeOK
  <1>2. q \in Passkey /\ q.count \in Nat /\ q.mark \in Nat
    BY Fields, CountsAreNumbers DEF Ind
  <1>3. n \in Counts /\ n \in Nat /\ n > q.mark
    BY <1>1, <1>2, BoundsAssumption DEF Counts
  <1>4. vault' = [vault EXCEPT ![d] = p] /\ login' = [login EXCEPT ![r] = w]
    BY <1>0 DEF ReserveLocal, Ind, TypeOK
  <1>. HIDE DEF n
  <1>5. p \in Passkey /\ p.count = n /\ p.mark = n
    BY <1>2, <1>3 DEF Passkey
  <1>6. w \in Logins /\ w.at = "signs" /\ w.count = n
    BY <1>3, FixedFields DEF Logins
  <1>. HIDE DEF p, w
  <1>7. vault'[d] = p /\ \A e \in Devices \ {d} : vault'[e] = vault[e]
    BY <1>4 DEF Ind, TypeOK
  <1>8. SyncTyped' /\ Placed' /\ Turns'
    BY <1>1, <1>4, <1>6, Signs
  <1>9. MarksGrow
    <2>. SUFFICES ASSUME NEW e \in Devices
                  PROVE  vault'[e].mark \in Nat /\ vault'[e].mark >= vault[e].mark
      BY DEF MarksGrow
    <2>1. vault[e].mark \in Nat
      BY Fields, CountsAreNumbers DEF Ind
    <2>2. CASE e = d
      BY <2>2, <1>2, <1>3, <1>5, <1>7
    <2>3. CASE e # d
      BY <2>1, <2>3, <1>7
    <2>. QED BY <2>2, <2>3
  <1>10. TypeOK'
    <2>1. \A e \in Devices : ~vault'[e].queued => vault'[e].mark >= vault'[e].count
      BY <1>3, <1>5, <1>7, Fields DEF Ind
    <2>. QED BY <1>1, <1>4, <1>5, <1>8, <2>1 DEF Ind, TypeOK, SyncTyped, storeVars
  <1>11. Marked' /\ Grown'
    <2>1. \A o \in Requests : ~Staged(o)
      BY <1>1, DevicesAssumption DEF Ind, Turns, Placed, Staged
    <2>2. w.count <= vault'[At[r]].mark /\ vault[At[r]].mark < w.count
      BY <1>0, <1>2, <1>3, <1>5, <1>6, <1>7
    <2>. QED BY <1>1, <1>4, <1>6, <1>9, <2>1, <2>2, NumbersWith
  <1>. QED BY <1>1, <1>8, <1>10, <1>11
       DEF Ind, Known, Copies, Prepared, Rising, Claimed, DeliveredIsStored

-----------------------------------------------------------------------------
(* The invariant holds at first, and every step keeps it.                    *)
LEMMA InitInd ==
  ASSUME Init
  PROVE  Ind
  <1>1. PICK c \in 0..1 :
          /\ source = [count |-> c, rev |-> 1]
          /\ vault = [d \in Devices |->
               [count |-> c, mark |-> c, base |-> IF kind = "keepass" THEN c ELSE 1,
                queued |-> FALSE, clash |-> NoClash]]
          /\ file = [d \in Devices |-> [base |-> c, work |-> c, etag |-> 1, dirty |-> FALSE]]
          /\ held = {c}
    BY DEF Init
  <1>2. /\ kind \in Kinds /\ late = {} /\ spent = {} /\ regressed = FALSE
        /\ \A d \in Devices : /\ receipt[d] = 0 /\ lock[d] = NoOne /\ sync[d] = NoSync
                              /\ signed[d] = <<>>
        /\ \A r \in Requests : login[r] = Idle
    BY DEF Init
  <1>3. c \in Nat /\ c \in Counts /\ 0 \in Counts
    BY <1>1, BoundsAssumption DEF Counts
  <1>4. \A r \in Requests : login[r].at = "idle" /\ At[r] \in Devices
    BY <1>2, DevicesAssumption DEF Idle
  <1>5. \A d \in Devices : ~Has(d) /\ DeliveredBy(d) = {} /\ 1..Len(signed[d]) = {}
    <2>. SUFFICES ASSUME NEW d \in Devices
                  PROVE  ~Has(d) /\ DeliveredBy(d) = {} /\ 1..Len(signed[d]) = {}
      OBVIOUS
    <2>1. Len(signed[d]) = 0
      BY <1>2
    <2>2. 1..Len(signed[d]) = {}
      BY <2>1
    <2>. QED BY <1>2, <2>2 DEF Has, DeliveredBy
  <1>6. TypeOK
    <2>. DEFINE p == [count |-> c, mark |-> c, base |-> IF kind = "keepass" THEN c ELSE 1,
                      queued |-> FALSE, clash |-> NoClash]
                f == [base |-> c, work |-> c, etag |-> 1, dirty |-> FALSE]
    <2>1. p \in Passkey /\ p.mark >= p.count
      BY <1>3 DEF Passkey
    <2>2. f \in Copy /\ source \in Seen
      BY <1>1, <1>3 DEF Copy, Seen, Revs
    <2>3. vault = [d \in Devices |-> p] /\ file = [d \in Devices |-> f]
      BY <1>1
    <2>. HIDE DEF p, f
    <2>4. /\ vault \in [Devices -> Passkey] /\ file \in [Devices -> Copy]
          /\ \A d \in Devices : ~vault[d].queued => vault[d].mark >= vault[d].count
      BY <2>1, <2>2, <2>3
    <2>5. /\ receipt \in [Devices -> Counts] /\ signed \in [Devices -> Seq(Counts)]
          /\ sync \in [Devices -> {NoSync} \cup Runs]
          /\ lock \in [Devices -> {NoOne, Poll} \cup Requests]
          /\ login \in [Requests -> {Idle} \cup Logins]
      BY <1>3 DEF Init
    <2>6. /\ logins \in 0..MaxLogins /\ others \in 0..MaxOthers
          /\ polls \in 0..MaxPolls /\ faults \in 0..MaxFaults
      BY BoundsAssumption DEF Init
    <2>. QED BY <1>1, <1>2, <1>3, <2>2, <2>4, <2>5, <2>6 DEF TypeOK
  <1>7. Placed /\ Turns /\ Marked /\ Grown
    BY <1>2, <1>4, <1>5 DEF Placed, Turns, Marked, Grown, Signing, Staged
  <1>8. Known
    <2>1. source.count = c /\ \A d \in Devices : vault[d].count = c /\ vault[d].clash = NoClash /\ file[d].base = c
      BY <1>1
    <2>. QED BY <2>1, <1>1, <1>2, <1>4, <1>5 DEF Known, KnownAt, Signing
  <1>9. Copies
    <2>. SUFFICES ASSUME kind = "keepass", NEW d \in Devices
                  PROVE  CopyAt(d)
      BY DEF Copies
    <2>1. vault[d].count = c /\ vault[d].base = c /\ ~vault[d].queued
      BY <1>1
    <2>2. file[d].base = c /\ file[d].work = c /\ file[d].etag = 1 /\ ~file[d].dirty
      BY <1>1
    <2>3. source.count = c /\ source.rev = 1
      BY <1>1
    <2>. QED BY <2>1, <2>2, <2>3, <1>5 DEF CopyAt
  <1>10. Prepared /\ Rising
    <2>1. Prepared
      BY <1>4 DEF Prepared, PreparedAt, Staged
    <2>2. Rising
      BY <1>1, <1>3 DEF Rising
    <2>. QED BY <2>1, <2>2
  <1>11. Claimed /\ DeliveredIsStored
    BY <1>4, <1>5 DEF Claimed, Claims, Signing, Reserved, Staged, DeliveredIsStored
  <1>. QED BY <1>6, <1>7, <1>8, <1>9, <1>10, <1>11 DEF Ind

LEMMA StutterKeeps ==
  ASSUME Ind, UNCHANGED vars
  PROVE  Ind'
  BY DEF Ind, TypeOK, Placed, Turns, Marked, Grown, Known, KnownAt, Copies, CopyAt, Prepared,
         PreparedAt, Rising, Claimed, Claims, Reserved, Signing, Staged, Has, DeliveredIsStored,
         DeliveredBy, vars, storeVars, boundVars

LEMMA NextKeeps ==
  ASSUME Ind, Next
  PROVE  Ind'
  <1>1. CASE OthersWrite
    BY <1>1, OthersWriteKeeps
  <1>2. CASE LateWrite
    BY <1>2, LateWriteKeeps
  <1>3. ASSUME NEW d \in Devices, PollStarts(d) \/ Fetch(d) \/ Decide(d) \/ Attempt(d) \/ Put(d)
        PROVE  Ind'
    BY <1>3, PollStartsKeeps, FetchKeeps, DecideKeeps, AttemptKeeps, PutKeeps
  <1>4. ASSUME NEW d \in Devices, Acknowledge(d) \/ Save(d) \/ Publish(d) \/ Merge(d)
        PROVE  Ind'
    BY <1>4, AcknowledgeKeeps, SaveKeeps, PublishKeeps, MergeKeeps
  <1>5. ASSUME NEW d \in Devices,
               UseRemote(d) \/ KeepLocal(d) \/ SyncFails(d) \/ AnswerLost(d) \/ CannotRebase(d)
        PROVE  Ind'
    BY <1>5, ConflictKeeps, SyncFailsKeeps, AnswerLostKeeps, CannotRebaseKeeps
  <1>6. ASSUME NEW r \in Requests,
               Begin(r) \/ ReserveLocal(r) \/ Reserve(r) \/ Deliver(r) \/ Abandon(r)
        PROVE  Ind'
    BY <1>6, BeginKeeps, ReserveLocalKeeps, ReserveKeeps, DeliverKeeps, AbandonKeeps
  <1>. QED BY <1>1, <1>2, <1>3, <1>4, <1>5, <1>6 DEF Next

-----------------------------------------------------------------------------
(* Counts are delivered in order: the one that is admitted is at the mark or *)
(* above it, the mark is above all that went before, and a positive count is *)
(* never one of them.                                                        *)
LEMMA DeliverGrows ==
  ASSUME Ind, DeliveredGrows, NEW r \in Requests, Deliver(r)
  PROVE  DeliveredGrows'
  <1>0. PICK d \in Devices, n \in Counts : d = At[r] /\ n = login[r].count
    BY LoginFields DEF Ind, Deliver
  <1>1. /\ Signing(r) /\ n = vault[d].count /\ n >= vault[d].mark
        /\ signed' = [signed EXCEPT ![d] = Append(@, n)]
    BY <1>0 DEF Deliver, Signing, StillCurrent, NotRegressed
  <1>2. /\ signed[d] \in Seq(Counts) /\ n \in Nat /\ vault[d].mark \in Nat /\ signed \in [Devices -> Seq(Counts)]
    BY Fields, CountsAreNumbers DEF Ind, TypeOK
  <1>3. \A e \in Devices : signed'[e] = IF e = d THEN Append(signed[d], n) ELSE signed[e]
    BY <1>1, <1>2
  <1>. SUFFICES ASSUME NEW e \in Devices, NEW i \in 1..Len(signed'[e]), NEW j \in 1..Len(signed'[e]),
                       i < j, signed'[e][i] > 0
                PROVE  signed'[e][i] < signed'[e][j]
    BY DEF DeliveredGrows
  <1>4. CASE e # d
    BY <1>3, <1>4 DEF DeliveredGrows
  <1>5. CASE e = d
    <2>. DEFINE was == signed[d]
    <2>1. was \in Seq(Counts) /\ signed'[e] = Append(was, n)
      BY <1>2, <1>3, <1>5
    <2>2. \A k \in 1..Len(was) : /\ was[k] \in Counts /\ was[k] <= vault[d].mark
                                 /\ n > 0 => was[k] # n
      <3>. SUFFICES ASSUME NEW k \in 1..Len(was)
                    PROVE  was[k] \in Counts /\ was[k] <= vault[d].mark /\ (n > 0 => was[k] # n)
        OBVIOUS
      <3>1. was[k] \in Counts
        BY <2>1
      <3>2. signed[d][k] <= vault[d].mark /\ (Signing(r) /\ login[r].count > 0 => signed[d][k] # login[r].count)
        BY <1>0 DEF Ind, Grown
      <3>. QED BY <3>1, <3>2, <1>0, <1>1
    <2>3. \A k, l \in 1..Len(was) : k < l /\ was[k] > 0 => was[k] < was[l]
      BY DEF DeliveredGrows
    <2>. HIDE DEF was
    <2>4. /\ Len(was) \in Nat /\ Len(Append(was, n)) = Len(was) + 1
          /\ \A k \in 1..Len(was) + 1 : Append(was, n)[k] = IF k <= Len(was) THEN was[k] ELSE n
      BY <1>2, <2>1
    <2>5. i \in 1..Len(was) /\ signed'[e][i] = was[i] /\ was[i] \in Nat
      BY <2>1, <2>2, <2>4, CountsAreNumbers
    <2>6. CASE j \in 1..Len(was)
      BY <2>1, <2>3, <2>4, <2>5, <2>6
    <2>7. CASE j = Len(was) + 1
      <3>1. signed'[e][j] = n
        BY <2>1, <2>4, <2>7
      <3>2. was[i] <= n /\ was[i] > 0
        BY <1>1, <1>2, <2>2, <2>5
      <3>3. n > 0
        BY <3>2, <1>2, <2>5
      <3>. QED BY <3>1, <3>2, <3>3, <1>2, <2>2, <2>5
    <2>. QED BY <2>1, <2>4, <2>6, <2>7
  <1>. QED BY <1>4, <1>5

LEMMA GrowthKept ==
  ASSUME Ind, DeliveredGrows, [Next]_vars
  PROVE  DeliveredGrows'
  <1>1. ASSUME NEW r \in Requests, Deliver(r)
        PROVE  DeliveredGrows'
    BY <1>1, DeliverGrows
  <1>2. CASE UNCHANGED vars
    BY <1>2 DEF vars, DeliveredGrows
  <1>3. ASSUME signed' = signed
        PROVE  DeliveredGrows'
    BY <1>3 DEF DeliveredGrows
  <1>4. OthersWrite \/ LateWrite => signed' = signed
    BY DEF OthersWrite, LateWrite
  <1>5. ASSUME NEW d \in Devices
        PROVE  PollStarts(d) \/ Fetch(d) \/ Decide(d) \/ Attempt(d) \/ Put(d) \/ Acknowledge(d)
                 => signed' = signed
    BY DEF PollStarts, Fetch, Decide, Attempt, Put, Acknowledge
  <1>6. ASSUME NEW d \in Devices
        PROVE  Save(d) \/ Publish(d) \/ Merge(d) \/ UseRemote(d) \/ KeepLocal(d) => signed' = signed
    BY DEF Save, Publish, Merge, UseRemote, KeepLocal, Decided
  <1>7. ASSUME NEW d \in Devices
        PROVE  SyncFails(d) \/ AnswerLost(d) \/ CannotRebase(d) => signed' = signed
    BY DEF SyncFails, AnswerLost, CannotRebase
  <1>8. ASSUME NEW r \in Requests
        PROVE  Begin(r) \/ ReserveLocal(r) \/ Reserve(r) \/ Abandon(r) => signed' = signed
    BY DEF Begin, ReserveLocal, Reserve, Abandon
  <1>. QED BY <1>1, <1>2, <1>3, <1>4, <1>5, <1>6, <1>7, <1>8 DEF Next

\* While nobody sets the counter back, a count claimed at one installation is
\* neither another client's nor claimed at another installation.
LEMMA ClaimedOnce ==
  ASSUME Ind
  PROVE  FileSignsOnce
  <1>. SUFFICES ASSUME kind = "keepass", ~regressed, NEW d \in Devices, NEW c \in DeliveredBy(d), c # 0
                PROVE  c \notin spent /\ \A e \in Devices : d # e => c \notin DeliveredBy(e)
    BY DEF FileSignsOnce
  <1>1. c \in Counts \ {0}
    <2>1. signed[d] \in Seq(Counts)
      BY Fields DEF Ind
    <2>. QED BY <2>1 DEF DeliveredBy
  <1>2. Claims(d, c)
    BY DEF Claims
  <1>3. c \notin spent /\ \A e \in Devices \ {d} : ~Claims(e, c)
    BY <1>1, <1>2 DEF Ind, Claimed
  <1>. QED BY <1>3 DEF Claims

LEMMA Inductive == Spec => []Ind
  <1>1. Init => Ind
    BY InitInd
  <1>2. Ind /\ [Next]_vars => Ind'
    BY NextKeeps, StutterKeeps
  <1>. QED BY <1>1, <1>2, PTL DEF Spec

-----------------------------------------------------------------------------
(* Every state keeps its type: no count, mark or reservation passes the last *)
(* number a counter can take, and a passkey without a pending mutation has   *)
(* its count under its mark (nextPasskeyCounter, preservePasskeyCounterHistory). *)
THEOREM TypeCorrect == Spec => []TypeOK
  <1>1. Ind => TypeOK
    BY DEF Ind
  <1>. QED BY <1>1, Inductive, PTL

(* From the first positive count the counts that one installation delivers   *)
(* grow, however many synchronizations, conflicts, crashes and writes of     *)
(* other clients come between them (recordPasskeyUse and the mark).          *)
THEOREM CountsGrow == Spec => []DeliveredGrows
  <1>1. Init => DeliveredGrows
    <2>. SUFFICES ASSUME Init, NEW d \in Devices
                  PROVE  1..Len(signed[d]) = {}
      BY DEF DeliveredGrows
    <2>1. Len(signed[d]) = 0
      BY DEF Init
    <2>. QED BY <2>1
  <1>2. Ind /\ DeliveredGrows /\ [Next]_vars => DeliveredGrows'
    BY GrowthKept
  <1>. QED BY <1>1, <1>2, Inductive, PTL DEF Spec

(* A count that a page was given has been stored in the source: a refresh    *)
(* finds it confirmed, and a pending mutation ends the login.                *)
THEOREM DeliveredAreStored == Spec => []DeliveredIsStored
  <1>1. Ind => DeliveredIsStored
    BY DEF Ind
  <1>. QED BY <1>1, Inductive, PTL

(* No two installations of a KeePass file, nor one of them and another       *)
(* client, sign with one count: a count that was merged by a rebase reserves *)
(* nothing (file-assertion.ts). Nobody may set the counter back meanwhile.   *)
THEOREM FileCountsUnique == Spec => []FileSignsOnce
  <1>1. Ind => FileSignsOnce
    BY ClaimedOnce
  <1>. QED BY <1>1, Inductive, PTL
=============================================================================
