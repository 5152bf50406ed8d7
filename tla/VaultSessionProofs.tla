-------------------------- MODULE VaultSessionProofs --------------------------
(* The stored vault always has its key, an operation works on the vault that *)
(* is stored, a session that ended stays ended, and what leaves the vault is *)
(* granted: for every set of logins and every bound.                         *)
EXTENDS VaultSession, TLAPS

Envelopes == Envelope \cup {NoEnvelope}
Sessions  == [id : 1..MaxSessions, key : Key, left : 0..Lease]
Snapshots == [id : 0..MaxWrites, session : 0..MaxSessions, key : 0..MaxKeys]
Caches    == [id : 0..MaxWrites, logins : SUBSET Logins]
Ops       == [kind : Kinds \cup {"none"}, step : 0..6, next : Envelopes, old : 0..MaxKeys,
              base : 0..MaxWrites, cleared : BOOLEAN]
Fills     == [at : {"idle", "ready", "sent"}, locked : BOOLEAN, id : 0..MaxWrites,
              offered : SUBSET Logins]
Exports   == [at : {"idle", "verifying", "verified", "done"}, id : 0..MaxWrites,
              session : 0..MaxSessions, plain : BOOLEAN, moved : BOOLEAN]
Made      == [key : 0..MaxKeys, envelope : 0..MaxWrites, session : 0..MaxSessions]

(* The steps of an operation, by their numbers. *)
Short   == {"mutate", "grant", "autolock"}   \* changes of four steps
Long    == {"enroll", "revoke"}              \* changes that ask Windows Hello, of five
Opening == {"unlock", "hello", "status"}
Length(kind) ==
  CASE kind = "change" -> 6
    [] kind \in {"restore"} \cup Long -> 5
    [] kind \in {"setup", "hello"} \cup Short -> 4
    [] kind = "unlock" -> 3
    [] kind \in {"lock", "read", "capture"} -> 2
    [] OTHER -> 1

(* The operation has made its envelope, and has not written it; or it has;   *)
(* or it has not yet started the session that it is to start.                *)
Writing(o) ==
  \/ o.kind \in {"setup", "change"} /\ o.step <= 3
  \/ o.kind = "restore" /\ o.step = 1
  \/ o.kind \in Short /\ o.step \in {2, 3}
  \/ o.kind \in Long /\ o.step \in {2, 3, 4}
Written(o) ==
  \/ o.kind \in {"setup", "change"} /\ o.step > 3
  \/ o.kind = "restore" /\ o.step > 1
  \/ o.kind \in Short /\ o.step = 4
  \/ o.kind \in Long /\ o.step = 5
  \/ o.kind \in Opening
Starting(o) ==
  \/ o.kind \in {"setup", "change", "status"}
  \/ o.kind = "restore" /\ o.step <= 3
  \/ o.kind = "unlock" /\ o.step = 1
  \/ o.kind = "hello" /\ o.step <= 2

Typed ==
  /\ envelope \in Envelopes /\ deviceKeys \subseteq Key
  /\ suspended \in BOOLEAN /\ native \in BOOLEAN
  /\ session \in Sessions \cup {NoSession} /\ snapshot \in Snapshots
  /\ notice \in BOOLEAN /\ cache \in Caches
  /\ op \in Ops /\ (op.kind = "none" => op = NoOp)
  /\ op.kind # "none" => op.step \in 1..Length(op.kind)
  /\ fill \in Fills /\ export \in Exports /\ shut \in BOOLEAN /\ made \in Made
  /\ faults \in 0..MaxFaults

(* Nothing bears a number that was not given. *)
Numbered ==
  /\ envelope.id <= made.envelope /\ envelope.key <= made.key
  /\ \A k \in deviceKeys : k <= made.key
  /\ session.id <= made.session
  /\ snapshot.id <= made.envelope /\ cache.id <= made.envelope
  /\ fill.id <= made.envelope
  /\ export.id <= made.envelope /\ export.session <= made.session

(* The envelope that is being made is newer than all that is kept of the     *)
(* stored one; its device key is stored first; a change keeps the key.       *)
Making == Writing(op) =>
  /\ op.next \in Envelope /\ op.next.id = made.envelope /\ op.next.key <= made.key
  /\ envelope.id < op.next.id /\ snapshot.id < op.next.id
  /\ fill.id < op.next.id /\ export.id < op.next.id
  /\ cache.id = op.next.id => cache.logins \subseteq op.next.granted
  /\ op.kind \in {"setup", "change"} /\ op.step > 1 /\ op.next.device
       => op.next.key \in deviceKeys
  /\ op.kind = "restore" => ~op.next.device
  /\ op.kind \in Changes => op.next.key = envelope.key /\ op.next.device = envelope.device
Stored == Written(op) => op.next \in Envelope /\ envelope = op.next
(* The key that is dropped is older than the one that replaced it. *)
Replaced == op.kind \in {"change", "restore"} => op.old < op.next.key
(* What an operation decoded is what is stored, until it stores the next. *)
Worked == op.base # None => envelope.id = op.base \/ Written(op)
Decoded == snapshot.id # None /\ snapshot.id = envelope.id => snapshot.key = envelope.key

(* The logins a locked fill may offer are those of the stored vault. *)
Offered ==
  /\ cache.id = envelope.id => cache.logins \subseteq envelope.granted
  /\ fill.at = "ready" /\ fill.locked /\ fill.id = envelope.id
       => fill.offered \subseteq envelope.granted

(* Who works in a session has one, of some vault. *)
Held == op.kind \in Changes \cup {"read", "capture", "return"} =>
  session # NoSession /\ (op.kind # "return" => envelope # NoEnvelope)

(* What the user locked opens neither by an operation nor by itself. *)
Shut ==
  /\ shut => /\ session = NoSession /\ op.kind \in {"none", "lock"}
             /\ envelope.device => suspended
  /\ op.kind = "lock" /\ op.step = 2 /\ envelope.device => suspended

(* An export that something moved under is of another vault or session. *)
Exported ==
  /\ export.at # "idle" => export.session # None
  /\ export.at # "idle" /\ export.moved => export.id # envelope.id \/ export.session # session.id
  /\ op.kind = "return" => export.at = "verified" /\ ~export.moved

(* There is room for what the operation is still to make. *)
Roomy ==
  /\ Starting(op) => made.session < MaxSessions
  /\ op.kind \in Changes /\ op.step = 1 => made.envelope < MaxWrites

Ind == /\ Typed /\ Numbered /\ Making /\ Stored /\ Replaced /\ Worked /\ Decoded /\ Offered
       /\ Held /\ Shut /\ Exported /\ Roomy /\ Openable

LEMMA AllKinds ==
  Kinds = {"setup", "change", "restore", "mutate", "grant", "autolock", "enroll", "revoke",
           "unlock", "hello", "status", "lock", "read", "capture", "return"}
BY DEF Kinds, Script

LEMMA Lengths == \A k \in Kinds : Len(Script[k]) = Length(k)
<1>1. /\ Len(Script.setup) = 4 /\ Len(Script.change) = 6 /\ Len(Script.restore) = 5
      /\ Len(Script.mutate) = 4 /\ Len(Script.grant) = 4 /\ Len(Script.autolock) = 4
      /\ Len(Script.enroll) = 5 /\ Len(Script.revoke) = 5
  BY DEF Script
<1>2. /\ Len(Script.unlock) = 3 /\ Len(Script.hello) = 4 /\ Len(Script.status) = 1
      /\ Len(Script.lock) = 2 /\ Len(Script.read) = 2 /\ Len(Script.capture) = 2
      /\ Len(Script.return) = 1
  BY DEF Script
<1> QED BY <1>1, <1>2, AllKinds DEF Length, Short, Long

(* Which operations take a step, and as which of their steps. *)
Place(what, kind, n) ==
  LET Of(kinds, i) == kind \in kinds /\ n = i
  IN /\ what = "key" => Of({"setup", "change"}, 1)
     /\ what = "resume" => \/ Of({"setup", "unlock"}, 2) \/ Of({"hello"}, 3)
                          \/ Of({"restore"}, 4) \/ Of({"change"}, 5)
     /\ what = "write" => \/ Of({"restore"}, 1) \/ Of({"setup", "change"} \cup Short, 3)
                         \/ Of(Long, 4)
     /\ what = "start" => \/ Of({"unlock", "status"}, 1) \/ Of({"hello"}, 2)
                         \/ Of({"restore"}, 3) \/ Of({"setup"}, 4) \/ Of({"change"}, 6)
     /\ what = "cache" => \/ Of({"change", "restore"} \cup Short, 2)
                         \/ Of(Long \cup {"unlock"}, 3) \/ Of({"hello"}, 4)
     /\ what = "drop" => Of({"change"}, 4) \/ Of({"restore"}, 5)
     /\ what = "decrypt" => Of(Changes \cup {"read", "capture"}, 1)
     /\ what = "native" => Of(Long, 2)
     /\ what = "touch" => Of({"read"}, 2) \/ Of(Short, 4) \/ Of(Long, 5)
     /\ what = "verify" => Of({"hello"}, 1)
     /\ what = "suspend" => Of({"lock"}, 1)
     /\ what = "clear" => Of({"lock"}, 2)
     /\ what = "capture" => Of({"capture"}, 2)
     /\ what = "return" => Of({"return"}, 1)

Whats == {"key", "resume", "write", "start", "cache", "drop", "decrypt", "native", "touch",
          "verify", "suspend", "clear", "capture", "return"}

LEMMA Places ==
  \A k \in Kinds : \A i \in 1..Length(k) : Script[k][i] \in Whats /\ Place(Script[k][i], k, i)
<1> SUFFICES ASSUME NEW k \in Kinds, NEW i \in 1..Length(k)
             PROVE  Script[k][i] \in Whats /\ Place(Script[k][i], k, i)
  OBVIOUS
<1>1. CASE k = "setup"
  <2>1. Script[k] = <<"key", "resume", "write", "start">> /\ i \in 1..4
    BY <1>1 DEF Script, Length, Short, Long
  <2>2. \/ (i = 1 /\ Script[k][i] = "key")
        \/ (i = 2 /\ Script[k][i] = "resume")
        \/ (i = 3 /\ Script[k][i] = "write")
        \/ (i = 4 /\ Script[k][i] = "start")
    BY <2>1
  <2> QED BY <1>1, <2>2 DEF Whats, Place, Short, Long, Changes
<1>2. CASE k = "change"
  <2>1. Script[k] = <<"key", "cache", "write", "drop", "resume", "start">> /\ i \in 1..6
    BY <1>2 DEF Script, Length, Short, Long
  <2>2. \/ (i = 1 /\ Script[k][i] = "key")
        \/ (i = 2 /\ Script[k][i] = "cache")
        \/ (i = 3 /\ Script[k][i] = "write")
        \/ (i = 4 /\ Script[k][i] = "drop")
        \/ (i = 5 /\ Script[k][i] = "resume")
        \/ (i = 6 /\ Script[k][i] = "start")
    BY <2>1
  <2> QED BY <1>2, <2>2 DEF Whats, Place, Short, Long, Changes
<1>3. CASE k = "restore"
  <2>1. Script[k] = <<"write", "cache", "start", "resume", "drop">> /\ i \in 1..5
    BY <1>3 DEF Script, Length, Short, Long
  <2>2. \/ (i = 1 /\ Script[k][i] = "write")
        \/ (i = 2 /\ Script[k][i] = "cache")
        \/ (i = 3 /\ Script[k][i] = "start")
        \/ (i = 4 /\ Script[k][i] = "resume")
        \/ (i = 5 /\ Script[k][i] = "drop")
    BY <2>1
  <2> QED BY <1>3, <2>2 DEF Whats, Place, Short, Long, Changes
<1>4. CASE k \in Short
  <2>1. Script[k] = <<"decrypt", "cache", "write", "touch">> /\ i \in 1..4
    BY <1>4 DEF Script, Length, Short, Long
  <2>2. \/ (i = 1 /\ Script[k][i] = "decrypt")
        \/ (i = 2 /\ Script[k][i] = "cache")
        \/ (i = 3 /\ Script[k][i] = "write")
        \/ (i = 4 /\ Script[k][i] = "touch")
    BY <2>1
  <2> QED BY <1>4, <2>2 DEF Whats, Place, Short, Long, Changes
<1>5. CASE k \in Long
  <2>1. Script[k] = <<"decrypt", "native", "cache", "write", "touch">> /\ i \in 1..5
    BY <1>5 DEF Script, Length, Short, Long
  <2>2. \/ (i = 1 /\ Script[k][i] = "decrypt")
        \/ (i = 2 /\ Script[k][i] = "native")
        \/ (i = 3 /\ Script[k][i] = "cache")
        \/ (i = 4 /\ Script[k][i] = "write")
        \/ (i = 5 /\ Script[k][i] = "touch")
    BY <2>1
  <2> QED BY <1>5, <2>2 DEF Whats, Place, Short, Long, Changes
<1>6. CASE k \in Opening
  BY <1>6 DEF Script, Length, Whats, Place, Short, Long, Changes, Opening
<1>7. CASE k \in {"lock", "read", "capture", "return"}
  BY <1>7 DEF Script, Length, Whats, Place, Short, Long, Changes
<1> QED BY <1>1, <1>2, <1>3, <1>4, <1>5, <1>6, <1>7, AllKinds DEF Opening, Short, Long

LEMMA Reached ==
  ASSUME Ind, NEW what, At(what)
  PROVE  /\ op.kind \in Kinds /\ op.kind # "none" /\ op.step \in 1..Length(op.kind)
         /\ what \in Whats /\ Place(what, op.kind, op.step)
<1>1. op.kind # "none" /\ Script[op.kind][op.step] = what
  BY DEF At, Idle
<1>2. op.kind \in Kinds /\ op.step \in 1..Length(op.kind)
  BY <1>1 DEF Ind, Typed, Ops
<1> QED BY <1>1, <1>2, Places

LEMMA Empties ==
  /\ NoEnvelope \in Envelopes /\ NoEnvelope \notin Envelope /\ NoSession \notin Sessions
  /\ NoSnapshot \in Snapshots /\ NoCache \in Caches /\ NoFill \in Fills
  /\ NoExport \in Exports /\ NoOp \in Ops
  /\ \A e \in Envelope : e.id # None
  /\ \A s \in Sessions : s.id # None
BY BoundsAssumption DEF NoEnvelope, Envelope, Envelopes, NoSession, Sessions, NoSnapshot, Snapshots,
   NoCache, Caches, NoFill, Fills, NoExport, Exports, NoOp, Ops, None

LEMMA Initially == Init => Ind
<1> SUFFICES ASSUME Init PROVE Ind
  OBVIOUS
<1>1. Typed
  <2>1. op = NoOp /\ NoOp.kind = "none"
    BY DEF Init, NoOp
  <2>2. made \in Made /\ faults \in 0..MaxFaults
    BY BoundsAssumption DEF Init, Made
  <2> QED BY <2>1, <2>2, Empties DEF Init, Typed
<1>2. Numbered
  BY DEF Init, Numbered, NoEnvelope, NoSession, NoSnapshot, NoCache, NoFill, NoExport, None
<1>3. Making /\ Stored /\ Replaced /\ Worked /\ Held /\ Roomy
  BY DEF Init, Making, Stored, Replaced, Worked, Held, Roomy, NoOp, Writing, Written, Starting,
         Short, Long, Opening, Changes
<1>4. Decoded /\ Offered /\ Shut /\ Exported /\ Openable
  BY DEF Init, Decoded, Offered, Shut, Exported, Openable, NoSnapshot, NoCache, NoFill, NoExport,
         NoEnvelope, NoOp
<1> QED BY <1>1, <1>2, <1>3, <1>4 DEF Ind

LEMMA Continues ==
  ASSUME Ind, op.kind \in Kinds, op.kind # "none", op.step \in 1..Length(op.kind), Continue
  PROVE  \/ op' = NoOp
         \/ /\ op' \in Ops /\ op.step < Length(op.kind) /\ op'.kind = op.kind
            /\ op'.step = op.step + 1 /\ op'.next = op.next /\ op'.old = op.old
            /\ op'.base = op.base /\ op'.cleared = op.cleared
<1>1. Last <=> op.step = Length(op.kind)
  BY Lengths DEF Last
<1>2. CASE Last
  BY <1>2 DEF Continue
<1>3. CASE ~Last
  <2>1. op' = [op EXCEPT !.step = op.step + 1] /\ op \in Ops
    BY <1>3 DEF Continue, Ind, Typed
  <2>2. op.step < Length(op.kind) /\ op.step + 1 \in 0..6
    BY <1>1, <1>3, AllKinds DEF Length
  <2> QED BY <2>1, <2>2 DEF Ops
<1> QED BY <1>2, <1>3

(* A step that makes and stores nothing: the operation ends, or moves on to  *)
(* a step that needs no more than it has.                                    *)
Onward ==
  \/ op' = NoOp
  \/ /\ op' \in Ops /\ op.kind # "none" /\ op'.kind = op.kind /\ op'.next = op.next
     /\ op'.old = op.old /\ op'.base \in {op.base, envelope.id} /\ op'.step \in 1..Length(op.kind)
     /\ Writing(op') => Writing(op)
     /\ Written(op') <=> Written(op)
     /\ Starting(op') => Starting(op)
     /\ op'.kind \in Changes /\ op'.step = 1 => op.step = 1
     /\ op'.kind \in {"setup", "change"} /\ op'.step > 1
          => op.step > 1 \/ op.next.key \in deviceKeys'
(* A key is stored before its vault, and dropped after it was replaced.      *)
KeysMove ==
  \/ deviceKeys' = deviceKeys
  \/ Writing(op) /\ deviceKeys' = deviceKeys \cup {op.next.key}
  \/ /\ op.kind \in {"change", "restore"} /\ Written(op) /\ ~Writing(op)
     /\ deviceKeys' = deviceKeys \ {op.old}
CacheMoves ==
  cache' = cache \/ ((Writing(op) \/ Written(op)) /\ cache' = CacheOf(op.next))
(* The session stays or is cleared; what is kept in memory too, or it is of  *)
(* the stored vault.                                                         *)
Kept ==
  /\ session' \in Sessions \cup {NoSession} /\ session'.id \in {session.id, None}
  /\ \/ snapshot' \in {snapshot, NoSnapshot}
     \/ /\ snapshot' \in Snapshots /\ snapshot'.id = envelope.id
        /\ snapshot'.key = envelope.key
  /\ fill' \in Fills /\ fill'.id \in {fill.id, None, envelope.id}
  /\ \/ fill'.at = "ready" => fill' = fill
     \/ fill'.locked => fill'.offered \subseteq envelope.granted
(* An export begins, stays or goes on, notices the end of its session, or is *)
(* dropped.                                                                  *)
Carried ==
  /\ export' \in Exports
  /\ \/ export'.at = "idle" /\ export'.id \in {export.id, None}
        /\ export'.session \in {export.session, None}
     \/ /\ export'.id = envelope.id /\ export'.session = session.id /\ session # NoSession
        /\ ~export'.moved
     \/ /\ export.at # "idle" /\ export'.id = export.id /\ export'.session = export.session
        /\ export'.moved = export.moved /\ session'.id = session.id
     \/ /\ export.at # "idle" /\ export'.id = export.id /\ export'.session = export.session
        /\ session' = NoSession
  /\ op'.kind = "return" => export' = export

LEMMA NothingRuns ==
  /\ ~Writing(NoOp) /\ ~Written(NoOp) /\ ~Starting(NoOp) /\ NoOp.kind = "none"
  /\ NoOp.base = None /\ NoOp.kind \notin Changes
BY DEF Writing, Written, Starting, NoOp, Short, Long, Opening, Changes

LEMMA CalmStep ==
  ASSUME Ind, Onward, Kept, Carried, Shut', KeysMove, CacheMoves, UNCHANGED <<envelope, made>>,
         suspended' \in BOOLEAN, native' \in BOOLEAN, notice' \in BOOLEAN, shut' \in BOOLEAN,
         faults' \in 0..MaxFaults,
         op'.kind \in Changes \cup {"read", "capture", "return"} => session' # NoSession
  PROVE  Ind'
<1> USE Empties, NothingRuns
<1>1. deviceKeys' \subseteq Key /\ \A k \in deviceKeys' : k <= made.key
  BY DEF KeysMove, Ind, Typed, Numbered, Making, Envelope
<1>2. \A e \in Envelope : CacheOf(e) \in Caches /\ CacheOf(e).id \in {None, e.id}
                          /\ CacheOf(e).logins \subseteq e.granted
  BY BoundsAssumption DEF CacheOf, NoCache, Caches, Envelope, None
<1>3. /\ cache' \in Caches /\ cache'.id <= made.envelope
      /\ Writing(op) /\ cache'.id = op.next.id => cache'.logins \subseteq op.next.granted
      /\ cache'.id = envelope.id => cache'.logins \subseteq envelope.granted
  <2>1. CASE cache' = cache
    BY <2>1 DEF Ind, Typed, Numbered, Making, Offered
  <2>2. CASE Writing(op) /\ cache' = CacheOf(op.next)
    <3>1. /\ op.next \in Envelope /\ op.next.id = made.envelope /\ envelope.id < op.next.id
          /\ made.envelope \in Nat
      BY <2>2 DEF Ind, Typed, Made, Making
    <3>2. /\ cache' \in Caches /\ cache'.id \in {None, op.next.id}
          /\ cache'.logins \subseteq op.next.granted
      BY <1>2, <2>2, <3>1
    <3>3. CASE cache'.id = None
      <4>1. cache' = NoCache
        BY <2>2, <3>1, <3>3 DEF CacheOf, NoCache
      <4> QED BY <3>1, <3>2, <3>3, <4>1 DEF NoCache, None
    <3>4. CASE cache'.id = op.next.id
      <4>1. cache'.id # envelope.id /\ cache'.id <= made.envelope
        BY <3>1, <3>4 DEF Envelope
      <4> QED BY <3>2, <4>1
    <3> QED BY <3>2, <3>3, <3>4
  <2>3. CASE Written(op) /\ cache' = CacheOf(op.next)
    <3>1. op.next \in Envelope /\ envelope = op.next
      BY <2>3 DEF Ind, Stored
    <3>2. /\ cache' \in Caches /\ cache'.id \in {None, op.next.id}
          /\ cache'.logins \subseteq op.next.granted
      BY <1>2, <2>3, <3>1
    <3>3. op.next.id <= made.envelope /\ None <= made.envelope
      BY <3>1 DEF Ind, Typed, Made, Numbered, None
    <3>4. Writing(op) => op.next.id > envelope.id
      BY DEF Ind, Making
    <3> QED BY <3>1, <3>2, <3>3
  <2> QED BY <2>1, <2>2, <2>3 DEF CacheMoves
<1>4. Typed'
  <2>1. op' \in Ops /\ (op'.kind = "none" => op' = NoOp)
        /\ (op'.kind # "none" => op'.step \in 1..Length(op'.kind))
    BY DEF Onward
  <2> QED BY <1>1, <1>3, <2>1 DEF Ind, Typed, Kept, Carried
<1>5. Numbered'
  <2>1. session'.id <= made.session /\ snapshot'.id <= made.envelope /\ fill'.id <= made.envelope
    BY DEF Ind, Numbered, Typed, Kept, Made, NoSnapshot, None
  <2>2. export'.id <= made.envelope /\ export'.session <= made.session
    BY DEF Ind, Numbered, Typed, Carried, Made, None
  <2> QED BY <1>1, <1>3, <2>1, <2>2 DEF Ind, Numbered
<1>6. Making'
  <2> SUFFICES ASSUME Writing(op')
               PROVE  Making'
    BY DEF Making
  <2>1. op' # NoOp /\ Writing(op)
    BY DEF Onward
  <2>2. /\ op.next \in Envelope /\ op.next.id = made.envelope /\ op.next.key <= made.key
        /\ envelope.id < op.next.id /\ snapshot.id < op.next.id
        /\ fill.id < op.next.id /\ export.id < op.next.id /\ 0 < op.next.id
    BY <2>1 DEF Ind, Making, Envelope
  <2>3. snapshot'.id < op.next.id /\ fill'.id < op.next.id /\ export'.id < op.next.id
    BY <2>2 DEF Kept, Carried, NoSnapshot, None
  <2>4. /\ op.next.key \in deviceKeys => op.next.key \in deviceKeys'
        /\ op'.next = op.next /\ op'.kind = op.kind
        /\ op.kind \in {"setup", "change"} /\ op.step > 1 /\ op.next.device
             => op.next.key \in deviceKeys
        /\ op.kind \in {"setup", "change"} /\ op'.step > 1
             => op.step > 1 \/ op.next.key \in deviceKeys'
    BY <2>1 DEF Ind, Making, Onward, KeysMove
  <2>5. /\ op.kind = "restore" => ~op.next.device
        /\ op.kind \in Changes => op.next.key = envelope.key /\ op.next.device = envelope.device
    BY <2>1 DEF Ind, Making
  <2> QED BY <1>3, <2>1, <2>2, <2>3, <2>4, <2>5 DEF Making
<1>7. Stored' /\ Replaced' /\ Worked'
  BY DEF Ind, Stored, Replaced, Worked, Onward
<1>8. Decoded' /\ Offered'
  BY <1>3 DEF Ind, Decoded, Offered, Kept, NoSnapshot
<1>9. Held'
  BY DEF Ind, Held, Onward
<1>10. Exported'
  <2>1. op'.kind = "return" => export'.at = "verified" /\ ~export'.moved
    BY DEF Ind, Exported, Carried, Onward
  <2>2. CASE export'.at = "idle"
    BY <2>1, <2>2 DEF Exported
  <2>3. CASE /\ export.at # "idle" /\ export'.id = export.id /\ export'.session = export.session
             /\ export'.moved = export.moved /\ session'.id = session.id
    BY <2>1, <2>3 DEF Ind, Exported
  <2>4. CASE /\ export.at # "idle" /\ export'.id = export.id /\ export'.session = export.session
             /\ session' = NoSession
    BY <2>1, <2>4 DEF Ind, Exported, NoSession
  <2>5. CASE /\ export'.id = envelope.id /\ export'.session = session.id /\ session # NoSession
             /\ ~export'.moved
    <3>1. session.id # None
      BY <2>5 DEF Ind, Typed
    <3> QED BY <2>1, <2>5, <3>1 DEF Exported
  <2> QED BY <2>2, <2>3, <2>4, <2>5 DEF Carried
<1>11. Roomy'
  BY DEF Ind, Roomy, Onward
<1>12. Openable'
  <2>1. CASE deviceKeys \subseteq deviceKeys'
    BY <2>1 DEF Ind, Openable
  <2>2. CASE /\ op.kind \in {"change", "restore"} /\ Written(op)
             /\ deviceKeys' = deviceKeys \ {op.old}
    <3>1. envelope = op.next /\ op.old < op.next.key /\ op.old \in Nat
      BY <2>2 DEF Ind, Stored, Replaced, Typed, Ops
    <3>2. envelope.key # op.old
      BY <3>1
    <3> QED BY <2>2, <3>2 DEF Ind, Openable
  <2> QED BY <2>1, <2>2 DEF KeysMove
<1> QED BY <1>4, <1>5, <1>6, <1>7, <1>8, <1>9, <1>10, <1>11, <1>12 DEF Ind

(* The step of an operation that needs nothing new. *)
LEMMA Proceeds ==
  ASSUME Ind, NEW what, At(what), what \notin {"decrypt", "write"}, Continue \/ Finish,
         what = "key" => op' = NoOp \/ op.next.key \in deviceKeys'
  PROVE  Onward /\ (op' # NoOp => op'.step = op.step + 1 /\ op'.kind = op.kind)
<1> USE Empties, NothingRuns
<1>1. /\ op.kind \in Kinds /\ op.kind # "none" /\ op.step \in 1..Length(op.kind)
      /\ what \in Whats /\ Place(what, op.kind, op.step)
  BY Reached
<1>2. CASE op' = NoOp
  BY <1>2 DEF Onward
<1>3. CASE op' # NoOp
  <2>1. /\ op' \in Ops /\ op.step < Length(op.kind) /\ op'.kind = op.kind
        /\ op'.step = op.step + 1 /\ op'.next = op.next /\ op'.old = op.old
        /\ op'.base = op.base
    BY <1>1, <1>3, Continues DEF Finish
  <2>2. op'.step \in 1..Length(op.kind) /\ op.step \in 1..6
    BY <1>1, <2>1 DEF Length
  <2>3. /\ op.step = 1 => op.kind \notin Changes \cup {"restore"}
        /\ op.step = 1 /\ op.kind \in {"setup", "change"} => what = "key"
    BY <1>1 DEF Whats, Place, Changes, Short, Long
  <2>4. op.step = 3 => op.kind \notin {"setup", "change"} \cup Short
    BY <1>1 DEF Whats, Place, Short, Long
  <2>5. op.step = 4 => op.kind \notin Long
    BY <1>1 DEF Whats, Place, Short, Long
  <2>6. (Writing(op') => Writing(op)) /\ (Starting(op') => Starting(op))
    BY <2>1, <2>2, <2>3 DEF Writing, Starting, Changes, Short, Long
  <2>7. Written(op') <=> Written(op)
    BY <2>1, <2>2, <2>3, <2>4, <2>5 DEF Written, Opening, Short, Long, Length
  <2> QED BY <1>1, <1>3, <2>1, <2>2, <2>3, <2>6, <2>7 DEF Onward
<1> QED BY <1>2, <1>3

LEMMA Still ==
  ASSUME Ind, UNCHANGED <<session, snapshot, fill, export>>
  PROVE  Kept /\ Carried
BY DEF Ind, Typed, Kept, Carried

LEMMA Ended ==
  ASSUME Ind, EndSession, fill' = fill, op'.kind # "return"
  PROVE  Kept /\ Carried /\ notice' \in BOOLEAN
<1>1. session' = NoSession /\ snapshot' = NoSnapshot /\ notice' \in BOOLEAN
  BY DEF EndSession, Ind, Typed
<1>2. Kept
  BY <1>1 DEF Ind, Typed, Kept, NoSession
<1>3. CASE session = NoSession
  <2>1. export' = export
    BY <1>3 DEF EndSession
  <2> QED BY <1>1, <1>2, <1>3, <2>1 DEF Ind, Typed, Carried
<1>4. CASE session # NoSession
  <2>1. export' = [export EXCEPT !.moved = export.at # "idle"] /\ export \in Exports
    BY <1>4 DEF EndSession, Moved, Ind, Typed
  <2>2. export' \in Exports /\ export'.at = export.at /\ export'.id = export.id
        /\ export'.session = export.session
    BY <2>1 DEF Exports
  <2> QED BY <1>1, <1>2, <2>2 DEF Carried
<1> QED BY <1>1, <1>2, <1>3, <1>4

LEMMA EndsOrNot ==
  ASSUME Ind, fill' = fill, EndSession \/ UNCHANGED <<session, snapshot, notice, export>>,
         EndSession => op'.kind # "return"
  PROVE  Kept /\ Carried /\ notice' \in BOOLEAN /\ (session = NoSession => session' = NoSession)
<1>1. CASE EndSession
  <2>1. session' = NoSession
    BY <1>1 DEF EndSession
  <2> QED BY <1>1, <2>1, Ended
<1>2. CASE UNCHANGED <<session, snapshot, notice, export>>
  <2>1. UNCHANGED <<session, snapshot, fill, export>> /\ notice' \in BOOLEAN
    BY <1>2 DEF Ind, Typed
  <2> QED BY <2>1, <1>2, Still
<1> QED BY <1>1, <1>2

LEMMA StaysShut ==
  ASSUME Ind, Onward, UNCHANGED <<envelope, shut>>, session = NoSession => session' = NoSession,
         op.kind \in {"none", "lock"} =>
           /\ suspended => suspended'
           /\ op'.kind = "lock" /\ op'.step = 2 => op.step = 2 \/ suspended'
  PROVE  Shut'
<1>1. CASE op' = NoOp
  BY <1>1, NothingRuns DEF Ind, Shut
<1>2. CASE op' # NoOp
  <2>1. op'.kind = op.kind /\ op.kind # "none"
    BY <1>2 DEF Onward
  <2> QED BY <2>1 DEF Ind, Shut
<1> QED BY <1>1, <1>2

LEMMA IdleOp ==
  ASSUME Ind, Idle
  PROVE  op = NoOp /\ op.kind = "none"
BY DEF Ind, Typed, Idle

LEMMA WorksIn ==
  ASSUME Ind, Onward, op'.kind \in Changes \cup {"read", "capture", "return"}
  PROVE  session # NoSession
BY NothingRuns DEF Ind, Held, Onward, NoOp

LEMMA VerifyKeeps == ASSUME Ind, Verify PROVE Ind'
<1>1. /\ At("verify") /\ (Continue \/ Finish)
      /\ UNCHANGED <<envelope, deviceKeys, cache, native, suspended, fill, shut, made, faults>>
      /\ (EndSession /\ Finish) \/ UNCHANGED <<session, snapshot, notice, export>>
  BY DEF Verify, durable
<1>2. op.kind = "hello"
  BY <1>1, Reached DEF Place
<1>3. Onward /\ (op' = NoOp \/ op'.kind = "hello") /\ KeysMove /\ CacheMoves
  BY <1>1, <1>2, Proceeds DEF KeysMove, CacheMoves
<1>4. op'.kind \notin Changes \cup {"read", "capture", "return", "lock"}
  BY <1>3, NothingRuns DEF NoOp, Changes
<1>5. Kept /\ Carried /\ notice' \in BOOLEAN /\ (session = NoSession => session' = NoSession)
  <2>1. fill' = fill /\ op'.kind # "return"
    BY <1>1, <1>4
  <2> QED BY <1>1, <2>1, EndsOrNot
<1>6. Shut'
  BY <1>1, <1>2, <1>3, <1>5, StaysShut
<1>7. /\ UNCHANGED <<envelope, made>>
      /\ suspended' \in BOOLEAN /\ native' \in BOOLEAN /\ shut' \in BOOLEAN
      /\ faults' \in 0..MaxFaults
  BY <1>1 DEF Ind, Typed
<1> QED BY <1>3, <1>4, <1>5, <1>6, <1>7, CalmStep

LEMMA NativeKeeps == ASSUME Ind, Native PROVE Ind'
<1>1. /\ At("native") /\ (Continue \/ Finish) /\ native' \in {op.kind = "enroll", native}
      /\ UNCHANGED <<envelope, deviceKeys, cache, suspended, session, snapshot, notice, fill,
                     export, shut, made, faults>>
  BY DEF Native
<1>2. op.kind \in Long
  BY <1>1, Reached DEF Place
<1>3. Onward /\ KeysMove /\ CacheMoves
  BY <1>1, Proceeds DEF KeysMove, CacheMoves
<1>4. Kept /\ Carried
  BY <1>1, Still
<1>5. Shut'
  BY <1>1, <1>2, <1>3, StaysShut DEF Long
<1>6. /\ suspended' \in BOOLEAN /\ native' \in BOOLEAN /\ notice' \in BOOLEAN
      /\ shut' \in BOOLEAN /\ faults' \in 0..MaxFaults
  BY <1>1 DEF Ind, Typed
<1>7. op'.kind \in Changes \cup {"read", "capture", "return"} => session' # NoSession
  BY <1>1, <1>3, WorksIn
<1> QED BY <1>1, <1>3, <1>4, <1>5, <1>6, <1>7, CalmStep

LEMMA FaultCounted ==
  ASSUME Ind, Fault \/ faults' = faults
  PROVE  faults' \in 0..MaxFaults
BY BoundsAssumption DEF Fault, Ind, Typed

LEMMA ResumeKeeps == ASSUME Ind, Resume PROVE Ind'
<1>1. /\ At("resume") /\ (Continue \/ Finish) /\ suspended' \in {FALSE, suspended}
      /\ UNCHANGED <<envelope, deviceKeys, cache, native, fill, shut, made>>
      /\ (EndSession /\ Finish) \/ UNCHANGED <<session, snapshot, notice, export>>
      /\ Fault \/ faults' = faults
  BY DEF Resume, durable
<1>2. op.kind \in {"setup", "change", "restore", "unlock", "hello"}
  BY <1>1, Reached DEF Place
<1>3. Onward /\ (op' = NoOp \/ op'.kind = op.kind) /\ KeysMove /\ CacheMoves
  BY <1>1, <1>2, Proceeds DEF KeysMove, CacheMoves
<1>4. op'.kind \notin Changes \cup {"read", "capture", "return", "lock"}
  BY <1>2, <1>3, NothingRuns DEF NoOp, Changes
<1>5. Kept /\ Carried /\ notice' \in BOOLEAN /\ (session = NoSession => session' = NoSession)
  <2>1. fill' = fill /\ op'.kind # "return"
    BY <1>1, <1>4
  <2> QED BY <1>1, <2>1, EndsOrNot
<1>6. Shut'
  BY <1>1, <1>2, <1>3, <1>5, StaysShut
<1>7. /\ suspended' \in BOOLEAN /\ native' \in BOOLEAN /\ shut' \in BOOLEAN
  BY <1>1 DEF Ind, Typed
<1>8. faults' \in 0..MaxFaults
  BY <1>1, FaultCounted
<1> QED BY <1>1, <1>3, <1>4, <1>5, <1>6, <1>7, <1>8, CalmStep

LEMMA CaptureKeeps == ASSUME Ind, Capture PROVE Ind'
<1> USE NothingRuns
<1>1. /\ At("capture") /\ op' = NoOp
      /\ \/ export' = export
         \/ \E plain \in BOOLEAN :
              export' = [at |-> "verifying", id |-> envelope.id, session |-> session.id,
                         plain |-> plain, moved |-> FALSE]
      /\ UNCHANGED <<envelope, deviceKeys, cache, native, suspended, session, snapshot, notice,
                     fill, shut, made, faults>>
  BY DEF Capture, Finish, durable
<1>2. op.kind = "capture" /\ session # NoSession
  BY <1>1, Reached DEF Place, Ind, Held
<1>3. Onward /\ KeysMove /\ CacheMoves
  BY <1>1 DEF Onward, KeysMove, CacheMoves
<1>4. Kept /\ Carried
  <2>1. CASE export' = export
    BY <1>1, <2>1, Still
  <2>2. CASE export' # export
    <3>1. PICK plain \in BOOLEAN :
            export' = [at |-> "verifying", id |-> envelope.id, session |-> session.id,
                       plain |-> plain, moved |-> FALSE]
      BY <1>1, <2>2
    <3>2. envelope.id \in 0..MaxWrites /\ session.id \in 0..MaxSessions
      BY BoundsAssumption DEF Ind, Typed, Envelopes, Envelope, NoEnvelope, Sessions, NoSession, None
    <3>3. /\ export' \in Exports /\ export'.id = envelope.id /\ export'.session = session.id
          /\ ~export'.moved
      BY <3>1, <3>2 DEF Exports
    <3> QED BY <1>1, <1>2, <3>3 DEF Kept, Carried, Ind, Typed
  <2> QED BY <2>1, <2>2
<1>5. Shut'
  BY <1>1, <1>2, <1>3, StaysShut
<1>6. /\ UNCHANGED <<envelope, made>>
      /\ suspended' \in BOOLEAN /\ native' \in BOOLEAN /\ notice' \in BOOLEAN
      /\ shut' \in BOOLEAN /\ faults' \in 0..MaxFaults
  BY <1>1 DEF Ind, Typed
<1>7. op'.kind \notin Changes \cup {"read", "capture", "return"}
  BY <1>1
<1> QED BY <1>3, <1>4, <1>5, <1>6, <1>7, CalmStep

(* The steps of an export that nothing moved under. *)
LEMMA ExportMoves ==
  ASSUME Ind, export.at # "idle", NEW to \in {"verifying", "verified", "done"},
         export' = [export EXCEPT !.at = to] \/ export' = NoExport,
         UNCHANGED <<session, snapshot, fill>>, op'.kind # "return"
  PROVE  Kept /\ Carried
<1>1. export \in Exports
  BY DEF Ind, Typed
<1>2. CASE export' = NoExport
  BY <1>2, Empties DEF Ind, Typed, Kept, Carried, NoExport
<1>3. CASE export' = [export EXCEPT !.at = to]
  <2>1. /\ export' \in Exports /\ export'.id = export.id /\ export'.session = export.session
        /\ export'.moved = export.moved
    BY <1>1, <1>3 DEF Exports
  <2> QED BY <2>1 DEF Ind, Typed, Kept, Carried
<1> QED BY <1>2, <1>3

LEMMA ReturnKeeps == ASSUME Ind, Return PROVE Ind'
<1> USE NothingRuns
<1>1. /\ At("return") /\ op' = NoOp
      /\ export' = [export EXCEPT !.at = "done"] \/ export' = NoExport
      /\ UNCHANGED <<envelope, deviceKeys, cache, native, suspended, session, snapshot, notice,
                     fill, shut, made, faults>>
  BY DEF Return, Finish, durable
<1>2. op.kind = "return" /\ export.at # "idle" /\ op'.kind # "return"
  BY <1>1, Reached DEF Place, Ind, Exported
<1>3. Onward /\ KeysMove /\ CacheMoves
  BY <1>1 DEF Onward, KeysMove, CacheMoves
<1>4. Kept /\ Carried
  BY <1>1, <1>2, ExportMoves
<1>5. Shut'
  BY <1>1, <1>2, <1>3, StaysShut
<1>6. /\ UNCHANGED <<envelope, made>>
      /\ suspended' \in BOOLEAN /\ native' \in BOOLEAN /\ notice' \in BOOLEAN
      /\ shut' \in BOOLEAN /\ faults' \in 0..MaxFaults
  BY <1>1 DEF Ind, Typed
<1>7. op'.kind \notin Changes \cup {"read", "capture", "return"}
  BY <1>1
<1> QED BY <1>3, <1>4, <1>5, <1>6, <1>7, CalmStep

(* Nothing happens to the operation, the stored vault or the lock.           *)
LEMMA Beside ==
  ASSUME Ind, op' = op \/ op' = NoOp \/ (op.kind # "none" /\ op' = [op EXCEPT !.cleared = TRUE]),
         UNCHANGED <<envelope, deviceKeys, cache, native, suspended, shut, made>>,
         notice' \in BOOLEAN, Fault \/ faults' = faults,
         Kept, Carried, session' = NoSession => session = NoSession \/ op' = NoOp
  PROVE  Ind'
<1> USE NothingRuns
<1>1. op \in Ops /\ (op.kind # "none" => op.step \in 1..Length(op.kind))
      /\ (op.kind = "none" => op = NoOp)
  BY DEF Ind, Typed
<1>2. Onward
  <2>1. CASE op' = NoOp
    BY <2>1 DEF Onward
  <2>2. CASE op' = op
    BY <1>1, <2>2 DEF Onward, Writing, Written, Starting
  <2>3. CASE op.kind # "none" /\ op' = [op EXCEPT !.cleared = TRUE]
    <3>1. /\ op' \in Ops /\ op'.kind = op.kind /\ op'.step = op.step /\ op'.next = op.next
          /\ op'.old = op.old /\ op'.base = op.base
      BY <1>1, <2>3 DEF Ops
    <3> QED BY <1>1, <2>3, <3>1 DEF Onward, Writing, Written, Starting
  <2> QED BY <2>1, <2>2, <2>3
<1>3. op' = NoOp \/ (op'.kind = op.kind /\ op'.step = op.step)
  BY <1>1 DEF Ops
<1>4. Shut'
  <2>1. session = NoSession => session' = NoSession
    BY DEF Kept, NoSession, Sessions, None
  <2> QED BY <1>2, <1>3, <2>1, StaysShut DEF NoOp
<1>5. KeysMove /\ CacheMoves
  BY DEF KeysMove, CacheMoves
<1>6. op'.kind \in Changes \cup {"read", "capture", "return"} => session' # NoSession
  BY <1>2, WorksIn DEF NoOp
<1>7. /\ UNCHANGED <<envelope, made>>
      /\ suspended' \in BOOLEAN /\ native' \in BOOLEAN /\ shut' \in BOOLEAN
  BY DEF Ind, Typed
<1>8. faults' \in 0..MaxFaults
  BY FaultCounted
<1> QED BY <1>2, <1>4, <1>5, <1>6, <1>7, <1>8, CalmStep

LEMMA WriteKeyKeeps == ASSUME Ind, WriteKey PROVE Ind'
<1>1. /\ At("key") /\ (Continue \/ Finish)
      /\ \/ deviceKeys' = deviceKeys \cup {op.next.key}
         \/ Finish /\ deviceKeys' = deviceKeys
      /\ Fault \/ faults' = faults
      /\ UNCHANGED <<envelope, cache, native, suspended, session, snapshot, notice, fill, export,
                     shut, made>>
  BY DEF WriteKey
<1>2. op.kind \in {"setup", "change"} /\ op.step = 1
  BY <1>1, Reached DEF Place
<1>3. Writing(op)
  BY <1>2 DEF Writing
<1>4. Onward
  <2>1. op' = NoOp \/ op.next.key \in deviceKeys'
    BY <1>1 DEF Finish
  <2> QED BY <1>1, <2>1, Proceeds
<1>5. KeysMove /\ CacheMoves
  BY <1>1, <1>3 DEF KeysMove, CacheMoves
<1>6. Kept /\ Carried
  BY <1>1, Still
<1>7. Shut'
  BY <1>1, <1>2, <1>4, StaysShut
<1>8. /\ UNCHANGED <<envelope, made>>
      /\ suspended' \in BOOLEAN /\ native' \in BOOLEAN /\ notice' \in BOOLEAN
      /\ shut' \in BOOLEAN
  BY <1>1 DEF Ind, Typed
<1>9. faults' \in 0..MaxFaults
  BY <1>1, FaultCounted
<1>10. op'.kind \in Changes \cup {"read", "capture", "return"} => session' # NoSession
  BY <1>1, <1>4, WorksIn
<1> QED BY <1>4, <1>5, <1>6, <1>7, <1>8, <1>9, <1>10, CalmStep

LEMMA RefreshCacheKeeps == ASSUME Ind, RefreshCache PROVE Ind'
<1>1. /\ At("cache") /\ (Continue \/ Finish) /\ cache' \in {cache, CacheOf(op.next)}
      /\ Fault \/ faults' = faults
      /\ UNCHANGED <<envelope, deviceKeys, native, suspended, session, snapshot, notice, fill,
                     export, shut, made>>
  BY DEF RefreshCache
<1>2. op.kind \notin {"none", "lock"} /\ (Writing(op) \/ Written(op))
  BY <1>1, Reached DEF Place, Writing, Written, Short, Long, Opening
<1>3. Onward
  BY <1>1, Proceeds
<1>4. KeysMove /\ CacheMoves
  BY <1>1, <1>2 DEF KeysMove, CacheMoves
<1>5. Kept /\ Carried
  BY <1>1, Still
<1>6. Shut'
  BY <1>1, <1>2, <1>3, StaysShut
<1>7. /\ UNCHANGED <<envelope, made>>
      /\ suspended' \in BOOLEAN /\ native' \in BOOLEAN /\ notice' \in BOOLEAN
      /\ shut' \in BOOLEAN
  BY <1>1 DEF Ind, Typed
<1>8. faults' \in 0..MaxFaults
  BY <1>1, FaultCounted
<1>9. op'.kind \in Changes \cup {"read", "capture", "return"} => session' # NoSession
  BY <1>1, <1>3, WorksIn
<1> QED BY <1>3, <1>4, <1>5, <1>6, <1>7, <1>8, <1>9, CalmStep

LEMMA DropKeeps == ASSUME Ind, Drop PROVE Ind'
<1>1. /\ At("drop") /\ (Continue \/ Finish) /\ deviceKeys' \in {deviceKeys, deviceKeys \ {op.old}}
      /\ native' \in {native /\ op.kind # "restore", native}
      /\ Fault \/ faults' = faults
      /\ UNCHANGED <<envelope, cache, suspended, session, snapshot, notice, fill, export, shut,
                     made>>
  BY DEF Drop
<1>2. op.kind \in {"change", "restore"} /\ Written(op) /\ ~Writing(op)
  BY <1>1, Reached DEF Place, Writing, Written, Short, Long
<1>3. Onward
  BY <1>1, Proceeds
<1>4. KeysMove /\ CacheMoves
  BY <1>1, <1>2 DEF KeysMove, CacheMoves
<1>5. Kept /\ Carried
  BY <1>1, Still
<1>6. Shut'
  BY <1>1, <1>2, <1>3, StaysShut
<1>7. /\ UNCHANGED <<envelope, made>>
      /\ suspended' \in BOOLEAN /\ native' \in BOOLEAN /\ notice' \in BOOLEAN
      /\ shut' \in BOOLEAN
  BY <1>1 DEF Ind, Typed
<1>8. faults' \in 0..MaxFaults
  BY <1>1, FaultCounted
<1>9. op'.kind \in Changes \cup {"read", "capture", "return"} => session' # NoSession
  BY <1>1, <1>3, WorksIn
<1> QED BY <1>3, <1>4, <1>5, <1>6, <1>7, <1>8, <1>9, CalmStep

(* A live session is a session, and stays one when it gets more time. *)
LEMMA LiveSession ==
  ASSUME Ind, Live
  PROVE  session \in Sessions /\ session # NoSession /\ ~shut
BY DEF Ind, Typed, Live, NoSession, Shut

LEMMA RenewedSession ==
  ASSUME Ind, Live, Renewed
  PROVE  /\ session' \in Sessions /\ session'.id = session.id /\ session'.key = session.key
         /\ session' # NoSession
<1>1. session' = [session EXCEPT !.left = Lease] /\ session \in Sessions /\ Lease \in 0..Lease
  BY LiveSession DEF Renewed, Lease
<1> QED BY <1>1, Empties DEF Sessions

LEMMA RenewedCalm ==
  ASSUME Ind, Live, Renewed, UNCHANGED <<snapshot, fill, export>>
  PROVE  Kept /\ Carried
BY RenewedSession DEF Ind, Typed, Kept, Carried

LEMMA TouchKeeps == ASSUME Ind, Touch PROVE Ind'
<1> USE NothingRuns
<1>1. /\ At("touch") /\ Finish /\ op' = NoOp /\ suspended' \in BOOLEAN
      /\ \/ Live /\ Renewed /\ UNCHANGED <<snapshot, notice, export>>
         \/ EndSession \/ UNCHANGED <<session, snapshot, notice, export>>
      /\ Fault \/ faults' = faults
      /\ UNCHANGED <<envelope, deviceKeys, cache, native, fill, shut, made>>
  BY DEF Touch, MayRenew, Finish, durable, Ind, Typed
<1>2. op.kind \in Short \cup Long \cup {"read"}
  BY <1>1, Reached DEF Place
<1>3. Onward /\ KeysMove /\ CacheMoves
  BY <1>1 DEF Onward, KeysMove, CacheMoves
<1>4. Kept /\ Carried /\ notice' \in BOOLEAN
  <2>1. CASE Live /\ Renewed /\ UNCHANGED <<snapshot, notice, export>>
    <3>1. UNCHANGED <<snapshot, fill, export>> /\ notice' \in BOOLEAN
      BY <2>1, <1>1 DEF Ind, Typed
    <3> QED BY <2>1, <3>1, RenewedCalm
  <2>2. CASE EndSession \/ UNCHANGED <<session, snapshot, notice, export>>
    <3>1. fill' = fill /\ op'.kind # "return"
      BY <1>1
    <3> QED BY <2>2, <3>1, EndsOrNot
  <2> QED BY <1>1, <2>1, <2>2
<1>5. Shut'
  <2>1. ~shut'
    BY <1>1, <1>2 DEF Ind, Shut, Short, Long
  <2> QED BY <1>1, <2>1 DEF Shut
<1>6. UNCHANGED <<envelope, made>> /\ native' \in BOOLEAN /\ shut' \in BOOLEAN
  BY <1>1 DEF Ind, Typed
<1>7. faults' \in 0..MaxFaults
  BY <1>1, FaultCounted
<1>8. op'.kind \notin Changes \cup {"read", "capture", "return"}
  BY <1>1
<1> QED BY <1>1, <1>3, <1>4, <1>5, <1>6, <1>7, <1>8, CalmStep

LEMMA SuspendKeeps == ASSUME Ind, Suspend PROVE Ind'
<1>1. /\ At("suspend") /\ (Continue \/ Finish)
      /\ suspended' = TRUE \/ (Finish /\ suspended' = suspended)
      /\ Fault \/ faults' = faults
      /\ UNCHANGED <<envelope, deviceKeys, cache, native, session, snapshot, notice, fill, export,
                     shut, made>>
  BY DEF Suspend, durable
<1>2. op.kind = "lock" /\ op.step = 1
  BY <1>1, Reached DEF Place
<1>3. Onward /\ KeysMove /\ CacheMoves
  BY <1>1, Proceeds DEF KeysMove, CacheMoves
<1>4. Kept /\ Carried
  BY <1>1, Still
<1>5. Shut'
  <2>1. (suspended => suspended') /\ (op' # NoOp => suspended')
    BY <1>1 DEF Finish
  <2>2. NoOp.kind # "lock"
    BY DEF NoOp
  <2> QED BY <1>1, <1>3, <2>1, <2>2, StaysShut
<1>6. /\ UNCHANGED <<envelope, made>>
      /\ suspended' \in BOOLEAN /\ native' \in BOOLEAN /\ notice' \in BOOLEAN
      /\ shut' \in BOOLEAN
  BY <1>1 DEF Ind, Typed
<1>7. faults' \in 0..MaxFaults
  BY <1>1, FaultCounted
<1>8. op'.kind \in Changes \cup {"read", "capture", "return"} => session' # NoSession
  BY <1>1, <1>3, WorksIn
<1> QED BY <1>3, <1>4, <1>5, <1>6, <1>7, <1>8, CalmStep

LEMMA ClearKeeps == ASSUME Ind, Clear PROVE Ind'
<1> USE NothingRuns
<1>1. /\ At("clear") /\ EndSession /\ op' = NoOp /\ shut' = TRUE /\ session' = NoSession
      /\ UNCHANGED <<envelope, deviceKeys, cache, native, suspended, fill, made, faults>>
  BY DEF Clear, Finish, durable, EndSession
<1>2. op.kind = "lock" /\ op.step = 2
  BY <1>1, Reached DEF Place
<1>3. Onward /\ KeysMove /\ CacheMoves
  BY <1>1 DEF Onward, KeysMove, CacheMoves
<1>4. op'.kind \notin Changes \cup {"read", "capture", "return"}
  BY <1>1
<1>5. Kept /\ Carried /\ notice' \in BOOLEAN
  <2>1. fill' = fill /\ op'.kind # "return"
    BY <1>1
  <2> QED BY <1>1, <2>1, EndsOrNot
<1>6. Shut'
  BY <1>1, <1>2 DEF Ind, Shut
<1>7. /\ UNCHANGED <<envelope, made>>
      /\ suspended' \in BOOLEAN /\ native' \in BOOLEAN /\ shut' \in BOOLEAN
      /\ faults' \in 0..MaxFaults
  BY <1>1 DEF Ind, Typed
<1> QED BY <1>3, <1>4, <1>5, <1>6, <1>7, CalmStep

LEMMA RecordActivityKeeps == ASSUME Ind, RecordActivity PROVE Ind'
<1>1. /\ Live /\ Renewed /\ op' = op /\ faults' = faults
      /\ UNCHANGED <<envelope, deviceKeys, cache, native, suspended, shut, made>>
      /\ UNCHANGED <<snapshot, fill, export>> /\ notice' \in BOOLEAN
  BY DEF RecordActivity, MayRenew, durable, volatile, Ind, Typed
<1>2. Kept /\ Carried /\ session' # NoSession
  BY <1>1, RenewedCalm, RenewedSession
<1> QED BY <1>1, <1>2, Beside

LEMMA TimePassesKeeps == ASSUME Ind, TimePasses PROVE Ind'
<1>1. /\ Live /\ session' = [session EXCEPT !.left = session.left - 1] /\ op' = op
      /\ faults' = faults
      /\ UNCHANGED <<envelope, deviceKeys, cache, native, suspended, shut, made>>
      /\ UNCHANGED <<snapshot, fill, export>> /\ notice' \in BOOLEAN
  BY DEF TimePasses, durable, volatile, Ind, Typed
<1>2. session \in Sessions /\ session.left - 1 \in 0..Lease
  BY <1>1, LiveSession DEF Live, Sessions, Lease
<1>3. session' \in Sessions /\ session'.id = session.id
  BY <1>1, <1>2 DEF Sessions
<1>4. session' # NoSession
  BY <1>3, Empties
<1>5. Kept /\ Carried
  BY <1>1, <1>3 DEF Ind, Typed, Kept, Carried
<1> QED BY <1>1, <1>4, <1>5, Beside

LEMMA ReadContextKeeps == ASSUME Ind, ReadContext PROVE Ind'
<1>1. /\ op' = op /\ faults' = faults /\ op.kind = "none"
      /\ UNCHANGED <<envelope, deviceKeys, cache, native, suspended, shut, made>>
      /\ UNCHANGED <<session, export>> /\ notice' \in BOOLEAN
  BY IdleOp DEF ReadContext, durable, Ind, Typed
<1>2. Kept
  <2>1. CASE /\ Live /\ session.key = envelope.key
             /\ snapshot' = [id |-> envelope.id, session |-> session.id, key |-> session.key]
             /\ fill' = [at |-> "ready", locked |-> FALSE, id |-> envelope.id, offered |-> Logins]
    <3>1. session \in Sessions
      BY <2>1, LiveSession
    <3>2. /\ envelope.id \in 0..MaxWrites /\ session.id \in 0..MaxSessions
          /\ session.key \in 0..MaxKeys
      BY <3>1, BoundsAssumption DEF Ind, Typed, Envelopes, Envelope, NoEnvelope, Sessions, Key, None
    <3>3. snapshot' \in Snapshots /\ snapshot'.id = envelope.id /\ snapshot'.key = envelope.key
      BY <2>1, <3>2 DEF Snapshots
    <3>4. fill' \in Fills /\ fill'.id = envelope.id /\ ~fill'.locked
      BY <2>1, <3>2 DEF Fills
    <3> QED BY <1>1, <3>3, <3>4 DEF Kept, Ind, Typed
  <2>2. CASE /\ ~Live /\ cache.id = envelope.id /\ snapshot' = NoSnapshot
             /\ fill' = [at |-> "ready", locked |-> TRUE, id |-> envelope.id,
                         offered |-> cache.logins]
    <3>1. cache.id \in 0..MaxWrites /\ cache.logins \subseteq Logins
      BY DEF Ind, Typed, Caches
    <3>2. fill' \in Fills /\ fill'.id = envelope.id /\ fill'.offered = cache.logins
      BY <2>2, <3>1 DEF Fills
    <3>3. cache.logins \subseteq envelope.granted
      BY <2>2 DEF Ind, Offered
    <3> QED BY <1>1, <2>2, <3>2, <3>3 DEF Kept, Ind, Typed
  <2> QED BY <2>1, <2>2 DEF ReadContext
<1>3. Carried
  BY <1>1 DEF Carried, Ind, Typed
<1> QED BY <1>1, <1>2, <1>3, Beside

LEMMA FillMovesKeeps == ASSUME Ind, Dispatch \/ FillEnds PROVE Ind'
<1>1. /\ op' = op /\ faults' = faults
      /\ UNCHANGED <<envelope, deviceKeys, cache, native, suspended, shut, made>>
      /\ UNCHANGED <<session, snapshot, export>> /\ notice' \in BOOLEAN
      /\ fill' = [fill EXCEPT !.at = "sent"] \/ fill' = NoFill
  BY DEF Dispatch, FillEnds, durable, Ind, Typed
<1>2. /\ fill' \in Fills /\ fill'.at # "ready" /\ fill'.id \in {fill.id, None}
  <2>1. fill \in Fills
    BY DEF Ind, Typed
  <2>2. CASE fill' = NoFill
    BY <2>2, Empties DEF NoFill
  <2>3. CASE fill' = [fill EXCEPT !.at = "sent"]
    BY <2>1, <2>3 DEF Fills
  <2> QED BY <1>1, <2>2, <2>3
<1>3. Kept /\ Carried
  BY <1>1, <1>2 DEF Kept, Carried, Ind, Typed
<1> QED BY <1>1, <1>3, Beside

LEMMA ExportStepKeeps == ASSUME Ind, VerifyExport \/ ExportFails PROVE Ind'
<1>1. /\ op' = op /\ faults' = faults /\ export.at \in {"verifying", "done"}
      /\ UNCHANGED <<envelope, deviceKeys, cache, native, suspended, shut, made>>
      /\ UNCHANGED <<session, snapshot, fill>> /\ notice' \in BOOLEAN
      /\ export' = [export EXCEPT !.at = "verified"] \/ export' = NoExport
  BY DEF VerifyExport, ExportFails, durable, Ind, Typed
<1>2. op'.kind # "return"
  BY <1>1 DEF Ind, Exported
<1>3. Kept /\ Carried
  BY <1>1, <1>2, ExportMoves
<1> QED BY <1>1, <1>3, Beside

LEMMA NoticeKeeps == ASSUME Ind, Notice PROVE Ind'
<1>1. /\ faults' = faults /\ notice' \in BOOLEAN
      /\ op' = op \/ (op.kind # "none" /\ op' = [op EXCEPT !.cleared = TRUE])
      /\ UNCHANGED <<envelope, deviceKeys, cache, native, suspended, shut, made>>
      /\ UNCHANGED <<session, fill, export>> /\ snapshot' = NoSnapshot
  BY DEF Notice, Idle, durable, Ind, Typed
<1>2. Kept /\ Carried
  BY <1>1 DEF Kept, Carried, Ind, Typed
<1> QED BY <1>1, <1>2, Beside

LEMMA WorkerStopsKeeps == ASSUME Ind, WorkerStops PROVE Ind'
<1>1. /\ Fault /\ notice' \in BOOLEAN /\ op' = NoOp /\ session' = session
      /\ UNCHANGED <<envelope, deviceKeys, cache, native, suspended, shut, made>>
      /\ snapshot' = NoSnapshot /\ fill' = NoFill /\ export' = NoExport
  BY DEF WorkerStops, Forgotten, durable
<1>2. Kept /\ Carried
  BY <1>1, Empties DEF Kept, Carried, Ind, Typed, NoFill, NoExport, NoOp
<1> QED BY <1>1, <1>2, Beside

LEMMA BrowserRestartsKeeps == ASSUME Ind, BrowserRestarts PROVE Ind'
<1> USE NothingRuns, Empties
<1>1. /\ Fault /\ notice' \in BOOLEAN /\ op' = NoOp /\ session' = NoSession
      /\ UNCHANGED <<envelope, deviceKeys, cache, native, made>>
      /\ suspended' = FALSE /\ shut' = FALSE
      /\ snapshot' = NoSnapshot /\ fill' = NoFill /\ export' = NoExport
  BY DEF BrowserRestarts, Forgotten, durable
<1>2. Kept /\ Carried /\ KeysMove /\ CacheMoves /\ Onward
  BY <1>1 DEF Kept, Carried, KeysMove, CacheMoves, Onward, NoFill, NoExport, NoSession
<1>3. Shut'
  BY <1>1 DEF Shut
<1>4. faults' \in 0..MaxFaults /\ native' \in BOOLEAN
  BY <1>1, FaultCounted DEF Ind, Typed
<1>5. op'.kind \notin Changes \cup {"read", "capture", "return"}
  BY <1>1
<1> QED BY <1>1, <1>2, <1>3, <1>4, <1>5, CalmStep

(* An operation begins: it has what it needs, and nothing else moves.        *)
LEMMA Beginning ==
  ASSUME Ind, op.kind = "none", op' \in Ops, op'.kind \in Kinds, op'.step \in 1..Length(op'.kind),
         op'.kind # "none", op'.base = None,
         UNCHANGED <<envelope, deviceKeys, cache, native, suspended, session, notice, fill, export,
                     faults>>,
         snapshot' \in {snapshot, NoSnapshot}, made' \in Made, shut' \in BOOLEAN,
         made.key <= made'.key, made.envelope <= made'.envelope, made.session <= made'.session,
         Making', Stored', Replaced', Held', Shut', Roomy',
         op'.kind = "return" => export.at = "verified" /\ ~export.moved
  PROVE  Ind'
<1> USE Empties
<1>1. Typed'
  BY DEF Ind, Typed
<1>2. Numbered'
  <2>1. made.key \in Nat /\ made.envelope \in Nat /\ made.session \in Nat
        /\ made'.key \in Nat /\ made'.envelope \in Nat /\ made'.session \in Nat
    BY DEF Ind, Typed, Made
  <2>2. /\ envelope.id \in Nat /\ envelope.key \in Nat /\ deviceKeys \subseteq Nat
        /\ session.id \in Nat /\ snapshot.id \in Nat /\ cache.id \in Nat /\ fill.id \in Nat
        /\ export.id \in Nat /\ export.session \in Nat
    BY DEF Ind, Typed, Envelopes, Envelope, NoEnvelope, Key, Sessions, NoSession, Snapshots,
           Caches, Fills, Exports, None
  <2>3. snapshot'.id <= made'.envelope
    BY <2>1, <2>2 DEF Ind, Numbered, NoSnapshot, None
  <2> QED BY <2>1, <2>2, <2>3 DEF Ind, Numbered
<1>3. Worked' /\ Openable'
  BY DEF Ind, Worked, Openable
<1>4. Decoded' /\ Offered'
  BY DEF Ind, Decoded, Offered, NoSnapshot
<1>5. Exported'
  BY DEF Ind, Exported
<1> QED BY <1>1, <1>2, <1>3, <1>4, <1>5 DEF Ind

LEMMA MakesBoth ==
  ASSUME Ind, Room, MakeBoth, NEW device \in BOOLEAN, NEW granted \in SUBSET Logins
  PROVE  /\ made' \in Made /\ made'.key = made.key + 1 /\ made'.envelope = made.envelope + 1
         /\ made'.session = made.session /\ made.session < MaxSessions
         /\ made.key \in Nat /\ made.envelope \in Nat /\ made.session \in Nat
         /\ NextEnvelope(made.key + 1, device, FALSE, granted) \in Envelope
<1> DEFINE key == made.key + 1
           number == made.envelope + 1
<1>1. made \in Made
  BY DEF Ind, Typed
<1>2. made.key \in Nat /\ made.envelope \in Nat /\ made.session \in Nat /\ made.session < MaxSessions
  BY <1>1 DEF Room, Made
<1>3. key \in 0..MaxKeys /\ key \in 1..MaxKeys /\ number \in 0..MaxWrites /\ number \in 1..MaxWrites
  BY <1>2, BoundsAssumption DEF Room
<1>4. made' = [made EXCEPT !.key = key, !.envelope = number]
  BY DEF MakeBoth
<1>5. NextEnvelope(key, device, FALSE, granted)
        = [id |-> number, key |-> key, device |-> device, hello |-> FALSE, granted |-> granted]
  BY DEF NextEnvelope
<1> HIDE DEF key, number
<1>6. made' \in Made /\ made'.key = key /\ made'.envelope = number /\ made'.session = made.session
  BY <1>1, <1>3, <1>4 DEF Made
<1>7. [id |-> number, key |-> key, device |-> device, hello |-> FALSE, granted |-> granted]
        \in Envelope
  BY <1>3 DEF Envelope, Key
<1>8. NextEnvelope(key, device, FALSE, granted) \in Envelope
  BY <1>5, <1>7, Zenon
<1> QED BY <1>2, <1>6, <1>8 DEF key, number

LEMMA ServesOp ==
  ASSUME NEW kind \in Kinds, NEW step \in 0..6, NEW next \in Envelopes, NEW old \in 0..MaxKeys,
         Serves(kind, step, next, old)
  PROVE  /\ op' \in Ops /\ op'.kind = kind /\ op'.step = step /\ op'.next = next
         /\ op'.old = old /\ op'.base = None
<1>1. op' = [NoOp EXCEPT !.kind = kind, !.step = step, !.next = next, !.old = old]
  BY DEF Serves
<1>2. NoOp \in Ops /\ NoOp.base = None
  BY Empties DEF NoOp
<1> HIDE DEF NoOp
<1> QED BY <1>1, <1>2 DEF Ops

(* The operations that make a new key and a new envelope. *)
LEMMA Renewing ==
  ASSUME Ind, Idle, Room, MakeBoth, NEW kind \in {"setup", "change", "restore"},
         NEW device \in BOOLEAN, NEW granted \in SUBSET Logins, NEW step \in 1..3,
         NEW old \in {None, envelope.key},
         Serves(kind, step, NextEnvelope(made.key + 1, device, FALSE, granted), old),
         kind = "restore" => ~device /\ step = 1, device => step = 1, shut' = FALSE,
         UNCHANGED <<durable, suspended, session, snapshot, notice, fill, export, faults>>
  PROVE  Ind'
<1> DEFINE next == NextEnvelope(made.key + 1, device, FALSE, granted)
<1>1. /\ made' \in Made /\ made'.key = made.key + 1 /\ made'.envelope = made.envelope + 1
      /\ made'.session = made.session /\ made.session < MaxSessions
      /\ made.key \in Nat /\ made.envelope \in Nat /\ made.session \in Nat
      /\ next \in Envelope
  BY MakesBoth
<1>2. next.id = made.envelope + 1 /\ next.key = made.key + 1 /\ next.device = device
  BY DEF NextEnvelope
<1>3. kind \in Kinds /\ step \in 0..6 /\ old \in 0..MaxKeys /\ next \in Envelopes
  <2>1. kind \in Kinds /\ step \in 0..6
    BY AllKinds
  <2>2. envelope.key \in 0..MaxKeys /\ None \in 0..MaxKeys
    BY BoundsAssumption DEF Envelopes, Ind, Typed, Envelope, NoEnvelope, Key, None
  <2>3. next \in Envelopes
    BY <1>1 DEF Envelopes
  <2> QED BY <2>1, <2>2, <2>3
<1> HIDE DEF next
<1>4. /\ op' \in Ops /\ op'.kind = kind /\ op'.step = step /\ op'.next = next
      /\ op'.old = old /\ op'.base = None
  BY <1>3, ServesOp DEF next
<1>5. op.kind = "none" /\ op'.kind # "none" /\ op'.kind \in Kinds /\ op'.step \in 1..Length(op'.kind)
  BY <1>3, <1>4, IdleOp DEF Length, Long
<1>6. UNCHANGED <<envelope, deviceKeys, cache, native, suspended, session, notice, fill, export,
                  faults>> /\ snapshot' \in {snapshot, NoSnapshot}
  BY DEF durable
<1>7. ~Written(op') /\ op'.kind \notin Changes \cup {"read", "capture", "return", "lock"}
  BY <1>4 DEF Written, Short, Long, Opening, Changes
<1>8. Making'
  <2>1. /\ envelope.id <= made.envelope /\ snapshot.id <= made.envelope
        /\ fill.id <= made.envelope /\ export.id <= made.envelope /\ cache.id <= made.envelope
    BY DEF Ind, Numbered
  <2>2. /\ envelope.id \in Nat /\ snapshot.id \in Nat /\ cache.id \in Nat /\ fill.id \in Nat
        /\ export.id \in Nat
    BY DEF Ind, Typed, Envelopes, Envelope, NoEnvelope, Snapshots, Caches, Fills, Exports, None
  <2>3. /\ envelope.id < next.id /\ snapshot.id < next.id /\ cache.id # next.id
        /\ fill.id < next.id /\ export.id < next.id
    BY <1>1, <1>2, <2>1, <2>2
  <2>4. op'.step > 1 => ~op'.next.device
    BY <1>2, <1>4
  <2> QED BY <1>1, <1>2, <1>4, <1>6, <1>7, <2>3, <2>4 DEF Making
<1>9. Stored' /\ Held' /\ Shut'
  BY <1>4, <1>7 DEF Stored, Held, Shut
<1>10. Replaced'
  <2>1. old <= made.key /\ old \in Nat
    BY <1>1, <1>3 DEF Ind, Numbered, None
  <2> QED BY <1>1, <1>2, <1>4, <2>1 DEF Replaced
<1>11. Roomy'
  BY <1>1, <1>7 DEF Roomy
<1>12. made.key <= made'.key /\ made.envelope <= made'.envelope /\ made.session <= made'.session
  BY <1>1
<1>13. shut' \in BOOLEAN
  OBVIOUS
<1> QED BY <1>1, <1>13, <1>4, <1>5, <1>6, <1>7, <1>8, <1>9, <1>10, <1>11, <1>12, Beginning

LEMMA BeginSetupKeeps == ASSUME Ind, NEW device \in BOOLEAN, BeginSetup(device) PROVE Ind'
<1>1. /\ Idle /\ Room /\ MakeBoth /\ shut' = FALSE
      /\ Serves("setup", FirstStep("setup", device),
                NextEnvelope(made.key + 1, device, FALSE, {}), None)
      /\ UNCHANGED <<durable, suspended, session, snapshot, notice, fill, export, faults>>
  BY DEF BeginSetup
<1>2. FirstStep("setup", device) \in 1..3 /\ (device => FirstStep("setup", device) = 1)
  BY DEF FirstStep
<1> QED BY <1>1, <1>2, Renewing

LEMMA BeginChangeKeeps == ASSUME Ind, NEW device \in BOOLEAN, BeginChange(device) PROVE Ind'
<1> DEFINE old == IF envelope.device THEN envelope.key ELSE None
<1>1. /\ Idle /\ Room /\ MakeBoth /\ shut' = FALSE
      /\ Serves("change", FirstStep("change", device),
                NextEnvelope(made.key + 1, device, FALSE, envelope.granted), old)
      /\ UNCHANGED <<durable, suspended, session, snapshot, notice, fill, export, faults>>
  BY DEF BeginChange
<1>2. FirstStep("change", device) \in 1..3 /\ (device => FirstStep("change", device) = 1)
  BY DEF FirstStep
<1>3. old \in {None, envelope.key} /\ envelope.granted \in SUBSET Logins
  BY DEF Ind, Typed, Envelopes, Envelope, NoEnvelope
<1> QED BY <1>1, <1>2, <1>3, Renewing

LEMMA BeginRestoreKeeps == ASSUME Ind, BeginRestore PROVE Ind'
<1> DEFINE old == IF envelope.device THEN envelope.key ELSE None
           device == FALSE
<1>1. /\ Idle /\ Room /\ MakeBoth /\ shut' = FALSE
      /\ Serves("restore", 1, NextEnvelope(made.key + 1, device, FALSE, {}), old)
      /\ UNCHANGED <<durable, suspended, session, snapshot, notice, fill, export, faults>>
  BY DEF BeginRestore
<1>2. /\ old \in {None, envelope.key} /\ device \in BOOLEAN /\ ~device /\ {} \in SUBSET Logins
      /\ 1 \in 1..3 /\ "restore" \in {"setup", "change", "restore"}
  OBVIOUS
<1> HIDE DEF old, device
<1> QED BY <1>1, <1>2, Renewing, Zenon

(* The operations that start a session of the stored vault. *)
LEMMA OpeningKeeps ==
  ASSUME Ind, Idle, envelope # NoEnvelope, made.session < MaxSessions, NEW kind \in Opening,
         Serves(kind, 1, envelope, None), snapshot' \in {snapshot, NoSnapshot}, shut' = FALSE,
         UNCHANGED <<durable, suspended, session, notice, fill, export, made, faults>>
  PROVE  Ind'
<1>1. UNCHANGED <<envelope, deviceKeys, cache, native, suspended, session, notice, fill, export,
                  made, faults>>
  BY DEF durable
<1>2. kind \in Kinds /\ 1 \in 0..6 /\ envelope \in Envelopes /\ None \in 0..MaxKeys
      /\ envelope \in Envelope
  BY AllKinds, BoundsAssumption DEF Ind, Typed, Envelopes, Opening, None
<1>3. /\ op' \in Ops /\ op'.kind = kind /\ op'.step = 1 /\ op'.next = envelope
      /\ op'.old = None /\ op'.base = None
  BY <1>2, ServesOp
<1>4. op.kind = "none" /\ op'.kind # "none" /\ op'.kind \in Kinds /\ op'.step \in 1..Length(op'.kind)
  BY <1>2, <1>3, IdleOp DEF Length, Opening, Short, Long
<1>5. /\ ~Writing(op') /\ op'.kind \notin {"change", "restore", "lock", "return"}
      /\ op'.kind \notin Changes \cup {"read", "capture", "return"}
  BY <1>3 DEF Writing, Short, Long, Opening, Changes
<1>6. Making' /\ Stored' /\ Replaced' /\ Held' /\ Shut'
  BY <1>1, <1>2, <1>3, <1>5 DEF Making, Stored, Replaced, Held, Shut
<1>7. Roomy'
  BY <1>1, <1>5 DEF Roomy
<1>8. made' \in Made /\ made' = made
  BY <1>1 DEF Ind, Typed
<1>9. made.key \in Nat /\ made.envelope \in Nat /\ made.session \in Nat
  BY DEF Ind, Typed, Made
<1>10. made.key <= made'.key /\ made.envelope <= made'.envelope /\ made.session <= made'.session
  BY <1>8, <1>9
<1>11. shut' \in BOOLEAN
  OBVIOUS
<1> QED BY <1>1, <1>3, <1>4, <1>5, <1>6, <1>7, <1>8, <1>10, <1>11, Beginning

LEMMA BeginHelloKeeps == ASSUME Ind, BeginHello PROVE Ind'
<1>1. /\ Idle /\ envelope.hello /\ made.session < MaxSessions /\ Serves("hello", 1, envelope, None)
      /\ shut' = FALSE /\ snapshot' \in {snapshot, NoSnapshot}
      /\ UNCHANGED <<durable, suspended, session, notice, fill, export, made, faults>>
  BY DEF BeginHello
<1>2. envelope # NoEnvelope /\ "hello" \in Opening
  BY <1>1 DEF NoEnvelope, Opening
<1> QED BY <1>1, <1>2, OpeningKeeps

LEMMA BeginUnlockKeeps == ASSUME Ind, NEW right \in BOOLEAN, BeginUnlock(right) PROVE Ind'
<1>1. /\ Idle /\ envelope # NoEnvelope /\ made.session < MaxSessions /\ shut' = FALSE
      /\ UNCHANGED <<durable, suspended, fill, made, faults>>
      /\ \/ Serves("unlock", 1, envelope, None) /\ UNCHANGED <<session, snapshot, notice, export>>
         \/ EndSession /\ UNCHANGED op
  BY DEF BeginUnlock
<1>2. CASE Serves("unlock", 1, envelope, None) /\ UNCHANGED <<session, snapshot, notice, export>>
  <2>1. /\ snapshot' \in {snapshot, NoSnapshot} /\ "unlock" \in Opening
        /\ UNCHANGED <<durable, suspended, session, notice, fill, export, made, faults>>
    BY <1>1, <1>2 DEF Opening
  <2> QED BY <1>1, <1>2, <2>1, OpeningKeeps
<1>3. CASE EndSession /\ UNCHANGED op
  <2>1. op' = NoOp /\ NoOp.kind = "none" /\ NoOp.kind \notin Changes \cup {"read", "capture", "return"}
    BY <1>1, <1>3, IdleOp, NothingRuns
  <2>2. Onward /\ KeysMove /\ CacheMoves
    BY <1>1, <2>1 DEF Onward, KeysMove, CacheMoves, durable
  <2>3. Kept /\ Carried /\ notice' \in BOOLEAN
    BY <1>1, <1>3, <2>1, EndsOrNot
  <2>4. Shut'
    BY <1>1, <2>1 DEF Shut
  <2>5. /\ UNCHANGED <<envelope, made>> /\ shut' \in BOOLEAN
        /\ suspended' \in BOOLEAN /\ native' \in BOOLEAN /\ faults' \in 0..MaxFaults
    BY <1>1 DEF Ind, Typed, durable
  <2> QED BY <2>1, <2>2, <2>3, <2>4, <2>5, CalmStep
<1> QED BY <1>1, <1>2, <1>3

(* No operation begins: the session is cleared, or only the memory is. *)
LEMMA OnlyClears ==
  ASSUME Ind, Idle, UNCHANGED op, UNCHANGED <<durable, suspended, fill, shut, made, faults>>,
         EndSession \/ (snapshot' = NoSnapshot /\ UNCHANGED <<session, notice, export>>)
  PROVE  Ind'
<1>1. /\ op' = NoOp /\ op' = op /\ op'.kind # "return" /\ fill' = fill /\ faults' = faults
      /\ UNCHANGED <<envelope, deviceKeys, cache, native, suspended, shut, made>>
  BY IdleOp, NothingRuns DEF durable, NoOp
<1>2. Kept /\ Carried /\ notice' \in BOOLEAN
  <2>1. CASE EndSession
    BY <1>1, <2>1, Ended
  <2>2. CASE snapshot' = NoSnapshot /\ UNCHANGED <<session, notice, export>>
    BY <1>1, <2>2 DEF Kept, Carried, Ind, Typed
  <2> QED BY <2>1, <2>2
<1> QED BY <1>1, <1>2, Beside

LEMMA BeginStatusKeeps == ASSUME Ind, BeginStatus PROVE Ind'
<1>1. /\ Idle /\ envelope # NoEnvelope /\ UNCHANGED <<durable, suspended, fill, shut, made, faults>>
      /\ \/ EndSession /\ UNCHANGED op
         \/ snapshot' = NoSnapshot /\ UNCHANGED <<session, notice, export>> /\ UNCHANGED op
         \/ /\ snapshot' = NoSnapshot /\ UNCHANGED <<session, notice, export>>
            /\ MayOpenItself /\ made.session < MaxSessions /\ Serves("status", 1, envelope, None)
  BY DEF BeginStatus
<1>2. CASE UNCHANGED op
  BY <1>1, <1>2, OnlyClears
<1>3. CASE /\ snapshot' = NoSnapshot /\ UNCHANGED <<session, notice, export>>
           /\ MayOpenItself /\ made.session < MaxSessions /\ Serves("status", 1, envelope, None)
  <2>1. shut' = FALSE
    BY <1>1, <1>3 DEF MayOpenItself, Ind, Typed, Shut
  <2>2. /\ snapshot' \in {snapshot, NoSnapshot} /\ "status" \in Opening
        /\ UNCHANGED <<durable, suspended, session, notice, fill, export, made, faults>>
    BY <1>1, <1>3 DEF Opening
  <2> QED BY <1>1, <1>3, <2>1, <2>2, OpeningKeeps
<1> QED BY <1>1, <1>2, <1>3

(* An operation that makes no envelope as it begins. *)
LEMMA BeginsOp ==
  ASSUME Ind, Idle, NEW kind \in Kinds, NEW step \in 1..Length(kind), Begins(kind, step),
         kind \in {"lock", "return", "read", "capture"} \cup Changes, kind \in Changes => step = 1
  PROVE  /\ op' \in Ops /\ op'.kind = kind /\ op'.step = step /\ op'.base = None
         /\ op.kind = "none" /\ op'.kind # "none"
         /\ Making' /\ Stored' /\ Replaced'
<1>1. op' = [NoOp EXCEPT !.kind = kind, !.step = step] /\ NoOp \in Ops /\ NoOp.base = None
  BY Empties DEF Begins, NoOp
<1>2. step \in 0..6
  BY DEF Length
<1> HIDE DEF NoOp
<1>3. op' \in Ops /\ op'.kind = kind /\ op'.step = step /\ op'.base = None
  BY <1>1, <1>2 DEF Ops
<1>4. kind # "none" /\ op.kind = "none"
  BY AllKinds, IdleOp
<1>5. kind \notin {"change", "restore"}
  BY DEF Changes
<1>6. ~Writing(op') /\ ~Written(op')
  BY <1>3 DEF Writing, Written, Short, Long, Opening, Changes
<1> QED BY <1>3, <1>4, <1>5, <1>6 DEF Making, Stored, Replaced

LEMMA BeginLockKeeps == ASSUME Ind, BeginLock PROVE Ind'
<1> DEFINE step == IF envelope.device THEN 1 ELSE 2
<1>1. /\ Idle /\ Begins("lock", step)
      /\ UNCHANGED <<envelope, deviceKeys, cache, native, suspended, session, notice, fill, export,
                     faults>>
      /\ UNCHANGED <<shut, made>> /\ snapshot' \in {snapshot, NoSnapshot}
  BY DEF BeginLock, durable
<1>2. "lock" \in Kinds /\ step \in 1..Length("lock") /\ "lock" \notin Changes
      /\ (step = 2 => ~envelope.device)
  BY AllKinds DEF Length, Long, Short, Changes
<1> HIDE DEF step
<1>3. /\ op' \in Ops /\ op'.kind = "lock" /\ op'.step = step /\ op'.base = None
      /\ op.kind = "none" /\ op'.kind # "none"
      /\ Making' /\ Stored' /\ Replaced'
  BY <1>1, <1>2, BeginsOp
<1>4. Held' /\ Roomy'
  BY <1>3 DEF Held, Roomy, Changes, Starting
<1>5. Shut'
  BY <1>1, <1>2, <1>3 DEF Ind, Shut
<1>6. /\ made' \in Made /\ made' = made /\ shut' \in BOOLEAN
  BY <1>1 DEF Ind, Typed
<1>7. made.key \in Nat /\ made.envelope \in Nat /\ made.session \in Nat
  BY DEF Ind, Typed, Made
<1>8. made.key <= made'.key /\ made.envelope <= made'.envelope /\ made.session <= made'.session
  BY <1>6, <1>7
<1>9. op'.kind \in Kinds /\ op'.step \in 1..Length(op'.kind) /\ op'.kind # "return"
  BY <1>2, <1>3
<1> QED BY <1>1, <1>3, <1>4, <1>5, <1>6, <1>8, <1>9, Beginning

LEMMA BeginOpenKeeps ==
  ASSUME Ind, NEW kind \in Changes \cup {"read", "capture"}, BeginOpen(kind)
  PROVE  Ind'
<1>1. /\ Idle /\ envelope # NoEnvelope /\ (kind \in Changes => made.envelope < MaxWrites)
      /\ UNCHANGED <<durable, suspended, fill, shut, made, faults>>
      /\ \/ /\ Live /\ Begins(kind, 1) /\ snapshot' \in {snapshot, NoSnapshot}
            /\ UNCHANGED <<session, notice, export>>
         \/ EndSession /\ UNCHANGED op
  BY DEF BeginOpen
<1>2. CASE EndSession /\ UNCHANGED op
  BY <1>1, <1>2, OnlyClears
<1>3. CASE /\ Live /\ Begins(kind, 1) /\ snapshot' \in {snapshot, NoSnapshot}
           /\ UNCHANGED <<session, notice, export>>
  <2>1. kind \in Kinds /\ 1 \in 1..Length(kind)
    BY AllKinds DEF Length, Long, Short, Changes
  <2>2. /\ op' \in Ops /\ op'.kind = kind /\ op'.step = 1 /\ op'.base = None
        /\ op.kind = "none" /\ op'.kind # "none"
        /\ Making' /\ Stored' /\ Replaced'
    BY <1>1, <1>3, <2>1, BeginsOp
  <2>3. /\ UNCHANGED <<envelope, deviceKeys, cache, native, suspended, session, notice, fill,
                       export, faults>>
        /\ UNCHANGED <<shut, made>>
    BY <1>1, <1>3 DEF durable
  <2>4. session # NoSession /\ ~shut /\ kind \notin {"lock", "return"}
    BY <1>3, LiveSession DEF Changes
  <2>5. Held' /\ Shut'
    BY <1>1, <2>2, <2>3, <2>4 DEF Held, Shut
  <2>6. Roomy'
    <3>1. ~Starting(op')
      BY <2>2 DEF Starting, Changes
    <3> QED BY <1>1, <2>2, <2>3, <3>1 DEF Roomy
  <2>7. /\ made' \in Made /\ made' = made /\ shut' \in BOOLEAN
    BY <2>3 DEF Ind, Typed
  <2>8. made.key \in Nat /\ made.envelope \in Nat /\ made.session \in Nat
    BY DEF Ind, Typed, Made
  <2>9. made.key <= made'.key /\ made.envelope <= made'.envelope /\ made.session <= made'.session
    BY <2>7, <2>8
  <2>10. op'.kind \in Kinds /\ op'.step \in 1..Length(op'.kind) /\ op'.kind # "return"
    BY <2>1, <2>2, <2>4
  <2> QED BY <1>3, <2>2, <2>3, <2>5, <2>6, <2>7, <2>9, <2>10, Beginning
<1> QED BY <1>1, <1>2, <1>3

LEMMA BeginReturnKeeps == ASSUME Ind, BeginReturn PROVE Ind'
<1>1. /\ Idle /\ export.at = "verified"
      /\ UNCHANGED <<durable, suspended, fill, shut, made, faults>>
      /\ \/ /\ Live /\ StillVerified /\ Begins("return", 1)
            /\ UNCHANGED <<session, snapshot, notice, export>>
         \/ /\ export' = NoExport /\ UNCHANGED op
            /\ \/ UNCHANGED <<session, snapshot, notice>>
               \/ /\ session' = NoSession /\ snapshot' = NoSnapshot
                  /\ notice' = (notice \/ session # NoSession)
  BY DEF BeginReturn
<1>2. CASE /\ Live /\ StillVerified /\ Begins("return", 1)
           /\ UNCHANGED <<session, snapshot, notice, export>>
  <2>1. "return" \in Kinds /\ 1 \in 1..Length("return") /\ "return" \notin Changes
    BY AllKinds DEF Length, Long, Short, Changes
  <2>2. /\ op' \in Ops /\ op'.kind = "return" /\ op'.step = 1 /\ op'.base = None
        /\ op.kind = "none" /\ op'.kind # "none"
        /\ Making' /\ Stored' /\ Replaced'
    BY <1>1, <1>2, <2>1, BeginsOp
  <2>3. /\ UNCHANGED <<envelope, deviceKeys, cache, native, suspended, session, notice, fill,
                       export, faults>>
        /\ UNCHANGED <<shut, made>> /\ snapshot' \in {snapshot, NoSnapshot}
    BY <1>1, <1>2 DEF durable
  <2>4. session # NoSession /\ ~shut
    BY <1>2, LiveSession
  <2>5. Held' /\ Shut' /\ Roomy'
    BY <2>1, <2>2, <2>3, <2>4 DEF Held, Shut, Roomy, Starting
  <2>6. /\ made' \in Made /\ made' = made /\ shut' \in BOOLEAN
    BY <2>3 DEF Ind, Typed
  <2>7. made.key \in Nat /\ made.envelope \in Nat /\ made.session \in Nat
    BY DEF Ind, Typed, Made
  <2>8. made.key <= made'.key /\ made.envelope <= made'.envelope /\ made.session <= made'.session
    BY <2>6, <2>7
  <2>9. op'.kind \in Kinds /\ op'.step \in 1..Length(op'.kind)
    BY <2>1, <2>2
  <2>10. ~export.moved
    BY <1>1, <1>2 DEF StillVerified, Ind, Exported
  <2> QED BY <1>1, <2>2, <2>3, <2>5, <2>6, <2>8, <2>9, <2>10, Beginning
<1>3. CASE /\ export' = NoExport /\ UNCHANGED op
           /\ \/ UNCHANGED <<session, snapshot, notice>>
              \/ /\ session' = NoSession /\ snapshot' = NoSnapshot
                 /\ notice' = (notice \/ session # NoSession)
  <2>1. /\ op' = op /\ op' = NoOp /\ NoOp.kind # "return" /\ faults' = faults
        /\ UNCHANGED <<envelope, deviceKeys, cache, native, suspended, shut, made, fill>>
        /\ notice' \in BOOLEAN
    BY <1>1, <1>3, IdleOp DEF durable, NoOp, Ind, Typed
  <2>2. Kept
    BY <1>3, <2>1 DEF Kept, Ind, Typed, NoSession
  <2>3. Carried
    BY <1>3, <2>1, Empties DEF Carried, NoExport
  <2> QED BY <2>1, <2>2, <2>3, Beside
<1> QED BY <1>1, <1>2, <1>3

(* What an operation opens is the stored vault, with the key of the session. *)
LEMMA OpensStored ==
  ASSUME Ind, At("decrypt"), SameSnapshot \/ session.key = envelope.key
  PROVE  /\ Opened = envelope.id /\ session.key = envelope.key /\ session \in Sessions
         /\ envelope \in Envelope
         /\ op.kind \in Changes \cup {"read", "capture"} /\ op.step = 1
<1>1. op.kind \in Changes \cup {"read", "capture"} /\ op.step = 1
  BY Reached DEF Place
<1>2. session \in Sessions /\ envelope \in Envelope
  BY <1>1 DEF Ind, Held, Typed, Envelopes, Changes
<1>3. CASE SameSnapshot
  <2>1. snapshot.id = envelope.id /\ snapshot.key = session.key /\ snapshot.id # None
    BY <1>2, <1>3, Empties DEF SameSnapshot
  <2>2. snapshot.key = envelope.key
    BY <2>1 DEF Ind, Decoded
  <2> QED BY <1>1, <1>2, <1>3, <2>1, <2>2 DEF Opened
<1>4. CASE ~SameSnapshot
  BY <1>1, <1>2, <1>4 DEF Opened
<1> QED BY <1>3, <1>4

(* The operation decrypts and makes nothing, or it ends.                     *)
LEMMA LooksKeeps ==
  ASSUME Ind, At("decrypt"),
         UNCHANGED <<durable, suspended, session, notice, fill, export, shut, made, faults>>,
         \/ snapshot' = NoSnapshot
         \/ /\ snapshot' \in Snapshots /\ snapshot'.id = envelope.id
            /\ snapshot'.key = envelope.key,
         \/ op' = NoOp
         \/ /\ op.kind \notin Changes
            /\ op' = [op EXCEPT !.step = 2, !.base = envelope.id]
  PROVE  Ind'
<1>1. op.kind \in Changes \cup {"read", "capture"} /\ op.step = 1 /\ op.kind # "none"
  BY Reached DEF Place
<1>2. /\ UNCHANGED <<envelope, deviceKeys, cache, native, made>>
      /\ UNCHANGED <<suspended, session, notice, fill, export, shut, faults>>
  BY DEF durable
<1>3. op \in Ops /\ envelope.id \in 0..MaxWrites
  BY BoundsAssumption DEF Ind, Typed, Envelopes, Envelope, NoEnvelope, None
<1>4. Onward
  <2>1. CASE op' = NoOp
    BY <2>1 DEF Onward
  <2>2. CASE op.kind \notin Changes /\ op' = [op EXCEPT !.step = 2, !.base = envelope.id]
    <3>1. /\ op' \in Ops /\ op'.kind = op.kind /\ op'.step = 2 /\ op'.next = op.next
          /\ op'.old = op.old /\ op'.base = envelope.id
      <4>1. 2 \in 0..6
        OBVIOUS
      <4>2. op' = [[op EXCEPT !.step = 2] EXCEPT !.base = envelope.id]
        BY <2>2
      <4> DEFINE second == [op EXCEPT !.step = 2]
      <4>3. /\ second \in Ops /\ second.kind = op.kind /\ second.step = 2
            /\ second.next = op.next /\ second.old = op.old
        BY <1>3, <4>1 DEF Ops
      <4> HIDE DEF second
      <4>4. op' = [second EXCEPT !.base = envelope.id]
        BY <4>2 DEF second
      <4> QED BY <1>3, <4>3, <4>4 DEF Ops
    <3>2. op.kind \in {"read", "capture"} /\ 2 \in 1..Length(op.kind)
      BY <1>1, <2>2 DEF Length, Short, Long
    <3>3. ~Writing(op') /\ ~Written(op') /\ ~Written(op) /\ ~Starting(op')
      BY <3>1, <3>2 DEF Writing, Written, Starting, Short, Long, Opening
    <3> QED BY <1>1, <2>2, <3>1, <3>2, <3>3 DEF Onward
  <2> QED BY <2>1, <2>2
<1>5. Kept /\ Carried
  BY <1>2 DEF Kept, Carried, Ind, Typed
<1>6. KeysMove /\ CacheMoves
  BY <1>2 DEF KeysMove, CacheMoves
<1>7. Shut'
  BY <1>1, <1>2, <1>4, StaysShut DEF Changes
<1>8. /\ suspended' \in BOOLEAN /\ native' \in BOOLEAN /\ notice' \in BOOLEAN
      /\ shut' \in BOOLEAN /\ faults' \in 0..MaxFaults
  BY <1>2 DEF Ind, Typed
<1>9. op'.kind \in Changes \cup {"read", "capture", "return"} => session' # NoSession
  BY <1>2, <1>4, WorksIn
<1> QED BY <1>2, <1>4, <1>5, <1>6, <1>7, <1>8, <1>9, CalmStep

(* A change makes the next envelope, of the key that it keeps. *)
LEMMA ChangesKeeps ==
  ASSUME Ind, At("decrypt"), SameSnapshot \/ session.key = envelope.key, Live,
         op.kind \in Changes, NEW hello \in BOOLEAN, NEW granted \in SUBSET Logins,
         UNCHANGED <<durable, suspended, session, notice, fill, export, shut, faults>>,
         snapshot' \in Snapshots, snapshot'.id = envelope.id, snapshot'.key = envelope.key,
         made' = [made EXCEPT !.envelope = made.envelope + 1],
         op' = [op EXCEPT !.step = 2, !.base = envelope.id,
                  !.next = NextEnvelope(session.key, envelope.device, hello, granted)]
  PROVE  Ind'
<1> DEFINE next == NextEnvelope(session.key, envelope.device, hello, granted)
           number == made.envelope + 1
<1>1. /\ session.key = envelope.key /\ session \in Sessions /\ envelope \in Envelope
      /\ op.step = 1
  BY OpensStored
<1>2. /\ UNCHANGED <<envelope, deviceKeys, cache, native>>
      /\ UNCHANGED <<suspended, session, notice, fill, export, shut, faults>>
  BY DEF durable
<1>3. /\ made \in Made /\ made.envelope \in Nat /\ made.key \in Nat /\ made.session \in Nat
      /\ made.envelope < MaxWrites
  BY <1>1 DEF Ind, Typed, Made, Roomy
<1>4. number \in 0..MaxWrites /\ number \in 1..MaxWrites
  BY <1>3, BoundsAssumption
<1>5. next = [id |-> number, key |-> envelope.key, device |-> envelope.device, hello |-> hello,
              granted |-> granted]
  BY <1>1 DEF NextEnvelope
<1> HIDE DEF number
<1>6. made' \in Made /\ made'.envelope = number /\ made'.key = made.key /\ made'.session = made.session
  BY <1>3, <1>4 DEF Made, number
<1>7. next \in Envelope /\ next.id = number /\ next.key = envelope.key /\ next.device = envelope.device
  <2>1. envelope.key \in Key /\ envelope.device \in BOOLEAN
    BY <1>1 DEF Envelope
  <2>2. [id |-> number, key |-> envelope.key, device |-> envelope.device, hello |-> hello,
         granted |-> granted] \in Envelope
    BY <1>4, <2>1 DEF Envelope
  <2> QED BY <1>5, <2>2
<1>8. op \in Ops /\ envelope.id \in 0..MaxWrites /\ next \in Envelopes
  BY <1>1, <1>7, BoundsAssumption DEF Ind, Typed, Envelope, Envelopes
<1> HIDE DEF next
<1>9. /\ op' \in Ops /\ op'.kind = op.kind /\ op'.step = 2 /\ op'.next = next
      /\ op'.base = envelope.id
  <2>1. op' = [op EXCEPT !.step = 2, !.base = envelope.id, !.next = next]
    BY DEF next
  <2>2. 2 \in 0..6
    OBVIOUS
  <2> DEFINE second == [op EXCEPT !.step = 2]
             third == [second EXCEPT !.base = envelope.id]
  <2>3. op' = [third EXCEPT !.next = next]
    BY <2>1
  <2>4. second \in Ops /\ second.kind = op.kind /\ second.step = 2
    BY <1>8, <2>2 DEF Ops
  <2> HIDE DEF second
  <2>5. third \in Ops /\ third.kind = op.kind /\ third.step = 2 /\ third.base = envelope.id
    BY <1>8, <2>4 DEF Ops
  <2> HIDE DEF third
  <2> QED BY <1>8, <2>3, <2>5 DEF Ops
<1>10. /\ op.kind \notin {"none", "lock", "return", "setup", "change", "restore"}
       /\ ~Written(op') /\ ~Starting(op') /\ 2 \in 1..Length(op.kind)
  BY <1>9 DEF Changes, Written, Starting, Short, Long, Opening, Length
<1>11. Typed'
  BY <1>2, <1>6, <1>9, <1>10 DEF Ind, Typed
<1>12. /\ envelope.id <= made.envelope /\ snapshot'.id <= made.envelope
       /\ fill.id <= made.envelope /\ export.id <= made.envelope /\ cache.id <= made.envelope
       /\ envelope.key <= made.key
  BY <1>2 DEF Ind, Numbered
<1>13. /\ envelope.id \in Nat /\ snapshot'.id \in Nat /\ cache.id \in Nat /\ fill.id \in Nat
       /\ export.id \in Nat
  BY <1>8, BoundsAssumption DEF Ind, Typed, Caches, Fills, Exports
<1>14. number = made.envelope + 1
  BY DEF number
<1>15. Numbered'
  BY <1>2, <1>3, <1>6, <1>12, <1>13, <1>14 DEF Ind, Numbered
<1>16. Making'
  <2>1. /\ envelope.id < next.id /\ snapshot'.id < next.id /\ cache.id # next.id
        /\ fill.id < next.id /\ export.id < next.id
    BY <1>3, <1>7, <1>12, <1>13, <1>14
  <2> QED BY <1>2, <1>6, <1>7, <1>9, <1>10, <1>12, <2>1 DEF Making
<1>17. Stored' /\ Replaced' /\ Worked' /\ Roomy'
  BY <1>2, <1>9, <1>10 DEF Stored, Replaced, Worked, Roomy
<1>18. Decoded' /\ Offered' /\ Openable'
  BY <1>2 DEF Ind, Decoded, Offered, Openable
<1>19. Held' /\ Shut' /\ Exported'
  BY <1>2, <1>9, <1>10, LiveSession DEF Ind, Held, Shut, Exported
<1> QED BY <1>11, <1>15, <1>16, <1>17, <1>18, <1>19 DEF Ind

LEMMA DecryptKeeps == ASSUME Ind, Decrypt PROVE Ind'
<1>1. /\ At("decrypt")
      /\ UNCHANGED <<durable, suspended, session, notice, fill, export, shut, faults>>
  BY DEF Decrypt
<1> DEFINE opened == [id |-> Opened, session |-> session.id, key |-> session.key]
<1>2. ASSUME SameSnapshot \/ session.key = envelope.key
      PROVE  /\ Opened = envelope.id
             /\ opened \in Snapshots /\ opened.id = envelope.id /\ opened.key = envelope.key
  <2>1. Opened = envelope.id /\ session.key = envelope.key /\ session \in Sessions
        /\ envelope \in Envelope
    BY <1>1, <1>2, OpensStored
  <2>2. envelope.id \in 0..MaxWrites /\ session.id \in 0..MaxSessions /\ session.key \in 0..MaxKeys
    BY <2>1, BoundsAssumption DEF Envelope, Sessions, Key
  <2> QED BY <2>1, <2>2 DEF Snapshots
<1> HIDE DEF opened
<1>3. CASE op' = NoOp /\ snapshot' = NoSnapshot /\ UNCHANGED made
  BY <1>1, <1>3, LooksKeeps
<1>4. CASE /\ SameSnapshot \/ session.key = envelope.key
           /\ op' = NoOp /\ snapshot' = opened /\ UNCHANGED made
  <2>1. snapshot' \in Snapshots /\ snapshot'.id = envelope.id /\ snapshot'.key = envelope.key
    BY <1>2, <1>4
  <2> QED BY <1>1, <1>4, <2>1, LooksKeeps
<1>5. CASE (SameSnapshot \/ session.key = envelope.key) /\ Live /\ Decrypted
  <2>1. snapshot' = opened
    BY <1>5 DEF Decrypted, opened
  <2>2. snapshot' \in Snapshots /\ snapshot'.id = envelope.id /\ snapshot'.key = envelope.key
    BY <1>2, <1>5, <2>1
  <2>3. Opened = envelope.id
    BY <1>2, <1>5
  <2>4. CASE op.kind \notin Changes
    <3>1. op' = [op EXCEPT !.step = 2, !.base = envelope.id] /\ UNCHANGED made
      BY <1>5, <2>3, <2>4 DEF Decrypted
    <3> QED BY <1>1, <2>2, <2>4, <3>1, LooksKeeps
  <2>5. CASE op.kind \in Changes
    <3> DEFINE hello == CASE op.kind = "enroll" -> TRUE
                          [] op.kind = "revoke" -> FALSE
                          [] OTHER -> envelope.hello
    <3>1. made' = [made EXCEPT !.envelope = made.envelope + 1]
      BY <1>5, <2>5 DEF Decrypted
    <3>2. PICK granted \in Wanted(envelope.granted) :
            op' = [op EXCEPT !.step = 2, !.base = envelope.id,
                     !.next = NextEnvelope(session.key, envelope.device, hello, granted)]
      BY <1>5, <2>3, <2>5 DEF Decrypted
    <3>3. envelope.granted \subseteq Logins /\ envelope.hello \in BOOLEAN
      <4>1. envelope \in Envelope
        BY <1>1, <1>5, OpensStored
      <4> QED BY <4>1 DEF Envelope
    <3>4. granted \in SUBSET Logins
      BY <3>3 DEF Wanted
    <3>5. hello \in BOOLEAN
      BY <3>3
    <3> HIDE DEF hello
    <3> QED BY <1>1, <1>5, <2>2, <2>5, <3>1, <3>2, <3>4, <3>5, ChangesKeeps
  <2> QED BY <2>4, <2>5
<1> QED BY <1>1, <1>3, <1>4, <1>5 DEF Decrypt, Finish, opened

(* An operation that ends without having stored anything. *)
LEMMA GivesUp ==
  ASSUME Ind, op.kind \notin {"none", "lock"}, op' = NoOp, Fault \/ faults' = faults,
         UNCHANGED <<envelope, deviceKeys, cache, suspended, fill, shut, made>>,
         native' \in BOOLEAN,
         \/ EndSession
         \/ snapshot' \in {snapshot, NoSnapshot} /\ UNCHANGED <<session, notice, export>>
  PROVE  Ind'
<1> USE NothingRuns
<1>1. Onward /\ KeysMove /\ CacheMoves
  BY DEF Onward, KeysMove, CacheMoves
<1>2. Kept /\ Carried /\ notice' \in BOOLEAN /\ (session = NoSession => session' = NoSession)
  <2>1. CASE EndSession
    <3>1. fill' = fill /\ op'.kind # "return"
      OBVIOUS
    <3> QED BY <2>1, <3>1, EndsOrNot
  <2>2. CASE snapshot' \in {snapshot, NoSnapshot} /\ UNCHANGED <<session, notice, export>>
    BY <2>2 DEF Kept, Carried, Ind, Typed
  <2> QED BY <2>1, <2>2
<1>3. Shut'
  BY <1>1, <1>2, StaysShut
<1>4. /\ UNCHANGED <<envelope, made>> /\ suspended' \in BOOLEAN /\ shut' \in BOOLEAN
  BY DEF Ind, Typed
<1>5. faults' \in 0..MaxFaults
  BY FaultCounted
<1>6. op'.kind \notin Changes \cup {"read", "capture", "return"}
  OBVIOUS
<1> QED BY <1>1, <1>2, <1>3, <1>4, <1>5, <1>6, CalmStep

(* What an export remembers. *)
LEMMA MovedExport ==
  ASSUME Ind, Moved
  PROVE  /\ export' \in Exports /\ export'.at = export.at /\ export'.id = export.id
         /\ export'.session = export.session
<1>1. export \in Exports /\ (export.at # "idle") \in BOOLEAN
  BY DEF Ind, Typed
<1>2. export' = [export EXCEPT !.moved = export.at # "idle"]
  BY DEF Moved
<1> QED BY <1>1, <1>2 DEF Exports

(* The vault is written. *)
LEMMA Stores ==
  ASSUME Ind, At("write"), envelope' = op.next, Moved, Continue,
         snapshot' \in {snapshot, NoSnapshot},
         UNCHANGED <<deviceKeys, cache, native, suspended, session, notice, fill, shut, made,
                     faults>>
  PROVE  Ind'
<1> USE Empties, NothingRuns
<1>1. /\ op.kind \in {"restore", "setup", "change"} \cup Short \cup Long
      /\ op.kind \in Kinds /\ op.kind # "none" /\ op.step \in 1..Length(op.kind)
      /\ Writing(op)
      /\ op.step = IF op.kind = "restore" THEN 1 ELSE IF op.kind \in Long THEN 4 ELSE 3
  BY Reached DEF Place, Writing, Short, Long
<1>2. \/ op' = NoOp
      \/ /\ op' \in Ops /\ op.step < Length(op.kind) /\ op'.kind = op.kind
         /\ op'.step = op.step + 1 /\ op'.next = op.next /\ op'.old = op.old
         /\ op'.base = op.base /\ op'.cleared = op.cleared
  BY <1>1, Continues
<1>3. /\ op.next \in Envelope /\ op.next.id = made.envelope /\ op.next.key <= made.key
      /\ snapshot.id < op.next.id /\ fill.id < op.next.id /\ export.id < op.next.id
      /\ cache.id = op.next.id => cache.logins \subseteq op.next.granted
  BY <1>1 DEF Ind, Making
<1>4. op.kind \notin {"lock", "read", "capture", "return", "status", "unlock", "hello"}
  BY <1>1 DEF Short, Long
<1>5. ~Writing(op') /\ (op' = NoOp \/ Written(op'))
  BY <1>1, <1>2 DEF Writing, Written, Short, Long
<1>6. /\ export' \in Exports /\ export'.at = export.at /\ export'.id = export.id
      /\ export'.session = export.session
  BY MovedExport
<1>7. op.next.id \in Nat /\ 0 < op.next.id /\ made.envelope \in Nat
  BY <1>3 DEF Envelope
<1>8. snapshot' \in Snapshots /\ snapshot'.id < op.next.id
  BY <1>3, <1>7 DEF Ind, Typed, NoSnapshot, None
<1>9. Typed'
  <2>1. op' \in Ops /\ (op'.kind = "none" => op' = NoOp)
        /\ (op'.kind # "none" => op'.step \in 1..Length(op'.kind))
    <3>1. CASE op' = NoOp
      BY <3>1
    <3>2. CASE op' # NoOp
      <4>1. op'.step \in 1..Length(op.kind)
        BY <1>1, <1>2, <3>2 DEF Length
      <4> QED BY <1>1, <1>2, <3>2, <4>1
    <3> QED BY <3>1, <3>2
  <2> QED BY <1>3, <1>6, <1>8, <2>1 DEF Ind, Typed, Envelopes
<1>10. Numbered'
  <2>1. snapshot'.id <= made.envelope
    BY <1>3, <1>7, <1>8 DEF Snapshots
  <2>2. op.next.id <= made.envelope
    BY <1>3, <1>7
  <2> QED BY <1>3, <1>6, <2>1, <2>2 DEF Ind, Numbered
<1>11. Making' /\ Stored'
  BY <1>2, <1>3, <1>5 DEF Making, Stored
<1>12. Replaced' /\ Worked'
  BY <1>2, <1>5 DEF Ind, Replaced, Worked
<1>13. Decoded' /\ Offered'
  BY <1>3, <1>7, <1>8 DEF Decoded, Offered, Snapshots
<1>14. Held'
  BY <1>2, <1>3, <1>4 DEF Ind, Held
<1>15. Shut'
  BY <1>1, <1>2, <1>4 DEF Ind, Shut
<1>16. Exported'
  <2>1. op'.kind # "return" /\ export'.id # op.next.id
    BY <1>2, <1>3, <1>4, <1>6, <1>7
  <2> QED BY <1>6, <2>1 DEF Ind, Exported
<1>17. Roomy'
  <2>1. CASE op' = NoOp
    BY <2>1 DEF Roomy
  <2>2. CASE op' # NoOp
    <3>1. op'.kind = op.kind /\ op'.step = op.step + 1 /\ op'.step # 1
      BY <1>1, <1>2, <2>2
    <3>2. Starting(op') => Starting(op)
      BY <1>1, <3>1 DEF Starting, Short, Long
    <3> QED BY <3>1, <3>2 DEF Ind, Roomy
  <2> QED BY <2>1, <2>2
<1>18. Openable'
  <2>1. CASE op.kind \in Changes
    <3>1. op.next.key = envelope.key /\ op.next.device = envelope.device
      BY <1>1, <2>1 DEF Ind, Making
    <3> QED BY <3>1 DEF Ind, Openable
  <2>2. CASE op.kind = "restore"
    <3>1. ~op.next.device
      BY <1>1, <2>2 DEF Ind, Making
    <3> QED BY <3>1 DEF Openable
  <2>3. CASE op.kind \in {"setup", "change"}
    <3>1. op.step = 3
      BY <1>1, <2>3 DEF Long
    <3>2. op.next.device => op.next.key \in deviceKeys
      BY <1>1, <2>3, <3>1 DEF Ind, Making
    <3> QED BY <3>2 DEF Openable
  <2> QED BY <1>1, <2>1, <2>2, <2>3 DEF Short, Long, Changes
<1> QED BY <1>9, <1>10, <1>11, <1>12, <1>13, <1>14, <1>15, <1>16, <1>17, <1>18 DEF Ind

LEMMA WriteKeeps == ASSUME Ind, Write PROVE Ind'
<1>1. /\ At("write")
      /\ UNCHANGED <<deviceKeys, cache, suspended, session, notice, fill, shut, made>>
  BY DEF Write
<1>2. CASE /\ envelope' = op.next /\ Moved /\ Continue /\ snapshot' \in {snapshot, NoSnapshot}
           /\ UNCHANGED <<native, faults>>
  BY <1>1, <1>2, Stores
<1>3. CASE /\ Finish /\ native' \in {FALSE, native} /\ UNCHANGED <<envelope, export, snapshot>>
           /\ Fault \/ faults' = faults
  <2>1. op.kind \notin {"none", "lock"}
    BY <1>1, Reached DEF Place, Short, Long
  <2>2. op' = NoOp /\ native' \in BOOLEAN
    BY <1>3 DEF Finish, Ind, Typed
  <2> QED BY <1>1, <1>3, <2>1, <2>2, GivesUp
<1> QED BY <1>2, <1>3 DEF Write

(* The session starts. *)
LEMMA Starts ==
  ASSUME Ind, At("start"), made' = [made EXCEPT !.session = made.session + 1],
         session' = [id |-> made.session + 1, key |-> op.next.key, left |-> Lease],
         snapshot' = NoSnapshot, notice' = TRUE, Moved, Continue,
         UNCHANGED <<envelope, deviceKeys, cache, native, suspended, fill, shut, faults>>
  PROVE  Ind'
<1> USE Empties, NothingRuns
<1>1. /\ op.kind \in {"setup", "change", "restore"} \cup Opening
      /\ op.kind \in Kinds /\ op.kind # "none" /\ op.step \in 1..Length(op.kind)
      /\ op.kind \in {"setup", "change", "status"} => op.step = Length(op.kind)
      /\ op.kind = "restore" => op.step = 3
      /\ op.kind = "unlock" => op.step = 1
      /\ op.kind = "hello" => op.step = 2
  BY Reached DEF Place, Opening, Short, Long, Length
<1>2. Written(op) /\ ~Writing(op) /\ Starting(op)
  BY <1>1 DEF Written, Writing, Starting, Opening, Short, Long, Length
<1>3. envelope = op.next /\ envelope \in Envelope /\ made.session < MaxSessions
  BY <1>2 DEF Ind, Stored, Roomy
<1>4. Onward /\ (op' # NoOp => op'.step = op.step + 1 /\ op'.kind = op.kind)
  BY Proceeds
<1>5. ~Starting(op')
  <2>1. CASE op' = NoOp
    BY <2>1
  <2>2. CASE op' # NoOp
    <3>1. op'.step \in 1..Length(op.kind) /\ op'.step = op.step + 1 /\ op'.kind = op.kind
      BY <1>4, <2>2 DEF Onward
    <3>2. op.kind \notin {"setup", "change", "status"}
      BY <1>1, <3>1 DEF Length
    <3> QED BY <1>1, <3>1, <3>2 DEF Starting
  <2> QED BY <2>1, <2>2
<1>6. /\ op'.kind \notin Changes \cup {"read", "capture", "return", "lock"}
      /\ op.kind \notin {"none", "lock", "return"}
  BY <1>1, <1>4 DEF Changes, Opening, NoOp
<1> DEFINE number == made.session + 1
<1>7. made \in Made /\ made.session \in Nat /\ number \in 0..MaxSessions /\ number \in 1..MaxSessions
  BY <1>3, BoundsAssumption DEF Ind, Typed, Made
<1>8. session' = [id |-> number, key |-> envelope.key, left |-> Lease]
  BY <1>3
<1>9. made' = [made EXCEPT !.session = number]
  OBVIOUS
<1>10. number > made.session
  BY <1>7
<1> HIDE DEF number
<1>11. /\ made' \in Made /\ made'.session = number /\ made'.key = made.key
       /\ made'.envelope = made.envelope
  BY <1>7, <1>9 DEF Made
<1>12. session' \in Sessions /\ session'.id = number
  <2>1. envelope.key \in Key /\ Lease \in 0..Lease
    BY <1>3 DEF Envelope, Lease
  <2> QED BY <1>7, <1>8, <2>1 DEF Sessions
<1>13. /\ export' \in Exports /\ export'.at = export.at /\ export'.id = export.id
       /\ export'.session = export.session /\ export.session <= made.session
       /\ export.session \in Nat
  BY MovedExport DEF Ind, Numbered, Typed, Exports
<1>14. Typed'
  <2>1. op' \in Ops /\ (op'.kind = "none" => op' = NoOp)
        /\ (op'.kind # "none" => op'.step \in 1..Length(op'.kind))
    BY <1>4 DEF Onward
  <2>2. notice' \in BOOLEAN
    OBVIOUS
  <2> QED BY <1>11, <1>12, <1>13, <2>1, <2>2 DEF Ind, Typed
<1>15. Numbered'
  <2>1. session'.id <= made'.session /\ export'.session <= made'.session /\ snapshot'.id <= made.envelope
    BY <1>7, <1>10, <1>11, <1>12, <1>13 DEF NoSnapshot, None, Made
  <2> QED BY <1>11, <1>13, <2>1 DEF Ind, Numbered
<1>16. Making' /\ Stored' /\ Replaced' /\ Worked'
  BY <1>2, <1>4 DEF Ind, Making, Stored, Replaced, Worked, Onward
<1>17. Decoded' /\ Offered'
  BY DEF Ind, Decoded, Offered, NoSnapshot
<1>18. Held' /\ Shut'
  BY <1>6 DEF Ind, Held, Shut
<1>19. Exported'
  <2>1. export'.session # session'.id
    BY <1>7, <1>10, <1>12, <1>13
  <2> QED BY <1>6, <1>13, <2>1 DEF Ind, Exported
<1>20. Roomy' /\ Openable'
  BY <1>5, <1>6 DEF Ind, Roomy, Openable
<1> QED BY <1>14, <1>15, <1>16, <1>17, <1>18, <1>19, <1>20 DEF Ind

LEMMA StartKeeps == ASSUME Ind, Start PROVE Ind'
<1>1. /\ At("start")
      /\ UNCHANGED <<envelope, deviceKeys, cache, native, suspended, fill, shut>>
  BY DEF Start, durable
<1>2. CASE /\ made' = [made EXCEPT !.session = made.session + 1]
           /\ session' = [id |-> made.session + 1, key |-> op.next.key, left |-> Lease]
           /\ snapshot' = NoSnapshot /\ notice' = TRUE /\ Moved
           /\ Continue /\ UNCHANGED faults
  BY <1>1, <1>2, Starts
<1>3. CASE /\ Fault /\ Finish /\ UNCHANGED made
           /\ \/ EndSession
              \/ snapshot' = NoSnapshot /\ UNCHANGED <<session, notice, export>>
  <2>1. op.kind \notin {"none", "lock"}
    BY <1>1, Reached DEF Place
  <2>2. op' = NoOp /\ native' \in BOOLEAN
    BY <1>1, <1>3 DEF Finish, Ind, Typed
  <2> QED BY <1>1, <1>3, <2>1, <2>2, GivesUp
<1> QED BY <1>2, <1>3 DEF Start

LEMMA StutterKeeps == ASSUME Ind, UNCHANGED vars PROVE Ind'
<1>1. /\ UNCHANGED <<envelope, deviceKeys, cache, native>>
      /\ UNCHANGED <<suspended, session, snapshot, notice, op, fill, export, shut, made, faults>>
  BY DEF vars, durable, volatile
<1>2. notice' \in BOOLEAN
  BY <1>1 DEF Ind, Typed
<1>3. Kept /\ Carried
  BY <1>1, Still
<1> QED BY <1>1, <1>2, <1>3, Beside

LEMMA BeginKeeps == ASSUME Ind, Begin PROVE Ind'
<1>1. CASE \E device \in BOOLEAN : BeginSetup(device) \/ BeginChange(device)
  BY <1>1, BeginSetupKeeps, BeginChangeKeeps
<1>2. CASE BeginStatus \/ BeginHello \/ BeginLock \/ BeginRestore \/ BeginReturn
  BY <1>2, BeginStatusKeeps, BeginHelloKeeps, BeginLockKeeps, BeginRestoreKeeps, BeginReturnKeeps
<1>3. CASE \E right \in BOOLEAN : BeginUnlock(right)
  BY <1>3, BeginUnlockKeeps
<1>4. CASE \E kind \in Changes \cup {"read", "capture"} : BeginOpen(kind)
  BY <1>4, BeginOpenKeeps
<1> QED BY <1>1, <1>2, <1>3, <1>4 DEF Begin

LEMMA OneStepKeeps == ASSUME Ind, Step PROVE Ind'
<1>1. CASE Decrypt \/ Verify \/ Native \/ WriteKey \/ RefreshCache \/ Write \/ Start
  BY <1>1, DecryptKeeps, VerifyKeeps, NativeKeeps, WriteKeyKeeps, RefreshCacheKeeps, WriteKeeps,
     StartKeeps
<1>2. CASE Resume \/ Drop \/ Touch \/ Suspend \/ Clear \/ Capture \/ Return
  BY <1>2, ResumeKeeps, DropKeeps, TouchKeeps, SuspendKeeps, ClearKeeps, CaptureKeeps, ReturnKeeps
<1> QED BY <1>1, <1>2 DEF Step

LEMMA StepKeeps == Ind /\ [Next]_vars => Ind'
<1> SUFFICES ASSUME Ind, [Next]_vars PROVE Ind'
  OBVIOUS
<1>1. CASE Begin \/ Step
  BY <1>1, BeginKeeps, OneStepKeeps
<1>2. CASE RecordActivity \/ ReadContext \/ Dispatch \/ FillEnds \/ VerifyExport \/ ExportFails
  BY <1>2, RecordActivityKeeps, ReadContextKeeps, FillMovesKeeps, ExportStepKeeps
<1>3. CASE TimePasses \/ Notice \/ WorkerStops \/ BrowserRestarts
  BY <1>3, TimePassesKeeps, NoticeKeeps, WorkerStopsKeeps, BrowserRestartsKeeps
<1>4. CASE UNCHANGED vars
  BY <1>4, StutterKeeps
<1> QED BY <1>1, <1>2, <1>3, <1>4 DEF Next

LEMMA Always == Spec => []Ind
BY Initially, StepKeeps, PTL DEF Spec

(* Types and bounds: of the envelope and its keys, the session and what is   *)
(* decoded, the step of the operation, the fill and the export.              *)
THEOREM TypeCorrect == Spec => []TypeOK
<1>1. Ind => TypeOK
  <2> SUFFICES ASSUME Ind PROVE TypeOK
    OBVIOUS
  <2>1. CASE op = NoOp
    BY <2>1 DEF Ind, Typed, TypeOK, Envelopes, Sessions, Snapshots, Caches, Fills, Exports, Made
  <2>2. CASE op # NoOp
    <3>1. op \in Ops /\ NoOp \in Ops
      BY Empties DEF Ind, Typed
    <3>2. op.kind \in Kinds /\ op.step \in 1..Length(op.kind)
      BY <2>2, <3>1 DEF Ind, Typed, Ops
    <3>3. op.step \in 1..Len(Script[op.kind])
      BY <3>2, Lengths
    <3>4. op.old \in {None} \cup Key
      BY <3>1, BoundsAssumption DEF Ops, Key, None
    <3>5. op.next \in Envelope \cup {NoEnvelope} /\ op.base \in 0..MaxWrites /\ op.cleared \in BOOLEAN
      BY <3>1 DEF Ops, Envelopes
    <3>6. DOMAIN op = DOMAIN NoOp
      BY <3>1 DEF Ops
    <3> QED BY <3>2, <3>3, <3>4, <3>5, <3>6
            DEF Ind, Typed, TypeOK, Envelopes, Sessions, Snapshots, Caches, Fills, Exports, Made
  <2> QED BY <2>1, <2>2
<1> QED BY <1>1, Always, PTL

(* Whatever stops or refuses while protection changes, the key that opens    *)
(* the stored vault is stored (setup, changeMasterPassword,                  *)
(* restoreEncryptedBackup).                                                  *)
THEOREM AlwaysOpenable == Spec => []Openable
<1>1. Ind => Openable
  BY DEF Ind
<1> QED BY <1>1, Always, PTL

(* An operation works on the vault that is stored, never on an earlier state *)
(* that was kept in memory (readDecodedSnapshot).                            *)
THEOREM NoStaleSnapshot == Spec => []WorksOnStored
<1>1. Ind => WorksOnStored
  BY DEF Ind, Worked, Stored, WorksOnStored
<1> QED BY <1>1, Always, PTL

(* A step that does not change the session, or ends it. *)
LEMMA SessionSteps ==
  ASSUME Ind, [Next]_vars, session' # NoSession, session' # session
  PROVE  \/ Live /\ Renewed /\ shut' = shut
         \/ TimePasses
         \/ /\ At("start") /\ shut' = shut
            /\ session' = [id |-> made.session + 1, key |-> op.next.key, left |-> Lease]
<1>1. CASE UNCHANGED vars
  BY <1>1 DEF vars
<1>2. CASE Begin
  BY <1>2 DEF Begin, BeginSetup, BeginChange, BeginStatus, BeginUnlock, BeginHello, BeginLock,
     BeginOpen, BeginRestore, BeginReturn, EndSession
<1>3. CASE Decrypt \/ Verify \/ Native \/ WriteKey \/ RefreshCache \/ Write \/ Resume
  BY <1>3 DEF Decrypt, Verify, Native, WriteKey, RefreshCache, Write, Resume, EndSession
<1>4. CASE Drop \/ Suspend \/ Clear \/ Capture \/ Return
  BY <1>4 DEF Drop, Suspend, Clear, Capture, Return, EndSession
<1>5. CASE Start
  BY <1>5 DEF Start, EndSession
<1>6. CASE Touch
  BY <1>6 DEF Touch, EndSession, MayRenew
<1>7. CASE RecordActivity
  BY <1>7 DEF RecordActivity, MayRenew
<1>8. CASE ReadContext \/ Dispatch \/ FillEnds \/ VerifyExport \/ ExportFails \/ Notice
           \/ WorkerStops \/ BrowserRestarts
  BY <1>8 DEF ReadContext, Dispatch, FillEnds, VerifyExport, ExportFails, Notice, WorkerStops,
     BrowserRestarts
<1> QED BY <1>1, <1>2, <1>3, <1>4, <1>5, <1>6, <1>7, <1>8 DEF Next, Step

(* A session that ended or ran out is never continued, and what the user     *)
(* locked stays locked until the user asks for it (touch, startSession,      *)
(* lock, status).                                                            *)
THEOREM EndedStaysEnded == Spec => NotRevived
<1> DEFINE A == session' # NoSession /\ session' # session
                => /\ ~shut'
                   /\ \/ session'.id = session.id /\ session'.key = session.key /\ session.left > 0
                      \/ session'.id > session.id /\ session'.key = envelope.key
<1>1. Ind /\ [Next]_vars => [A]_vars
  <2> SUFFICES ASSUME Ind, [Next]_vars, session' # NoSession, session' # session
               PROVE  /\ ~shut'
                      /\ \/ session'.id = session.id /\ session'.key = session.key /\ session.left > 0
                         \/ session'.id > session.id /\ session'.key = envelope.key
    OBVIOUS
  <2>1. CASE Live /\ Renewed /\ shut' = shut
    BY <2>1, LiveSession, RenewedSession DEF Live
  <2>2. CASE TimePasses
    <3>1. Live /\ shut' = shut /\ session' = [session EXCEPT !.left = session.left - 1]
      BY <2>2 DEF TimePasses
    <3>2. session \in Sessions /\ ~shut
      BY <3>1, LiveSession
    <3>3. session'.id = session.id /\ session'.key = session.key
      BY <3>1, <3>2 DEF Sessions
    <3> QED BY <3>1, <3>2, <3>3 DEF Live
  <2>3. CASE /\ At("start") /\ shut' = shut
             /\ session' = [id |-> made.session + 1, key |-> op.next.key, left |-> Lease]
    <3>1. Written(op) /\ op.kind \notin {"none", "lock"}
      BY <2>3, Reached DEF Place, Written, Opening, Short, Long
    <3>2. envelope = op.next /\ ~shut
      BY <3>1 DEF Ind, Stored, Shut
    <3>3. session.id <= made.session /\ session.id \in Nat /\ made.session \in Nat
      BY DEF Ind, Numbered, Typed, Made, Sessions, NoSession, None
    <3> QED BY <2>3, <3>2, <3>3
  <2> QED BY <2>1, <2>2, <2>3, SessionSteps
<1> QED BY <1>1, Always, PTL DEF Spec, NotRevived

LEMMA EndKeepsExport ==
  ASSUME Ind, EndSession \/ Moved
  PROVE  export'.at = export.at
<1>1. CASE Moved
  BY <1>1, MovedExport
<1>2. CASE EndSession
  BY <1>2, MovedExport DEF EndSession
<1> QED BY <1>1, <1>2

(* Only a dispatch sends a fill, and only the last step of an export returns *)
(* it.                                                                       *)
LEMMA FillSteps ==
  ASSUME Ind, [Next]_vars, fill.at = "ready", fill'.at = "sent"
  PROVE  Dispatch
<1>1. fill' # fill /\ fill' # NoFill
  BY DEF NoFill
<1>2. ~UNCHANGED vars
  BY <1>1 DEF vars, volatile
<1>3. ~Begin
  BY <1>1 DEF Begin, BeginSetup, BeginChange, BeginStatus, BeginUnlock, BeginHello, BeginLock,
     BeginOpen, BeginRestore, BeginReturn
<1>4. ~Step
  BY <1>1 DEF Step, Decrypt, Verify, Native, WriteKey, RefreshCache, Write, Resume, Drop, Suspend,
     Clear, Capture, Return, Start, Touch
<1>5. ~(\/ RecordActivity \/ ReadContext \/ FillEnds \/ VerifyExport \/ ExportFails \/ TimePasses
        \/ Notice \/ WorkerStops \/ BrowserRestarts)
  BY <1>1 DEF RecordActivity, ReadContext, FillEnds, VerifyExport, ExportFails, TimePasses, Notice,
     WorkerStops, BrowserRestarts, Forgotten, volatile
<1> QED BY <1>2, <1>3, <1>4, <1>5 DEF Next

LEMMA ExportSteps ==
  ASSUME Ind, [Next]_vars, export.at # "done", export'.at = "done"
  PROVE  Return
<1>1. export' # export /\ export' # NoExport /\ ~EndSession /\ ~Moved
  BY EndKeepsExport DEF NoExport
<1>2. ~UNCHANGED vars
  BY <1>1 DEF vars, volatile
<1>3. ~Begin
  BY <1>1 DEF Begin, BeginSetup, BeginChange, BeginStatus, BeginUnlock, BeginHello, BeginLock,
     BeginOpen, BeginRestore, BeginReturn
<1>4. ~(Decrypt \/ Verify \/ Native \/ WriteKey \/ RefreshCache \/ Write \/ Start)
  BY <1>1 DEF Decrypt, Verify, Native, WriteKey, RefreshCache, Write, Start
<1>5. ~(Resume \/ Drop \/ Touch \/ Suspend \/ Clear \/ Capture)
  BY <1>1 DEF Resume, Drop, Touch, Suspend, Clear, Capture
<1>6. ~VerifyExport
  BY <1>1 DEF VerifyExport, Ind, Typed, Exports
<1>7. ~(\/ RecordActivity \/ ReadContext \/ Dispatch \/ FillEnds \/ ExportFails \/ TimePasses
        \/ Notice \/ WorkerStops \/ BrowserRestarts)
  BY <1>1 DEF RecordActivity, ReadContext, Dispatch, FillEnds, ExportFails, TimePasses, Notice,
     WorkerStops, BrowserRestarts, Forgotten, volatile
<1> QED BY <1>2, <1>3, <1>4, <1>5, <1>6, <1>7 DEF Next, Step

(* What leaves the vault is granted when it leaves: a fill by an open vault  *)
(* or by the stored one, an export by the vault and the session in which the *)
(* user proved who he is (dispatchAutofill, authenticatedExport).            *)
THEOREM OnlyGrantedLeaves == Spec => LeavesGranted
<1> DEFINE A == /\ fill.at = "ready" /\ fill'.at = "sent"
                     => Live \/ fill.offered \subseteq envelope.granted
                /\ export.at # "done" /\ export'.at = "done" => ~export.moved
<1>1. Ind /\ [Next]_vars => [A]_vars
  <2> SUFFICES ASSUME Ind, [Next]_vars PROVE A
    OBVIOUS
  <2>1. ASSUME fill.at = "ready", fill'.at = "sent"
        PROVE  Live \/ fill.offered \subseteq envelope.granted
    <3>1. Dispatch
      BY <2>1, FillSteps
    <3>2. StillGranted
      BY <2>1, <3>1 DEF Dispatch, NoFill
    <3>3. CASE ~Live
      <4>1. fill.locked /\ fill.id = envelope.id
        BY <3>2, <3>3 DEF StillGranted
      <4> QED BY <2>1, <4>1 DEF Ind, Offered
    <3> QED BY <3>3
  <2>2. ASSUME export.at # "done", export'.at = "done"
        PROVE  ~export.moved
    <3>1. At("return")
      BY <2>2, ExportSteps DEF Return
    <3>2. op.kind = "return"
      BY <3>1, Reached DEF Place
    <3> QED BY <3>2 DEF Ind, Exported
  <2> QED BY <2>1, <2>2
<1> QED BY <1>1, Always, PTL DEF Spec, LeavesGranted
=============================================================================
