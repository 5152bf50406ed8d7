------------------------- MODULE ProviderSyncProofs -------------------------
(* Proofs about ProviderSync for every set of sources and operations.        *)
EXTENDS ProviderSync, TLAPS

(* Every operation has a source, and an owning operation has one only. *)
LEMMA TargetOfOp ==
  ASSUME NEW o \in Ops
  PROVE  /\ Target(o) \in Providers
         /\ Target(o) \in Targets[o]
         /\ Reserves(o) => Targets[o] = {Target(o)}
BY OpsAssumption DEF Target, Reserves

(* What kind of operation can be in which phase. *)
Shape ==
  \A o \in Ops :
    /\ pc[o] = "joined" => Kind[o] = "auto" /\ behind[o] \in Ops
    /\ pc[o] = "queued" => Kind[o] \in Queued
    /\ pc[o] = "holding" => ~Reserves(o)
    /\ pc[o] \in {"checking", "gate"} \cup Holding => Reserves(o)

-----------------------------------------------------------------------------
(* Every variable keeps its type. *)
LEMMA InitType == Init => TypeOK /\ Shape
<1> SUFFICES ASSUME Init PROVE TypeOK /\ Shape
  OBVIOUS
<1>1. TypeOK
  BY DEF Init, TypeOK, Phases
<1>2. Shape
  BY DEF Init, Shape, Holding
<1> QED BY <1>1, <1>2

LEMMA SynchronizeType ==
  ASSUME TypeOK, Shape, NEW o \in Ops, Kind[o] \in Sync, Synchronize(o)
  PROVE  /\ pc' \in [Ops -> Phases]
         /\ ahead' \in [Ops -> SUBSET Ops]
         /\ tail' \in [Providers -> Ops \cup {NoOp}]
         /\ promise' \in [Providers -> Ops \cup {NoOp}]
         /\ behind' \in [Ops -> Ops \cup {NoOp}]
         /\ Shape'
<1>1. Target(o) \in Providers /\ Targets[o] \subseteq Providers /\ Kind[o] \in Queued
  BY TargetOfOp, OpsAssumption DEF Queued
<1>2. CASE promise[Target(o)] # NoOp
  <2>1. PICK r \in Ops : r = promise[Target(o)]
    BY <1>1, <1>2 DEF TypeOK
  <2>2. /\ behind' = [behind EXCEPT ![o] = r]
        /\ UNCHANGED <<promise, tail, ahead>>
        /\ \/ pc' = [pc EXCEPT ![o] = "joined"] /\ Kind[o] = "auto"
           \/ pc' = [pc EXCEPT ![o] = "waiting"]
    BY <1>2, <2>1 DEF Synchronize, SharesRunning, queueVars
  <2>3. Shape'
    BY <2>1, <2>2 DEF TypeOK, Shape, Reserves, Holding
  <2> QED BY <2>1, <2>2, <2>3 DEF TypeOK, Phases
<1>3. CASE promise[Target(o)] = NoOp
  BY <1>1, <1>3, OpsAssumption DEF TypeOK, Shape, Synchronize, Enqueue, Phases, Holding
<1> QED BY <1>2, <1>3

LEMMA SettleType ==
  ASSUME TypeOK, Shape, NEW o \in Ops, NEW outcome \in Settled, Settle(o, outcome),
         UNCHANGED behind
  PROVE  /\ pc' \in [Ops -> Phases]
         /\ owner' \in [Providers -> Ops \cup {NoOp}]
         /\ tail' \in [Providers -> Ops \cup {NoOp}]
         /\ promise' \in [Providers -> Ops \cup {NoOp}]
         /\ aborted' \subseteq Ops
         /\ told' \subseteq Ops
         /\ Shape'
BY DEF TypeOK, Shape, Settle, OwnersAfterRelease, TailsAfter, Phases, Settled, Holding

LEMMA NextType ==
  ASSUME TypeOK, Shape, [Next]_vars
  PROVE  TypeOK' /\ Shape'
<1> USE OpsAssumption
<1>1. ASSUME NEW o \in Ops, RequestSync(o) PROVE TypeOK' /\ Shape'
  BY <1>1, SynchronizeType DEF TypeOK, RequestSync, Ask, worldVars
<1>2. ASSUME NEW o \in Ops, RequestQueued(o) PROVE TypeOK' /\ Shape'
  BY <1>2 DEF TypeOK, Shape, RequestQueued, Ask, Enqueue, worldVars, promiseVars, Phases, Holding
<1>3. ASSUME NEW o \in Ops, RequestRefresh(o) PROVE TypeOK' /\ Shape'
  BY <1>3, TargetOfOp DEF TypeOK, Shape, RequestRefresh, Ask, ReserveBy, worldVars,
     promiseVars, queueVars, Phases, Turn, Holding, Settled, Reserves, Owning, Kinds
<1>4. ASSUME NEW o \in Ops, RequestAssert(o) PROVE TypeOK' /\ Shape'
  BY <1>4, TargetOfOp DEF TypeOK, Shape, RequestAssert, Ask, worldVars, queueVars, Phases, Holding
<1>5. ASSUME NEW o \in Ops, Retry(o) PROVE TypeOK' /\ Shape'
  BY <1>5, SynchronizeType DEF TypeOK, Retry, worldVars, ghostVars
<1>6. ASSUME NEW o \in Ops, Share(o) PROVE TypeOK' /\ Shape'
  BY <1>6 DEF TypeOK, Shape, Share, BehindIsOver, Over, worldVars, queueVars, Settled, Phases, Holding
<1>7. ASSUME NEW o \in Ops, ReserveAssert(o) PROVE TypeOK' /\ Shape'
  <2>1. Target(o) \in Providers /\ Reserves(o)
    BY <1>7, TargetOfOp DEF ReserveAssert, Reserves, Owning, Kinds
  <2>2. CASE promise[Target(o)] # NoOp /\ behind' = [behind EXCEPT ![o] = promise[Target(o)]]
             /\ UNCHANGED <<pc, owner>>
    BY <1>7, <2>1, <2>2 DEF TypeOK, Shape, ReserveAssert, worldVars, queueVars, Reserves
  <2>3. CASE pc' = [pc EXCEPT ![o] = "failed"] /\ behind' = [behind EXCEPT ![o] = NoOp]
             /\ UNCHANGED owner
    BY <1>7, <2>1, <2>3 DEF TypeOK, Shape, ReserveAssert, worldVars, queueVars, Reserves,
       Phases, Holding, Settled
  <2>4. CASE promise[Target(o)] = NoOp /\ pc' = [pc EXCEPT ![o] = "working"]
             /\ ReserveBy(o) /\ behind' = [behind EXCEPT ![o] = NoOp]
    BY <1>7, <2>1, <2>4 DEF TypeOK, Shape, ReserveAssert, ReserveBy, worldVars, queueVars,
       Reserves, Phases, Turn, Holding
  <2> QED BY <1>7, <2>2, <2>3, <2>4 DEF ReserveAssert
<1>8. ASSUME NEW o \in Ops, Begin(o) PROVE TypeOK' /\ Shape'
  BY <1>8 DEF TypeOK, Shape, Begin, worldVars, promiseVars, ghostVars, Phases, Turn, Holding
<1>9. ASSUME NEW o \in Ops, Check(o) PROVE TypeOK' /\ Shape'
  BY <1>9 DEF TypeOK, Shape, Check, worldVars, promiseVars, queueVars, ghostVars, Phases, Turn, Holding
<1>10. ASSUME NEW o \in Ops, Reject(o) PROVE TypeOK' /\ Shape'
  BY <1>10, SettleType DEF TypeOK, Reject, worldVars, Settled
<1>11. ASSUME NEW o \in Ops, Reserve(o) PROVE TypeOK' /\ Shape'
  BY <1>11, TargetOfOp DEF TypeOK, Shape, Reserve, ReserveBy, worldVars, promiseVars, queueVars,
     ghostVars, Phases, Turn, Holding
<1>12. ASSUME NEW o \in Ops, Read(o) PROVE TypeOK' /\ Shape'
  BY <1>12 DEF TypeOK, Shape, Read, worldVars, promiseVars, queueVars, Phases, Turn, Holding
<1>13. ASSUME NEW o \in Ops, Apply(o) PROVE TypeOK' /\ Shape'
  BY <1>13 DEF TypeOK, Shape, Apply, worldVars, promiseVars, queueVars, ghostVars, Phases, Turn, Holding
<1>14. ASSUME NEW o \in Ops, Fail(o) PROVE TypeOK' /\ Shape'
  BY <1>14 DEF TypeOK, Shape, Fail, worldVars, promiseVars, queueVars, ghostVars, Phases, Turn, Holding
<1>15. ASSUME NEW o \in Ops, Finish(o) PROVE TypeOK' /\ Shape'
  <2>1. PICK outcome \in Settled : Settle(o, outcome)
    BY <1>15 DEF Finish, Settled
  <2> QED BY <1>15, <2>1, SettleType DEF TypeOK, Finish, worldVars
<1>16. CASE User
  <2>1. UNCHANGED <<pc, behind>> => Shape'
    BY DEF Shape, Reserves
  <2>2. ASSUME NEW o \in Ops, Timeout(o) PROVE TypeOK' /\ Shape'
    BY <2>1, <2>2 DEF TypeOK, Timeout, worldVars, promiseVars, queueVars
  <2>3. ASSUME NEW p \in Providers, Cancel(p) PROVE TypeOK' /\ Shape'
    BY <2>1, <2>3 DEF TypeOK, Cancel, AbortOwner, WorkOn, worldVars, promiseVars, queueVars
  <2>4. ASSUME NEW p \in Providers, Pause(p) PROVE TypeOK' /\ Shape'
    BY <2>1, <2>4 DEF TypeOK, Pause, AbortOwner, WorkOn, promiseVars, queueVars
  <2>5. ASSUME NEW p \in Providers, Resume(p) PROVE TypeOK' /\ Shape'
    BY <2>1, <2>5 DEF TypeOK, Resume, promiseVars, queueVars, ghostVars
  <2>6. ASSUME NEW logins \in SUBSET Ops, AbortLogins(logins) PROVE TypeOK' /\ Shape'
    BY <2>1, <2>6 DEF TypeOK, AbortLogins, worldVars, promiseVars, queueVars
  <2>7. CASE AbortAll
    BY <2>1, <2>7 DEF TypeOK, AbortAll, AbortAllOwners, Automatic, WorkOn, worldVars, promiseVars,
       queueVars
  <2>8. CASE StopAutomatic
    BY <2>1, <2>8 DEF TypeOK, StopAutomatic, Automatic, worldVars, promiseVars, queueVars
  <2>9. CASE Edit
    BY <2>1, <2>9 DEF TypeOK, Edit, promiseVars, queueVars, ghostVars
  <2>10. CASE EndSession \/ UnlockVault
    BY <2>1, <2>10 DEF TypeOK, EndSession, UnlockVault, promiseVars, queueVars, ghostVars
  <2> QED BY <1>16, <2>2, <2>3, <2>4, <2>5, <2>6, <2>7, <2>8, <2>9, <2>10 DEF User
<1>17. CASE UNCHANGED vars
  BY <1>17 DEF TypeOK, Shape, vars
<1> QED BY <1>1, <1>2, <1>3, <1>4, <1>5, <1>6, <1>7, <1>8, <1>9, <1>10, <1>11,
           <1>12, <1>13, <1>14, <1>15, <1>16, <1>17 DEF Next, Request, Progress

(* In every behaviour, every variable of the runtime has its type. *)
THEOREM TypeCorrect == Spec => []TypeOK
<1>1. Init => TypeOK /\ Shape
  BY InitType
<1>2. (TypeOK /\ Shape) /\ [Next]_vars => (TypeOK /\ Shape)'
  BY NextType
<1> QED BY <1>1, <1>2, PTL DEF Spec

-----------------------------------------------------------------------------
(* The inductive invariant: besides what the runs check, every operation that *)
(* worked when an abort was called for it has a controller that fired, and a  *)
(* manual synchronization keeps a snapshot not older than its request.        *)
ToldAborted == told \subseteq aborted

ReadsCurrent ==
  \A o \in Ops : Kind[o] = "manual" =>
    /\ asked[o] <= version
    /\ pc[o] \in {"reading", "applied", "done"} => asked[o] <= snapshot[o]

Ind == TypeOK /\ Shape /\ OwnershipExact /\ PausedWorkAborted /\ ToldAborted
       /\ ReadsCurrent

(* Steps of one operation outside the activity registry. *)
LEMMA OutsideRegistry ==
  ASSUME Ind, NEW o \in Ops, pc[o] \notin Holding, pc' = [pc EXCEPT ![o] = pc'[o]],
         pc'[o] \notin Holding, UNCHANGED <<owner, aborted, told, paused>>
  PROVE  OwnershipExact' /\ PausedWorkAborted' /\ ToldAborted'
<1>1. \A x \in Ops : pc'[x] \in Holding <=> pc[x] \in Holding
  BY DEF Ind, TypeOK
<1>2. OwnershipExact'
  <2>1. \A p \in Providers : owner[p] # NoOp => owner[p] \in Ops
    BY DEF Ind, TypeOK
  <2> QED BY <1>1, <2>1 DEF Ind, OwnershipExact, Reserves, Target
<1>3. PausedWorkAborted' /\ ToldAborted'
  BY <1>1 DEF Ind, TypeOK, PausedWorkAborted, ToldAborted, Target
<1> QED BY <1>2, <1>3

(* Steps of one operation from one phase of its work to the next. *)
LEMMA InsideRegistry ==
  ASSUME Ind, NEW o \in Ops, pc[o] \in Holding, pc' = [pc EXCEPT ![o] = pc'[o]],
         pc'[o] \in Holding, UNCHANGED <<owner, aborted, told, paused>>
  PROVE  OwnershipExact' /\ PausedWorkAborted' /\ ToldAborted'
<1>1. \A x \in Ops : pc'[x] \in Holding <=> pc[x] \in Holding
  BY DEF Ind, TypeOK
<1>2. OwnershipExact'
  <2>1. \A p \in Providers : owner[p] # NoOp => owner[p] \in Ops
    BY DEF Ind, TypeOK
  <2> QED BY <1>1, <2>1 DEF Ind, OwnershipExact, Reserves, Target
<1>3. PausedWorkAborted' /\ ToldAborted'
  BY <1>1 DEF Ind, TypeOK, PausedWorkAborted, ToldAborted, Target
<1> QED BY <1>2, <1>3

(* A reservation of a source that is not busy. *)
LEMMA ReserveStep ==
  ASSUME Ind, NEW o \in Ops, Reserves(o), ~IsBusy(Target(o)), ReserveBy(o), ~Blocked(o),
         pc[o] \notin Holding, pc' = [pc EXCEPT ![o] = "working"],
         UNCHANGED <<aborted, told, paused>>
  PROVE  OwnershipExact' /\ PausedWorkAborted' /\ ToldAborted'
<1>1. Target(o) \in Providers /\ Target(o) \in Targets[o]
  BY TargetOfOp
<1>2. OwnershipExact'
  <2>1. \A x \in Ops : pc[x] \in Holding /\ x \notin aborted => Target(x) # Target(o)
    BY OpsAssumption DEF Ind, OwnershipExact, IsBusy
  <2>2. \A x \in Ops : Target(x)' = Target(x) /\ (Reserves(x)' <=> Reserves(x))
    BY DEF Target, Reserves
  <2>3. \A x \in Ops : pc'[x] \in Holding /\ x \notin aborted => owner'[Target(x)] = x
    BY <1>1, <2>1, TargetOfOp DEF Ind, TypeOK, OwnershipExact, ReserveBy
  <2>4. \A p \in Providers : owner'[p] # NoOp =>
          pc'[owner'[p]] \in Holding /\ Reserves(owner'[p]) /\ p \in Targets[owner'[p]]
    BY <1>1 DEF Ind, TypeOK, OwnershipExact, ReserveBy, Holding
  <2> QED BY <2>2, <2>3, <2>4 DEF OwnershipExact, Reserves
<1>3. PausedWorkAborted'
  <2>1. \A x \in Ops : pc'[x] \in Holding => x = o \/ pc[x] \in Holding
    BY DEF Ind, TypeOK
  <2>2. \A x \in Ops : Target(x)' = Target(x)
    BY DEF Target
  <2> QED BY <2>1, <2>2 DEF Ind, PausedWorkAborted, Blocked
<1>4. ToldAborted'
  BY DEF Ind, ToldAborted
<1> QED BY <1>2, <1>3, <1>4

(* The end of an operation releases nobody else. *)
LEMMA SettleStep ==
  ASSUME Ind, NEW o \in Ops, NEW outcome \in Settled, Settle(o, outcome),
         UNCHANGED paused
  PROVE  OwnershipExact' /\ PausedWorkAborted' /\ ToldAborted'
<1>1. OwnershipExact'
  BY TargetOfOp, OpsAssumption DEF Ind, TypeOK, OwnershipExact, Settle, OwnersAfterRelease, Settled, Holding,
     Reserves, Target
<1>2. PausedWorkAborted' /\ ToldAborted'
  BY DEF Ind, TypeOK, PausedWorkAborted, ToldAborted, Settle, Settled, Holding, Target
<1> QED BY <1>1, <1>2

LEMMA NextRegistry ==
  ASSUME Ind, [Next]_vars
  PROVE  OwnershipExact' /\ PausedWorkAborted' /\ ToldAborted'
<1> DEFINE Goal == OwnershipExact' /\ PausedWorkAborted' /\ ToldAborted'
<1> USE DEF Ind
<1>1. ASSUME NEW o \in Ops, RequestSync(o) \/ Retry(o) PROVE Goal
  <2>1. /\ pc[o] \notin Holding
        /\ \E q \in {"joined", "waiting", "queued"} : pc' = [pc EXCEPT ![o] = q]
        /\ UNCHANGED <<owner, aborted, told, paused>>
    BY <1>1, Zenon DEF RequestSync, Retry, Ask, Synchronize, Enqueue, worldVars, ghostVars, Holding
  <2> QED BY <2>1, OutsideRegistry DEF TypeOK, Holding
<1>2. ASSUME NEW o \in Ops, RequestQueued(o) \/ RequestAssert(o) PROVE Goal
  BY <1>2, OutsideRegistry DEF TypeOK, RequestQueued, RequestAssert, Ask, Enqueue, worldVars, Holding
<1>3. ASSUME NEW o \in Ops, RequestRefresh(o) PROVE Goal
  <2>1. CASE IsBusy(Target(o))
    BY <1>3, <2>1, OutsideRegistry DEF TypeOK, RequestRefresh, Ask, worldVars, Holding
  <2>2. CASE ~IsBusy(Target(o))
    BY <1>3, <2>2, ReserveStep DEF TypeOK, RequestRefresh, Ask, worldVars, Holding, Reserves,
       Owning, Kinds, Blocked
  <2> QED BY <2>1, <2>2
<1>4. ASSUME NEW o \in Ops, Share(o) PROVE Goal
  <2>1. pc[o] \notin Holding /\ pc' = [pc EXCEPT ![o] = pc[behind[o]]]
        /\ pc[behind[o]] \notin Holding
    BY <1>4, OpsAssumption DEF Shape, Share, BehindIsOver, Over, Settled, Holding
  <2> QED BY <1>4, <2>1, OutsideRegistry DEF TypeOK, Share, worldVars
<1>5. ASSUME NEW o \in Ops, ReserveAssert(o) PROVE Goal
  <2>1. CASE UNCHANGED <<pc, owner>>
    BY <1>5, <2>1 DEF ReserveAssert, worldVars, OwnershipExact, PausedWorkAborted, ToldAborted,
       Reserves, Target
  <2>2. CASE pc' = [pc EXCEPT ![o] = "failed"] /\ UNCHANGED owner
    BY <1>5, <2>2, OutsideRegistry DEF TypeOK, ReserveAssert, worldVars, Holding
  <2>3. CASE /\ ~IsBusy(Target(o)) /\ ReserveBy(o)
             /\ pc' = [pc EXCEPT ![o] = "working"]
    BY <1>5, <2>3, ReserveStep DEF ReserveAssert, worldVars, Holding, Reserves, Owning, Kinds, Blocked
  <2> QED BY <1>5, <2>1, <2>2, <2>3 DEF ReserveAssert
<1>6. ASSUME NEW o \in Ops, Begin(o) \/ Check(o) PROVE Goal
  <2>1. /\ pc[o] \notin Holding
        /\ \E q \in {"checking", "holding", "gate"} : pc' = [pc EXCEPT ![o] = q]
        /\ UNCHANGED <<owner, aborted, told, paused>>
    BY <1>6, Zenon DEF Begin, Check, worldVars, ghostVars, Holding
  <2> QED BY <2>1, OutsideRegistry DEF TypeOK, Holding
<1>7. ASSUME NEW o \in Ops, Reject(o) \/ Finish(o) PROVE Goal
  <2>1. \E outcome \in Settled : Settle(o, outcome)
    BY <1>7 DEF Reject, Finish, Settled
  <2> QED BY <1>7, <2>1, SettleStep DEF Reject, Finish, worldVars
<1>8. ASSUME NEW o \in Ops, Reserve(o) PROVE Goal
  BY <1>8, ReserveStep DEF Shape, Reserve, worldVars, ghostVars, Holding
<1>9. ASSUME NEW o \in Ops, Read(o) \/ Apply(o) \/ Fail(o) PROVE Goal
  BY <1>9, InsideRegistry DEF TypeOK, Read, Apply, Fail, worldVars, ghostVars, Holding
<1>10. ASSUME UNCHANGED <<pc, owner, paused>>, aborted \subseteq aborted', told' \subseteq aborted'
       PROVE  Goal
  BY <1>10 DEF OwnershipExact, PausedWorkAborted, ToldAborted, Reserves, Target
<1>11. ASSUME NEW p \in Providers, Cancel(p) \/ Pause(p)
       PROVE  WorkOn({p}) \subseteq aborted'
  BY <1>11, OpsAssumption DEF Cancel, Pause, AbortOwner, WorkOn, OwnershipExact
<1>12. ASSUME NEW p \in Providers, Cancel(p) PROVE Goal
  <2>1. /\ UNCHANGED <<pc, owner, paused>>
        /\ aborted \subseteq aborted'
        /\ told' = told \cup WorkOn({p})
    BY <1>12 DEF Cancel, AbortOwner, worldVars
  <2> QED BY <2>1, <1>10, <1>11, <1>12 DEF ToldAborted
<1>13. ASSUME NEW p \in Providers, Pause(p) PROVE Goal
  <2>1. /\ UNCHANGED <<pc, owner>> /\ aborted \subseteq aborted' /\ paused' = paused \cup {p}
        /\ told' = told \cup WorkOn({p})
    BY <1>13 DEF Pause, AbortOwner
  <2>2. \A x \in Ops : Target(x) = p /\ pc[x] \in Holding => x \in aborted'
    BY <1>13, OpsAssumption DEF Pause, AbortOwner, OwnershipExact
  <2>3. OwnershipExact' /\ ToldAborted'
    BY <2>1, <1>11, <1>13 DEF OwnershipExact, ToldAborted, Reserves, Target
  <2>4. PausedWorkAborted'
    <3>1. \A x \in Ops : Target(x)' = Target(x)
      BY DEF Target
    <3> QED BY <2>1, <2>2, <3>1 DEF PausedWorkAborted
  <2> QED BY <2>3, <2>4
<1>14. ASSUME NEW p \in Providers, Resume(p) PROVE Goal
  <2>1. UNCHANGED <<pc, owner, aborted, told>> /\ paused' \subseteq paused
    BY <1>14 DEF Resume, ghostVars
  <2>2. \A x \in Ops : Target(x)' = Target(x)
    BY DEF Target
  <2> QED BY <2>1, <2>2 DEF OwnershipExact, PausedWorkAborted, ToldAborted, Reserves
<1>15. CASE AbortAll
  <2>1. \A x \in Ops : pc[x] \in Holding => x \in aborted'
    BY <1>15, TargetOfOp, OpsAssumption DEF OwnershipExact, AbortAll, AbortAllOwners
  <2>2. \A p \in Providers : owner'[p] = NoOp
    BY <1>15 DEF AbortAll, AbortAllOwners
  <2>3. /\ UNCHANGED pc
        /\ told' = told \cup WorkOn(Providers)
        /\ aborted \subseteq aborted'
    BY <1>15 DEF AbortAll, AbortAllOwners
  <2>4. ToldAborted'
    BY <2>1, <2>3 DEF ToldAborted, WorkOn
  <2> QED BY <2>1, <2>2, <2>3, <2>4 DEF OwnershipExact, PausedWorkAborted, Target
<1>16. CASE \/ \E o \in Ops : Timeout(o)
            \/ \E logins \in SUBSET Ops : AbortLogins(logins)
            \/ StopAutomatic
  <2>1. /\ UNCHANGED <<pc, owner, paused>>
        /\ \E who : aborted' = aborted \cup who /\ told' = told \cup who
    BY <1>16 DEF Timeout, AbortLogins, StopAutomatic, worldVars
  <2> QED BY <2>1, <1>10 DEF ToldAborted
<1>17. CASE Edit \/ EndSession \/ UnlockVault \/ UNCHANGED vars
  <2>1. UNCHANGED <<pc, owner, aborted, told, paused>>
    BY <1>17 DEF Edit, EndSession, UnlockVault, vars, ghostVars
  <2> QED BY <2>1, <1>10 DEF ToldAborted
<1> QED BY <1>1, <1>2, <1>3, <1>4, <1>5, <1>6, <1>7, <1>8, <1>9, <1>12, <1>13,
           <1>14, <1>15, <1>16, <1>17 DEF Next, User, Request, Progress

LEMMA NextReads ==
  ASSUME Ind, [Next]_vars
  PROVE  ReadsCurrent'
<1> USE DEF Ind, TypeOK, ReadsCurrent
<1>1. ASSUME NEW o \in Ops, RequestSync(o) \/ RequestQueued(o) \/ RequestAssert(o) \/ Retry(o)
      PROVE ReadsCurrent'
  <2>1. /\ \E q \in {"joined", "waiting", "queued"} : pc' = [pc EXCEPT ![o] = q]
        /\ asked' = asked \/ asked' = [asked EXCEPT ![o] = IF Kind[o] = "manual" THEN version ELSE @]
        /\ UNCHANGED <<snapshot, version>>
    BY <1>1, Zenon DEF RequestSync, RequestQueued, RequestAssert, Retry, Ask, Synchronize, Enqueue, worldVars, ghostVars
  <2> QED BY <2>1
<1>2. ASSUME NEW o \in Ops, RequestRefresh(o) PROVE ReadsCurrent'
  BY <1>2 DEF RequestRefresh, Ask, worldVars
<1>3. ASSUME NEW o \in Ops, Share(o) PROVE ReadsCurrent'
  <2>1. Kind[o] = "auto"
    BY <1>3 DEF Shape, Share
  <2> QED BY <1>3, <2>1 DEF Share, worldVars
<1>4. ASSUME NEW o \in Ops, ReserveAssert(o) PROVE ReadsCurrent'
  <2>1. Kind[o] = "assert"
    BY <1>4 DEF ReserveAssert
  <2>2. UNCHANGED <<asked, snapshot, version>> /\ (pc' = pc \/ \E q \in Phases : pc' = [pc EXCEPT ![o] = q])
    BY <1>4, Zenon DEF ReserveAssert, worldVars, Phases, Turn, Holding, Settled
  <2> QED BY <2>1, <2>2
<1>5. ASSUME NEW o \in Ops, Begin(o) \/ Check(o) \/ Reserve(o) \/ Fail(o)
      PROVE ReadsCurrent'
  <2>1. /\ \E q \in {"checking", "holding", "gate", "working", "failing"} : pc' = [pc EXCEPT ![o] = q]
        /\ UNCHANGED <<asked, snapshot, version>>
    BY <1>5, Zenon DEF Begin, Check, Reserve, Fail, worldVars, ghostVars
  <2> QED BY <2>1
<1>6. ASSUME NEW o \in Ops, Reject(o) PROVE ReadsCurrent'
  BY <1>6 DEF Reject, Settle, worldVars
<1>7. ASSUME NEW o \in Ops, Read(o) PROVE ReadsCurrent'
  BY <1>7 DEF Read, worldVars
<1>8. ASSUME NEW o \in Ops, Apply(o) PROVE ReadsCurrent'
  BY <1>8 DEF Apply, worldVars, ghostVars
<1>9. ASSUME NEW o \in Ops, Finish(o) PROVE ReadsCurrent'
  <2>1. \/ pc[o] = "applied" \/ Kind[o] # "manual" \/ pc' = [pc EXCEPT ![o] = "failed"]
    BY <1>9 DEF Finish, Settle, Shape, Reserves, Owning, Kinds
  <2>2. \E outcome \in Settled : Settle(o, outcome)
    BY <1>9 DEF Finish, Settled
  <2> QED BY <1>9, <2>1, <2>2 DEF Finish, Settle, worldVars
<1>10. CASE User
  <2>1. UNCHANGED <<pc, asked, snapshot>> /\ (version' = version \/ version' = version + 1)
    BY <1>10, Zenon DEF User, Timeout, Cancel, Pause, Resume, Edit, AbortLogins, AbortAll,
       StopAutomatic, EndSession, UnlockVault, worldVars, ghostVars
  <2> QED BY <2>1
<1>11. CASE UNCHANGED vars
  BY <1>11 DEF vars
<1> QED BY <1>1, <1>2, <1>3, <1>4, <1>5, <1>6, <1>7, <1>8, <1>9, <1>10, <1>11
        DEF Next, Request, Progress

LEMMA InitInd == Init => Ind
<1> SUFFICES ASSUME Init PROVE Ind
  OBVIOUS
<1>1. TypeOK /\ Shape
  BY InitType
<1>2. OwnershipExact /\ PausedWorkAborted /\ ToldAborted /\ ReadsCurrent
  BY DEF Init, OwnershipExact, PausedWorkAborted, ToldAborted, ReadsCurrent, Holding
<1> QED BY <1>1, <1>2 DEF Ind

(* The invariant the results below rest on is inductive. *)
THEOREM Inductive == Spec => []Ind
<1>1. Ind /\ [Next]_vars => Ind'
  BY NextType, NextRegistry, NextReads DEF Ind
<1> QED BY InitInd, <1>1, PTL DEF Spec

(* No source stays busy after its operation ended, and no operation that was *)
(* not told to stop loses its registration to the late release of another.   *)
THEOREM Ownership == Spec => []OwnershipExact
<1>1. Ind => OwnershipExact
  BY DEF Ind
<1> QED BY Inductive, <1>1, PTL

(* At most one operation that was not told to stop works on a source. *)
THEOREM MutualExclusion == Spec => []OneLiveOwner
<1>1. Ind => OneLiveOwner
  BY DEF Ind, OwnershipExact, OneLiveOwner
<1> QED BY Inductive, <1>1, PTL

(* Automatic work on a paused source has been told to stop. *)
THEOREM PauseStopsWork == Spec => []PausedWorkAborted
<1>1. Ind => PausedWorkAborted
  BY DEF Ind
<1> QED BY Inductive, <1>1, PTL

(* A manual synchronization that succeeds covers the edits before its request. *)
THEOREM ManualCoversEdits == Spec => []ManualReadsEdits
<1>1. Ind => ManualReadsEdits
  BY DEF Ind, TypeOK, ReadsCurrent, ManualReadsEdits
<1> QED BY Inductive, <1>1, PTL

(* What an operation read is not merged once an abort was called for it, even *)
(* when the registry has forgotten it and its source has another owner.       *)
THEOREM AbortsDiscardResults == Spec => AbortsDiscard
<1>1. ASSUME Ind, [Next]_vars
      PROVE \A o \in Ops : pc[o] = "reading" /\ pc'[o] = "applied" => o \notin told
  <2> SUFFICES ASSUME NEW o \in Ops, pc[o] = "reading", pc'[o] = "applied", o \in aborted
               PROVE  FALSE
    BY <1>1 DEF Ind, ToldAborted
  <2>1. \A x \in Ops : Apply(x) => x # o
    BY DEF Apply, MayApply
  <2>2. \A x \in Ops : Request(x) \/ Progress(x) => x = o \/ pc'[o] = pc[o]
    <3>1. TAKE x \in Ops
    <3> QED BY <1>1 DEF Ind, TypeOK, Request, Progress, RequestSync, RequestQueued, RequestRefresh, RequestAssert,
        Retry, Share, ReserveAssert, Begin, Check, Reject, Reserve, Read, Apply, Fail, Finish,
        Synchronize, Enqueue, Ask, Settle, worldVars
  <2>3. User \/ UNCHANGED vars => pc' = pc
    BY Zenon DEF User, Timeout, Cancel, Pause, Resume, Edit, AbortLogins, AbortAll,
       StopAutomatic, EndSession, UnlockVault, vars
  <2>4. PICK x \in Ops : Request(x) \/ Progress(x)
    BY <1>1, <2>3 DEF Next
  <2>5. x = o
    BY <2>2, <2>4
  <2>6. Fail(o) \/ Apply(o)
    BY <2>4, <2>5, Zenon DEF Request, Progress, RequestSync, RequestQueued, RequestRefresh,
       RequestAssert, Retry, Share, ReserveAssert, Begin, Check, Reject, Reserve, Read, Finish, Ask
  <2> QED BY <2>1, <2>6, <1>1 DEF Ind, TypeOK, Fail
<1> QED BY Inductive, <1>1, PTL DEF Spec, AbortsDiscard
-----------------------------------------------------------------------------
(* Operations of the queue have their turn on a source one after the other,  *)
(* for every set of sources and operations.                                  *)

(* The operations in the line of a source: those that wait for their turn and *)
(* the one that has it.                                                       *)
InLine(o) == Kind[o] \in Queued /\ pc[o] \in {"queued"} \cup Turn
Line(p)   == {o \in Ops : p \in Targets[o] /\ InLine(o)}

(* Ranked by their arrival, everyone in a line but the first has found someone *)
(* ahead who is still in it, and the tail of the source is the last of them.   *)
(* An operation may be in several lines: its rank is the same in each.         *)
Ranked(rank, n) ==
  /\ rank \in [Ops -> Nat] /\ n \in Nat
  /\ \A o \in Ops : rank[o] < n
  /\ \A p \in Providers : \A a, b \in Line(p) :
       /\ a # b => rank[a] # rank[b]
       /\ rank[a] < rank[b] => \E c \in ahead[b] : c \in Line(p) /\ rank[a] <= rank[c] /\ c # b
  /\ \A p \in Providers : \A a \in Line(p) :
       tail[p] \in Line(p) /\ rank[a] <= rank[tail[p]]
  /\ \A o \in Ops : Kind[o] \in Queued /\ pc[o] \in Turn => ahead[o] = {}

QueueInv == \E rank, n : Ranked(rank, n)

LEMMA InitQueue == Init => QueueInv
<1> SUFFICES ASSUME Init PROVE QueueInv
  OBVIOUS
<1>1. \A p \in Providers : Line(p) = {}
  BY DEF Init, Line, InLine, Turn, Holding
<1>2. Ranked([o \in Ops |-> 0], 1)
  BY <1>1 DEF Init, Ranked
<1> QED BY <1>2 DEF QueueInv

(* A step that moves nobody into a line, out of one, or to the turn. *)
LEMMA LinesSame ==
  ASSUME QueueInv, UNCHANGED <<ahead, tail>>,
         \A o \in Ops : InLine(o)' = InLine(o),
         \A o \in Ops : Kind[o] \in Queued /\ pc'[o] \in Turn => pc[o] \in Turn
  PROVE  QueueInv'
<1>1. PICK rank, n : Ranked(rank, n)
  BY DEF QueueInv
<1>2. \A p \in Providers : Line(p)' = Line(p)
  BY DEF Line
<1>3. Ranked(rank, n)'
  BY <1>1, <1>2 DEF Ranked
<1> QED BY <1>3 DEF QueueInv

(* Who joins the lines of its sources is the last in each. *)
LEMMA EnqueueStep ==
  ASSUME Ind, QueueInv, NEW o \in Ops, Kind[o] \in Queued, ~InLine(o), Enqueue(o)
  PROVE  QueueInv'
<1> USE DEF Ind, TypeOK
<1>1. PICK rank, n : Ranked(rank, n)
  BY DEF QueueInv
<1> DEFINE later == [rank EXCEPT ![o] = n]
<1>2. /\ later \in [Ops -> Nat] /\ n \in Nat /\ later[o] = n
      /\ \A x \in Ops : x # o => later[x] = rank[x]
      /\ \A x \in Ops : rank[x] \in Nat /\ rank[x] < n
  BY <1>1 DEF Ranked
<1> HIDE DEF later
<1>3. /\ pc'[o] = "queued"
      /\ \A x \in Ops : x # o => pc'[x] = pc[x] /\ ahead'[x] = ahead[x]
      /\ ahead'[o] = {tail[p] : p \in Targets[o]} \ {NoOp}
      /\ \A p \in Providers : tail'[p] = IF p \in Targets[o] THEN o ELSE tail[p]
  BY DEF Enqueue
<1>4. \A p \in Providers : Line(p)' = IF p \in Targets[o] THEN Line(p) \cup {o} ELSE Line(p)
  BY <1>3 DEF Line, InLine
<1>5. \A p \in Providers : o \notin Line(p) /\ Line(p) \subseteq Ops
  BY DEF Line
<1>6. ASSUME NEW p \in Providers, NEW a \in Line(p)', NEW b \in Line(p)'
      PROVE  /\ a # b => later[a] # later[b]
             /\ later[a] < later[b] =>
                  \E c \in ahead'[b] : c \in Line(p)' /\ later[a] <= later[c] /\ c # b
  <2>1. CASE a # o /\ b # o
    <3>1. a \in Line(p) /\ b \in Line(p) /\ a \in Ops /\ b \in Ops
      BY <1>4, <1>5, <1>6, <2>1
    <3>2. /\ a # b => rank[a] # rank[b]
          /\ rank[a] < rank[b] =>
               \E c \in ahead[b] : c \in Line(p) /\ rank[a] <= rank[c] /\ c # b
      BY <1>1, <3>1 DEF Ranked
    <3> QED BY <1>2, <1>3, <1>4, <1>5, <2>1, <3>1, <3>2
  <2>2. CASE a # o /\ b = o
    <3>1. a \in Line(p) /\ a \in Ops /\ p \in Targets[o]
      BY <1>4, <1>5, <1>6, <2>2
    <3>2. tail[p] \in Line(p) /\ rank[a] <= rank[tail[p]]
      BY <1>1, <3>1 DEF Ranked
    <3>3. tail[p] \in Ops /\ tail[p] # o /\ tail[p] \in ahead'[o]
      BY <1>3, <1>5, <3>1, <3>2, OpsAssumption
    <3> QED BY <1>2, <1>4, <2>2, <3>1, <3>2, <3>3
  <2>3. CASE a = o /\ b # o
    <3>1. b \in Ops
      BY <1>4, <1>5, <1>6, <2>3
    <3> QED BY <1>2, <2>3, <3>1
  <2> QED BY <1>2, <2>1, <2>2, <2>3
<1>7. ASSUME NEW p \in Providers, NEW a \in Line(p)'
      PROVE  tail'[p] \in Line(p)' /\ later[a] <= later[tail'[p]]
  <2>1. CASE p \in Targets[o]
    BY <1>2, <1>3, <1>4, <1>5, <1>7, <2>1
  <2>2. CASE p \notin Targets[o]
    <3>1. a \in Line(p) /\ tail[p] \in Line(p) /\ rank[a] <= rank[tail[p]]
      BY <1>1, <1>4, <1>7, <2>2 DEF Ranked
    <3> QED BY <1>2, <1>3, <1>4, <1>5, <2>2, <3>1
  <2> QED BY <2>1, <2>2
<1>8. \A x \in Ops : Kind[x] \in Queued /\ pc'[x] \in Turn => ahead'[x] = {}
  BY <1>1, <1>3 DEF Ranked, Turn, Holding
<1>9. Ranked(later, n + 1)'
  <2>1. n + 1 \in Nat /\ \A x \in Ops : later[x] < n + 1
    BY <1>2
  <2> QED BY <1>2, <1>6, <1>7, <1>8, <2>1 DEF Ranked
<1> QED BY <1>9 DEF QueueInv

(* Who has the turn is the first in every line it is in. *)
LEMMA FirstInLine ==
  ASSUME NEW rank, NEW n, Ranked(rank, n), NEW o \in Ops, ahead[o] = {},
         NEW p \in Providers, o \in Line(p), NEW a \in Line(p), a # o
  PROVE  rank[o] < rank[a]
<1>1. rank[a] # rank[o] /\ ~ (rank[a] < rank[o])
  BY DEF Ranked
<1>2. a \in Ops /\ rank[a] \in Nat /\ rank[o] \in Nat
  BY DEF Ranked, Line
<1> QED BY <1>1, <1>2

(* Who settles leaves its lines from the front. *)
LEMMA SettleQueue ==
  ASSUME Ind, QueueInv, NEW o \in Ops, NEW outcome \in Settled, pc[o] \in Turn,
         Settle(o, outcome), UNCHANGED ahead
  PROVE  QueueInv'
<1> USE DEF Ind, TypeOK
<1>1. PICK rank, n : Ranked(rank, n)
  BY DEF QueueInv
<1>2. /\ pc'[o] = outcome
      /\ \A x \in Ops : x # o => pc'[x] = pc[x]
      /\ \A p \in Providers : tail'[p] = IF tail[p] = o THEN NoOp ELSE tail[p]
  BY DEF Settle, TailsAfter
<1>3. \A p \in Providers : Line(p)' = Line(p) \ {o}
  BY <1>2 DEF Line, InLine, Settled, Turn, Holding
<1>4. \A p \in Providers : Line(p) \subseteq Ops /\ (o \in Line(p) => ahead[o] = {})
  BY <1>1 DEF Ranked, Line, InLine
<1>5. ASSUME NEW p \in Providers, NEW a \in Line(p)', NEW b \in Line(p)'
      PROVE  /\ a # b => rank[a] # rank[b]
             /\ rank[a] < rank[b] =>
                  \E c \in ahead'[b] : c \in Line(p)' /\ rank[a] <= rank[c] /\ c # b
  <2>1. a \in Line(p) /\ b \in Line(p) /\ a # o /\ b # o /\ a \in Ops /\ b \in Ops
    BY <1>3, <1>4, <1>5
  <2>2. a # b => rank[a] # rank[b]
    BY <1>1, <2>1 DEF Ranked
  <2>3. ASSUME rank[a] < rank[b]
        PROVE  \E c \in ahead'[b] : c \in Line(p)' /\ rank[a] <= rank[c] /\ c # b
    <3>1. PICK c \in ahead[b] : c \in Line(p) /\ rank[a] <= rank[c] /\ c # b
      BY <1>1, <2>1, <2>3 DEF Ranked
    <3>2. c # o
      <4> SUFFICES ASSUME c = o PROVE FALSE
        OBVIOUS
      <4>1. o \in Line(p) /\ ahead[o] = {}
        BY <1>4, <3>1
      <4>2. rank[o] < rank[a]
        BY <1>1, <2>1, <4>1, FirstInLine
      <4> QED BY <1>1, <2>1, <3>1, <4>2 DEF Ranked
    <3> QED BY <1>3, <3>1, <3>2
  <2> QED BY <2>2, <2>3
<1>6. ASSUME NEW p \in Providers, NEW a \in Line(p)'
      PROVE  tail'[p] \in Line(p)' /\ rank[a] <= rank[tail'[p]]
  <2>1. a \in Line(p) /\ a # o /\ a \in Ops
    BY <1>3, <1>4, <1>6
  <2>2. tail[p] \in Line(p) /\ rank[a] <= rank[tail[p]]
    BY <1>1, <2>1 DEF Ranked
  <2>3. tail[p] # o
    <3> SUFFICES ASSUME tail[p] = o PROVE FALSE
      OBVIOUS
    <3>1. rank[o] < rank[a]
      BY <1>1, <1>4, <2>1, <2>2, FirstInLine
    <3> QED BY <1>1, <2>1, <2>2, <3>1 DEF Ranked
  <2> QED BY <1>2, <1>3, <2>2, <2>3
<1>7. \A x \in Ops : Kind[x] \in Queued /\ pc'[x] \in Turn => ahead'[x] = {}
  BY <1>1, <1>2 DEF Ranked, Settled, Turn, Holding
<1>8. Ranked(rank, n)'
  BY <1>1, <1>5, <1>6, <1>7 DEF Ranked
<1> QED BY <1>8 DEF QueueInv

(* Who begins found nobody ahead that is still in a line. *)
LEMMA BeginQueue ==
  ASSUME Ind, QueueInv, NEW o \in Ops, Begin(o)
  PROVE  QueueInv'
<1> USE DEF Ind, TypeOK
<1>1. PICK rank, n : Ranked(rank, n)
  BY DEF QueueInv
<1>2. /\ pc[o] = "queued" /\ pc'[o] \in Turn
      /\ \A x \in Ops : x # o => pc'[x] = pc[x] /\ ahead'[x] = ahead[x]
      /\ ahead'[o] = {} /\ UNCHANGED tail
      /\ \A a \in ahead[o] : pc[a] \in Settled
  BY DEF Begin, MayBegin, Over, Turn
<1>3. \A p \in Providers : Line(p)' = Line(p)
  BY <1>2 DEF Line, InLine
<1>4. \A p \in Providers : Line(p) \subseteq Ops /\ \A c \in Line(p) : c \notin ahead[o]
  BY <1>2 DEF Line, InLine, Settled, Turn, Holding
<1>5. \A p \in Providers : \A a, b \in Line(p) :
        /\ a # b => rank[a] # rank[b]
        /\ rank[a] < rank[b] =>
             \E c \in ahead'[b] : c \in Line(p) /\ rank[a] <= rank[c] /\ c # b
  <2> TAKE p \in Providers
  <2> TAKE a, b \in Line(p)
  <2>1. CASE b = o
    BY <1>1, <1>4, <2>1 DEF Ranked
  <2>2. CASE b # o
    BY <1>1, <1>2, <1>4, <2>2 DEF Ranked
  <2> QED BY <2>1, <2>2
<1>6. Ranked(rank, n)'
  BY <1>1, <1>2, <1>3, <1>5 DEF Ranked
<1> QED BY <1>6 DEF QueueInv

LEMMA NextQueue ==
  ASSUME Ind, QueueInv, [Next]_vars
  PROVE  QueueInv'
<1> USE DEF Ind, TypeOK
<1>1. ASSUME NEW o \in Ops, RequestSync(o) \/ Retry(o) PROVE QueueInv'
  <2>1. Kind[o] \in Queued /\ ~InLine(o) /\ Synchronize(o)
    BY <1>1 DEF RequestSync, Retry, Ask, Queued, InLine, Turn, Holding
  <2>2. CASE promise[Target(o)] # NoOp
    <3>1. /\ UNCHANGED <<ahead, tail>>
          /\ pc'[o] \in {"joined", "waiting"}
          /\ \A x \in Ops : x # o => pc'[x] = pc[x]
      BY <2>1, <2>2 DEF Synchronize, queueVars
    <3> QED BY <2>1, <3>1, LinesSame DEF InLine, Turn, Holding
  <2>3. CASE promise[Target(o)] = NoOp
    BY <2>1, <2>3, EnqueueStep DEF Synchronize
  <2> QED BY <2>2, <2>3
<1>2. ASSUME NEW o \in Ops, RequestQueued(o) PROVE QueueInv'
  BY <1>2, EnqueueStep DEF RequestQueued, Ask, InLine, Turn, Holding
<1>3. ASSUME NEW o \in Ops, RequestRefresh(o) \/ RequestAssert(o) \/ ReserveAssert(o)
      PROVE QueueInv'
  <2>1. /\ UNCHANGED <<ahead, tail>> /\ Kind[o] \notin Queued
        /\ \A x \in Ops : x # o => pc'[x] = pc[x]
    BY <1>3 DEF RequestRefresh, RequestAssert, ReserveAssert, Ask, queueVars, Queued, Sync
  <2> QED BY <2>1, LinesSame DEF InLine
<1>4. ASSUME NEW o \in Ops, Share(o) PROVE QueueInv'
  <2>1. /\ UNCHANGED <<ahead, tail>>
        /\ pc[o] = "joined" /\ pc'[o] \in Settled
        /\ \A x \in Ops : x # o => pc'[x] = pc[x]
    BY <1>4, OpsAssumption DEF Share, BehindIsOver, Over, Shape, queueVars
  <2> QED BY <2>1, LinesSame DEF InLine, Settled, Turn, Holding
<1>5. ASSUME NEW o \in Ops, Begin(o) PROVE QueueInv'
  BY <1>5, BeginQueue
<1>6. ASSUME NEW o \in Ops, Check(o) \/ Reserve(o) \/ Read(o) \/ Apply(o) \/ Fail(o)
      PROVE QueueInv'
  <2>1. /\ UNCHANGED <<ahead, tail>>
        /\ pc[o] \in Turn /\ pc'[o] \in Turn
        /\ \A x \in Ops : x # o => pc'[x] = pc[x]
    BY <1>6 DEF Check, Reserve, Read, Apply, Fail, queueVars, Turn, Holding
  <2> QED BY <2>1, LinesSame DEF InLine
<1>7. ASSUME NEW o \in Ops, Reject(o) \/ Finish(o) PROVE QueueInv'
  <2>1. /\ pc[o] \in Turn /\ UNCHANGED ahead
        /\ \E outcome \in Settled : Settle(o, outcome)
    BY <1>7 DEF Reject, Finish, Settled, Turn, Holding
  <2> QED BY <2>1, SettleQueue
<1>8. CASE User \/ UNCHANGED vars
  <2>1. UNCHANGED <<pc, ahead, tail>>
    BY <1>8, Zenon DEF User, Timeout, Cancel, Pause, Resume, Edit, AbortLogins, AbortAll,
       StopAutomatic, EndSession, UnlockVault,
       queueVars, vars
  <2> QED BY <2>1, LinesSame DEF InLine
<1> QED BY <1>1, <1>2, <1>3, <1>4, <1>5, <1>6, <1>7, <1>8 DEF Next, Progress, Request

(* Two operations of the queue never have their turn on one source together, *)
(* though either may have been aborted: the tails order them.                *)
THEOREM QueueOrders == Spec => []QueueExclusion
<1>1. Ind /\ QueueInv /\ [Next]_vars => QueueInv'
  BY NextQueue
<1>2. Ind /\ QueueInv => QueueExclusion
  <2> SUFFICES ASSUME Ind, QueueInv, NEW a \in Ops, NEW b \in Ops, a # b,
                      Kind[a] \in Queued, Kind[b] \in Queued, pc[a] \in Turn, pc[b] \in Turn,
                      NEW p \in Targets[a] \cap Targets[b]
               PROVE  FALSE
    BY DEF QueueExclusion
  <2>1. PICK rank, n : Ranked(rank, n)
    BY DEF QueueInv
  <2>2. p \in Providers /\ a \in Line(p) /\ b \in Line(p) /\ ahead[a] = {} /\ ahead[b] = {}
    BY <2>1, OpsAssumption DEF Line, InLine, Ranked
  <2>3. rank[a] < rank[b] /\ rank[b] < rank[a]
    BY <2>1, <2>2, FirstInLine
  <2> QED BY <2>1, <2>3 DEF Ranked
<1> QED BY InitQueue, Inductive, <1>1, <1>2, PTL DEF Spec
-----------------------------------------------------------------------------
(* The runtime implements the lease of a source, for every set of sources    *)
(* and operations.                                                           *)

(* Only an operation that works has a controller that may have fired. *)
AbortedWork == \A o \in aborted : pc[o] \in Holding

(* The user, a timer or an abort aborts operations that work, and moves none. *)
LEMMA UserAborts ==
  ASSUME Ind, User
  PROVE  /\ UNCHANGED pc
         /\ aborted \subseteq aborted'
         /\ \A x \in aborted' : x \in aborted \/ pc[x] \in Holding
<1>1. UNCHANGED pc
  BY Zenon DEF User, Timeout, Cancel, Pause, Resume, Edit, AbortLogins, AbortAll,
       StopAutomatic, EndSession, UnlockVault
<1>2. aborted \subseteq aborted'
  BY DEF User, Timeout, Cancel, Pause, Resume, Edit, AbortLogins, AbortAll,
       StopAutomatic, EndSession, UnlockVault, AbortOwner, AbortAllOwners
<1>3. \A x \in aborted' : x \in aborted \/ pc[x] \in Holding
  <2>1. \A p \in Providers : owner[p] # NoOp => pc[owner[p]] \in Holding
    BY DEF Ind, OwnershipExact
  <2>2. CASE \E o \in Ops : Timeout(o)
    BY <2>2 DEF Timeout
  <2>3. CASE \E p \in Providers : Cancel(p) \/ Pause(p) \/ Resume(p)
    BY <2>1, <2>3 DEF Cancel, Pause, Resume, AbortOwner
  <2>4. CASE \E logins \in SUBSET Ops : AbortLogins(logins)
    BY <2>4 DEF AbortLogins
  <2>5. CASE AbortAll
    BY <2>1, <2>5 DEF AbortAll, AbortAllOwners, Automatic
  <2>6. CASE StopAutomatic
    BY <2>6 DEF StopAutomatic, Automatic
  <2>7. CASE Edit \/ EndSession \/ UnlockVault
    BY <2>7 DEF Edit, EndSession, UnlockVault
  <2> QED BY <2>2, <2>3, <2>4, <2>5, <2>6, <2>7 DEF User
<1> QED BY <1>1, <1>2, <1>3

LEMMA SettleAborted ==
  ASSUME Ind, AbortedWork, NEW o \in Ops, NEW outcome \in Settled, Settle(o, outcome)
  PROVE  AbortedWork'
BY DEF Ind, TypeOK, AbortedWork, Settle

LEMMA NextAborted ==
  ASSUME Ind, AbortedWork, [Next]_vars
  PROVE  AbortedWork'
<1> USE DEF Ind, TypeOK, AbortedWork
<1>1. ASSUME NEW o \in Ops, Request(o) \/ Retry(o) \/ Share(o) \/ ReserveAssert(o) \/ Begin(o)
                            \/ Check(o) \/ Reserve(o)
      PROVE AbortedWork'
  <2>1. UNCHANGED aborted
    BY <1>1, Zenon DEF Request, RequestSync, RequestQueued, RequestRefresh, RequestAssert, Retry,
       Share, ReserveAssert, Begin, Check, Reserve
  <2>2. pc[o] \notin Holding
    BY <1>1, Zenon DEF Request, RequestSync, RequestQueued, RequestRefresh, RequestAssert, Retry,
       Share, ReserveAssert, Begin, Check, Reserve, Ask, Holding
  <2>3. \A x \in Ops : x # o => pc'[x] = pc[x]
    BY <1>1 DEF Request, RequestSync, RequestQueued, RequestRefresh, RequestAssert, Retry,
       Share, ReserveAssert, Begin, Check, Reserve, Ask, Synchronize, Enqueue
  <2> QED BY <2>1, <2>2, <2>3
<1>2. ASSUME NEW o \in Ops, Reject(o) \/ Finish(o) PROVE AbortedWork'
  <2>1. \E outcome \in Settled : Settle(o, outcome)
    BY <1>2 DEF Reject, Finish, Settled
  <2> QED BY <2>1, SettleAborted
<1>3. ASSUME NEW o \in Ops, Read(o) \/ Apply(o) \/ Fail(o) PROVE AbortedWork'
  BY <1>3 DEF Read, Apply, Fail, Holding
<1>4. CASE User
  BY <1>4, UserAborts
<1>5. CASE UNCHANGED vars
  BY <1>5 DEF vars
<1> QED BY <1>1, <1>2, <1>3, <1>4, <1>5 DEF Next, Progress

-----------------------------------------------------------------------------
(* The mapped stages. *)
StageMap == [o \in Owners |-> Stage(o)]

LEMMA OwnersSame == Owners' = Owners /\ \A o \in Ops : Target(o)' = Target(o)
BY DEF Owners, Reserves, Target

LEMMA InitLease == Init => Lease!Init
BY DEF Init, Lease!Init, Stage, Owners, Settled

(* Who has a lease works and was not told to stop. *)
LEMMA LeasedWorks ==
  ASSUME Ind, NEW o \in Ops, Stage(o) \in Lease!Leased
  PROVE  pc[o] \in Holding /\ o \notin aborted
BY DEF Stage, Lease!Leased, Holding, Settled

(* A step that changes the stage of one operation changes the map there only. *)
LEMMA OneStage ==
  ASSUME NEW o \in Owners, \A x \in Ops : x # o => Stage(x)' = Stage(x)
  PROVE  StageMap' = [StageMap EXCEPT ![o] = Stage(o)']
BY OwnersSame DEF StageMap, Owners

(* What one operation may do to its stage, and that it does it to the lease.  *)
Moves(o) ==
  \/ Stage(o)' = Stage(o)
  \/ Stage(o) = "new" /\ Stage(o)' = "holds" /\ owner[Target(o)] = NoOp
  \/ Stage(o) = "holds" /\ Stage(o)' = "merged"
  \/ Stage(o) \in {"holds", "merged"} /\ Stage(o)' = "leaving"
  \/ Stage(o) = "withdrawn" /\ Stage(o)' = "revoked"
  \/ Stage(o) # "over" /\ Stage(o)' = "over"

LEMMA LeaseStep ==
  ASSUME Ind, NEW o \in Ops, \A x \in Ops : x # o => Stage(x)' = Stage(x),
         Reserves(o) => Moves(o)
  PROVE  [Lease!Next]_StageMap
<1>1. CASE o \notin Owners
  <2>1. \A x \in Owners : Stage(x)' = Stage(x)
    BY <1>1 DEF Owners
  <2> QED BY <2>1, OwnersSame DEF StageMap
<1>2. CASE o \in Owners
  <2>1. /\ StageMap' = [StageMap EXCEPT ![o] = Stage(o)']
        /\ \A u \in Owners : StageMap[u] = Stage(u)
        /\ Moves(o)
    BY <1>2, OneStage DEF StageMap, Owners
  <2>2. CASE Stage(o)' = Stage(o)
    BY <2>1, <2>2, <1>2 DEF StageMap
  <2>3. CASE Stage(o) = "new" /\ Stage(o)' = "holds" /\ owner[Target(o)] = NoOp
    <3>1. \A v \in Owners : Target(v) = Target(o) => Stage(v) \notin Lease!Leased
      <4> SUFFICES ASSUME NEW v \in Owners, Target(v) = Target(o), Stage(v) \in Lease!Leased
                   PROVE  FALSE
        OBVIOUS
      <4>1. v \in Ops /\ pc[v] \in Holding /\ v \notin aborted
        BY LeasedWorks DEF Owners
      <4>2. owner[Target(v)] = v
        BY <4>1 DEF Ind, OwnershipExact
      <4> QED BY <4>1, <4>2, <2>3, OpsAssumption
    <3>2. Lease!Take(o)
      BY <1>2, <2>1, <2>3, <3>1 DEF Lease!Take, StageMap
    <3> QED BY <1>2, <3>2 DEF Lease!Next, StageMap
  <2>4. CASE Stage(o) = "holds" /\ Stage(o)' = "merged"
    <3>1. Lease!Merge(o)
      BY <1>2, <2>1, <2>4 DEF Lease!Merge, StageMap
    <3> QED BY <1>2, <3>1 DEF Lease!Next
  <2>5. CASE \/ Stage(o) \in {"holds", "merged"} /\ Stage(o)' = "leaving"
             \/ Stage(o) = "withdrawn" /\ Stage(o)' = "revoked"
    <3>1. Lease!Leave(o)
      BY <1>2, <2>1, <2>5 DEF Lease!Leave, StageMap
    <3> QED BY <1>2, <3>1 DEF Lease!Next
  <2>6. CASE Stage(o) # "over" /\ Stage(o)' = "over"
    <3>1. Lease!End(o)
      BY <1>2, <2>1, <2>6 DEF Lease!End, StageMap
    <3> QED BY <1>2, <3>1 DEF Lease!Next
  <2> QED BY <2>1, <2>2, <2>3, <2>4, <2>5, <2>6 DEF Moves
<1> QED BY <1>1, <1>2

LEMMA StageSame ==
  ASSUME NEW o \in Ops, pc'[o] = pc[o], o \in aborted' <=> o \in aborted
  PROVE  Stage(o)' = Stage(o)
BY DEF Stage

(* An operation that settles gives the lease back. *)
LEMMA SettleLease ==
  ASSUME Ind, NEW o \in Ops, NEW outcome \in Settled, Settle(o, outcome), ~Over(o)
  PROVE  [Lease!Next]_StageMap
<1>1. ASSUME NEW x \in Ops, x # o PROVE Stage(x)' = Stage(x)
  <2>1. pc'[x] = pc[x] /\ (x \in aborted' <=> x \in aborted)
    BY <1>1 DEF Settle, Ind, TypeOK
  <2> QED BY <2>1, StageSame
<1>2. pc'[o] = outcome
  BY DEF Settle, Ind, TypeOK
<1>3. Stage(o)' = "over"
  BY <1>2 DEF Stage, Settled
<1>4. Stage(o) # "over"
  BY DEF Stage, Over
<1> QED BY <1>1, <1>3, <1>4, LeaseStep DEF Moves

(* What the user, a timer or an abort does revokes leases. *)
LEMMA UserLease ==
  ASSUME Ind, User
  PROVE  [Lease!Next]_StageMap
<1> DEFINE all == {o \in Owners : o \in aborted' /\ o \notin aborted}
<1>1. UNCHANGED pc
  BY UserAborts
<1>2. aborted \subseteq aborted'
  BY UserAborts
<1>3. \A x \in aborted' : x \in aborted \/ pc[x] \in Holding
  BY UserAborts
<1>4. ASSUME NEW o \in Owners, o \notin all PROVE Stage(o)' = Stage(o)
  BY <1>1, <1>2, <1>4, StageSame DEF Owners
<1>5. ASSUME NEW o \in Owners, o \in all
      PROVE  /\ Stage(o) \in Lease!Leased
             /\ Stage(o)' = IF Stage(o) = "merged" THEN "withdrawn" ELSE "revoked"
  <2>1. pc[o] \in Holding /\ o \notin aborted /\ o \in aborted' /\ pc' = pc
    BY <1>1, <1>3, <1>5
  <2>2. CASE pc[o] = "applied"
    BY <2>1, <2>2 DEF Stage, Settled, Lease!Leased
  <2>3. CASE pc[o] \in {"working", "reading"}
    BY <2>1, <2>3 DEF Stage, Settled, Lease!Leased
  <2>4. CASE pc[o] = "failing"
    BY <2>1, <2>4 DEF Stage, Settled, Lease!Leased
  <2> QED BY <2>1, <2>2, <2>3, <2>4 DEF Holding
<1>6. Lease!Revoke(all)
  <2>1. \A u \in Owners : StageMap[u] = Stage(u)
    BY DEF StageMap
  <2>2. \A u \in all : StageMap[u] \in Lease!Leased
    BY <1>5, <2>1
  <2>3. StageMap' = [u \in Owners |-> IF u \notin all THEN StageMap[u]
                      ELSE IF StageMap[u] = "merged" THEN "withdrawn" ELSE "revoked"]
    BY <1>4, <1>5, <2>1, OwnersSame DEF StageMap
  <2> QED BY <2>2, <2>3 DEF Lease!Revoke, StageMap
<1> QED BY <1>6 DEF Lease!Next, StageMap

LEMMA NextLease ==
  ASSUME Ind, AbortedWork, [Next]_vars
  PROVE  [Lease!Next]_StageMap
<1> DEFINE Goal == [Lease!Next]_StageMap
<1> HIDE DEF Goal
<1>1. ASSUME NEW o \in Ops, UNCHANGED aborted, \A x \in Ops : x # o => pc'[x] = pc[x],
             Reserves(o) => Moves(o)
      PROVE Goal
  <2>1. \A x \in Ops : x # o => Stage(x)' = Stage(x)
    BY <1>1, StageSame
  <2> QED BY <1>1, <2>1, LeaseStep DEF Goal
<1>2. ASSUME NEW o \in Ops, pc[o] \notin Holding PROVE o \notin aborted
  BY <1>2 DEF AbortedWork
<1>3. ASSUME NEW o \in Ops, RequestSync(o) \/ Retry(o) PROVE Goal
  <2>1. /\ UNCHANGED aborted
        /\ \A x \in Ops : x # o => pc'[x] = pc[x]
        /\ pc[o] \in {"idle", "waiting"}
        /\ pc'[o] \in {"joined", "waiting", "queued"}
    BY <1>3 DEF RequestSync, Retry, Ask, Synchronize, Enqueue, Ind, TypeOK
  <2>2. Stage(o)' = Stage(o)
    BY <2>1 DEF Stage, Settled
  <2> QED BY <1>1, <2>1, <2>2 DEF Moves
<1>4. ASSUME NEW o \in Ops, RequestQueued(o) \/ RequestAssert(o) \/ Begin(o) \/ Check(o)
      PROVE Goal
  <2>1. /\ UNCHANGED aborted
        /\ \A x \in Ops : x # o => pc'[x] = pc[x]
        /\ pc[o] \in {"idle", "queued", "checking"}
        /\ pc'[o] \in {"waiting", "queued", "checking", "gate", "holding"}
    BY <1>4 DEF RequestQueued, RequestAssert, Begin, Check, Ask, Enqueue, Ind, TypeOK
  <2>2. Stage(o)' = Stage(o)
    BY <2>1 DEF Stage, Settled
  <2> QED BY <1>1, <2>1, <2>2 DEF Moves
<1>5. ASSUME NEW o \in Ops, RequestRefresh(o) \/ ReserveAssert(o) \/ Reserve(o) PROVE Goal
  <2>1. /\ UNCHANGED aborted
        /\ \A x \in Ops : x # o => pc'[x] = pc[x]
        /\ pc[o] \in {"idle", "waiting", "checking", "gate"}
        /\ \/ pc'[o] = "failed"
           \/ pc'[o] = pc[o]
           \/ pc'[o] = "working" /\ owner[Target(o)] = NoOp
    BY <1>5 DEF RequestRefresh, ReserveAssert, Reserve, Ask, IsBusy, Ind, TypeOK
  <2>2. o \notin aborted /\ o \notin aborted'
    BY <1>2, <2>1 DEF Holding
  <2>3. Stage(o) = "new"
    BY <2>1 DEF Stage, Settled
  <2>4. CASE pc'[o] = "failed"
    <3>1. Stage(o)' = "over"
      BY <2>4 DEF Stage, Settled
    <3> QED BY <1>1, <2>1, <2>3, <3>1 DEF Moves
  <2>5. CASE pc'[o] = pc[o]
    <3>1. Stage(o)' = Stage(o)
      BY <2>2, <2>5, StageSame
    <3> QED BY <1>1, <2>1, <3>1 DEF Moves
  <2>6. CASE pc'[o] = "working" /\ owner[Target(o)] = NoOp
    <3>1. Stage(o)' = "holds"
      BY <2>2, <2>6 DEF Stage, Settled
    <3> QED BY <1>1, <2>1, <2>3, <2>6, <3>1 DEF Moves
  <2> QED BY <2>1, <2>4, <2>5, <2>6
<1>6. ASSUME NEW o \in Ops, Share(o) PROVE Goal
  <2>1. /\ UNCHANGED aborted
        /\ \A x \in Ops : x # o => pc'[x] = pc[x]
        /\ pc[o] = "joined"
        /\ pc'[o] \in Settled
    BY <1>6, OpsAssumption DEF Share, BehindIsOver, Over, Ind, TypeOK, Shape
  <2>2. Stage(o) = "new" /\ Stage(o)' = "over"
    BY <2>1 DEF Stage, Settled
  <2> QED BY <1>1, <2>1, <2>2 DEF Moves
<1>7. ASSUME NEW o \in Ops, Reject(o) \/ Finish(o) PROVE Goal
  <2>1. ~Over(o) /\ \E outcome \in Settled : Settle(o, outcome)
    BY <1>7 DEF Reject, Finish, Settled, Over
  <2> QED BY <2>1, SettleLease DEF Goal
<1>8. ASSUME NEW o \in Ops, Read(o) \/ Apply(o) PROVE Goal
  <2>1. /\ UNCHANGED aborted
        /\ \A x \in Ops : x # o => pc'[x] = pc[x]
        /\ o \notin aborted
        /\ \/ pc[o] = "working" /\ pc'[o] = "reading"
           \/ pc[o] = "reading" /\ pc'[o] = "applied"
    BY <1>8 DEF Read, Apply, MayApply, Ind, TypeOK
  <2>2. Stage(o) = "holds" /\ Stage(o)' \in {"holds", "merged"}
    BY <2>1 DEF Stage, Settled
  <2> QED BY <1>1, <2>1, <2>2 DEF Moves
<1>9. ASSUME NEW o \in Ops, Fail(o) PROVE Goal
  <2>1. /\ UNCHANGED aborted
        /\ \A x \in Ops : x # o => pc'[x] = pc[x]
        /\ pc[o] \in {"working", "reading", "applied"} /\ pc'[o] = "failing"
    BY <1>9 DEF Fail, Ind, TypeOK
  <2>2. \/ Stage(o) \in {"holds", "merged"} /\ Stage(o)' = "leaving"
        \/ Stage(o) \in {"revoked", "withdrawn"} /\ Stage(o)' = "revoked"
    BY <2>1 DEF Stage, Settled
  <2> QED BY <1>1, <2>1, <2>2 DEF Moves
<1>10. CASE User
  BY <1>10, UserLease DEF Goal
<1>11. CASE UNCHANGED vars
  <2>1. \A x \in Owners : Stage(x)' = Stage(x)
    BY <1>11 DEF vars, Stage
  <2> QED BY <2>1, OwnersSame DEF Goal, StageMap
<1> QED BY <1>3, <1>4, <1>5, <1>6, <1>7, <1>8, <1>9, <1>10, <1>11 DEF Next, Progress, Request, Goal

(* The runtime gives a source to one operation at a time, and merges nothing  *)
(* that was revoked: queue, registry and aborts implement the lease.          *)
THEOREM LeaseImplemented == Spec => ImplementsLease
<1>1. Init => Lease!Init /\ AbortedWork
  BY InitLease DEF Init, AbortedWork
<1>2. Ind /\ AbortedWork /\ [Next]_vars => AbortedWork'
  BY NextAborted
<1>3. Ind /\ AbortedWork /\ [Next]_vars => [Lease!Next]_StageMap
  BY NextLease
<1> QED BY <1>1, <1>2, <1>3, Inductive, PTL DEF Spec, ImplementsLease, Lease!Spec, StageMap
=============================================================================
