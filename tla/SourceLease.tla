----------------------------- MODULE SourceLease -----------------------------
(* What the background runtime promises about a password source: whoever     *)
(* works on it has a lease, one at a time, which may be revoked. Only its    *)
(* holder merges a result into the vault, once, and a revoked lease comes    *)
(* back to nobody. ProviderSync implements it.                               *)
CONSTANTS Users,   \* those who work on sources, each at most once
          Source   \* the source each of them works on

VARIABLE stage     \* of each user, one of Stages

\* "withdrawn" has merged and was revoked before it was over.
Stages == {"new", "holds", "merged", "leaving", "revoked", "withdrawn", "over"}
Leased == {"holds", "merged", "leaving"}

Init == stage = [u \in Users |-> "new"]

Take(u) ==
  /\ stage[u] = "new"
  /\ \A v \in Users : Source[v] = Source[u] => stage[v] \notin Leased
  /\ stage' = [stage EXCEPT ![u] = "holds"]

Merge(u) == stage[u] = "holds" /\ stage' = [stage EXCEPT ![u] = "merged"]
Leave(u) ==
  \/ stage[u] \in {"holds", "merged"} /\ stage' = [stage EXCEPT ![u] = "leaving"]
  \/ stage[u] = "withdrawn" /\ stage' = [stage EXCEPT ![u] = "revoked"]
End(u)   == stage[u] # "over" /\ stage' = [stage EXCEPT ![u] = "over"]

\* Somebody else wants them gone: the user, a pause, a timer or a lock that aborts.
Revoke(all) ==
  /\ \A u \in all : stage[u] \in Leased
  /\ stage' = [u \in Users |-> IF u \notin all THEN stage[u]
                               ELSE IF stage[u] = "merged" THEN "withdrawn" ELSE "revoked"]

Next ==
  \/ \E u \in Users : Take(u) \/ Merge(u) \/ Leave(u) \/ End(u)
  \/ \E all \in SUBSET Users : Revoke(all)

Spec == Init /\ [][Next]_stage
-----------------------------------------------------------------------------
\* A source is leased to one user at a time.
OneHolder ==
  \A u, v \in Users : Source[u] = Source[v] /\ stage[u] \in Leased /\ stage[v] \in Leased => u = v
=============================================================================
