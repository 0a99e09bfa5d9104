------------------------------ MODULE JobStore ------------------------------
(***************************************************************************)
(* The three adapters every OqronKit engine shares: the job records of     *)
(* IStorageEngine, the ready/delayed lists of IBrokerEngine and the lease  *)
(* locks of ILockAdapter.  Each call of an adapter is one atomic step; what *)
(* an engine does between two awaited calls belongs to the step of the     *)
(* first one.  The three stores are separate: no step changes two of them, *)
(* so every engine goes through states where they disagree.                *)
(***************************************************************************)
EXTENDS Naturals, FiniteSets

CONSTANTS
  Nodes,        \* engine instances; a restarted process is another member
  Jobs,         \* job ids
  Kind,         \* Nodes -> Kinds: the engine class the instance runs
  MaxRetries,   \* retries.max of the handler
  MaxStalled,   \* maxStalledCount of WorkerEngine's stall handler
  MaxStalledScan \* maxStalledCount of the cross-node scanner

Kinds == {"queue", "worker"}
NoNode == "none"

ASSUME StoreAssumption ==
  /\ IsFiniteSet(Nodes) /\ NoNode \notin Nodes
  /\ Kind \in [Nodes -> Kinds]
  /\ MaxRetries \in Nat /\ MaxStalled \in Nat /\ MaxStalledScan \in Nat

VARIABLES
  store,  \* namespace "jobs": the persisted record of each id
  place,  \* where the broker keeps the id: "out", "ready" or "delayed"
  lock    \* owner of the lease "<kind>:job:<id>"; an expired one is NoNode

storeVars == <<store, place, lock>>

Statuses == {"absent", "waiting", "delayed", "active", "stalled",
             "completed", "failed", "cancelled"}
Terminal == {"completed", "failed", "cancelled"}

(* Both counters are only compared with a threshold, so they stop at one    *)
(* past it: every larger value behaves the same.                            *)
AttemptCap == MaxRetries + 2
StallCap == (IF MaxStalled > MaxStalledScan THEN MaxStalled ELSE MaxStalledScan) + 1
Bump(n, cap) == IF n < cap THEN n + 1 ELSE n

JobRecord == [status : Statuses, worker : Nodes \cup {NoNode},
              attempt : 0 .. AttemptCap, stalled : 0 .. StallCap]
NoRecord == [status |-> "absent", worker |-> NoNode, attempt |-> 0, stalled |-> 0]
NewRecord(status) == [NoRecord EXCEPT !.status = status]

StoreTypeOK ==
  /\ store \in [Jobs -> JobRecord]
  /\ place \in [Jobs -> {"out", "ready", "delayed"}]
  /\ lock \in [Kinds \X Jobs -> Nodes \cup {NoNode}]

StoreInit ==
  /\ store = [j \in Jobs |-> NoRecord]
  /\ place = [j \in Jobs |-> "out"]
  /\ lock = [k \in Kinds \X Jobs |-> NoNode]

-----------------------------------------------------------------------------
(* IStorageEngine: save replaces the whole record.                          *)
Save(j, rec) == store' = [store EXCEPT ![j] = rec]

(* IBrokerEngine: publish and nack take the id out of every list and put it *)
(* in one; ack takes it out.  None of them looks at the job or the claim.   *)
Publish(j, where) == place' = [place EXCEPT ![j] = where]
Nack(j, where) == place' = [place EXCEPT ![j] = where]
Ack(j) == place' = [place EXCEPT ![j] = "out"]
TakeClaim(j) == place' = [place EXCEPT ![j] = "out"]

(* ILockAdapter: acquire is re-entrant for its owner, release only deletes  *)
(* the caller's own entry.                                                  *)
Key(n, j) == <<Kind[n], j>>
IsOwner(k, n) == lock[k] = n
CanAcquire(k, n) == lock[k] \in {NoNode, n}
Acquire(k, n) == lock' = [lock EXCEPT ![k] = n]
Release(k, n) == lock' = [lock EXCEPT ![k] = IF @ = n THEN NoNode ELSE @]
=============================================================================
