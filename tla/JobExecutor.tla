----------------------------- MODULE JobExecutor -----------------------------
(***************************************************************************)
(* One activation of executeJob(), from the poll that claims an id to the  *)
(* promise that settles, on every engine instance at once.  An activation  *)
(* is a member of Runs; its pc names the adapter call it is awaiting.      *)
(***************************************************************************)
EXTENDS JobStore

CONSTANTS
  Runs,         \* activations alive at the same time (a bound)
  Concurrency,  \* handler slots of an engine instance
  Foreign,      \* pairs <<n, j>> whose environments differ
  Guaranteed,   \* jobs whose handler keeps guaranteedWorker on
  Gated,        \* jobs behind a rate limiter or a condition
  Timed,        \* jobs whose handler has a timeout
  Discarding,   \* jobs whose handler may call ctx.discard
  Pruned,       \* jobs with removeOnComplete / removeOnFail
  MaxFaults     \* storage calls that may throw (a bound)

NoRun == "norun"
NoJob == "nojob"

ASSUME ExecutorAssumption ==
  /\ IsFiniteSet(Runs) /\ NoRun \notin Runs /\ NoJob \notin Jobs
  /\ Concurrency \in Nat /\ MaxFaults \in Nat
  /\ Foreign \subseteq Nodes \X Jobs
  /\ Guaranteed \subseteq Jobs /\ Gated \subseteq Jobs
  /\ Timed \subseteq Jobs /\ Discarding \subseteq Jobs /\ Pruned \subseteq Jobs

VARIABLES
  node,    \* process state of each engine: "off", "up", "stopping", "down"
  run,     \* the activations
  hbOf,    \* heartbeats: the activation whose HeartbeatWorker is registered
  acOf,    \* abortControllers: the activation whose controller is registered
  slots,   \* activeJobsByQueue / activeJobsByTopic
  faults   \* storage calls that threw so far

execVars == <<run, hbOf, acOf, slots>>

Pcs == {"fetch", "orphan", "foreign", "acquire", "refused", "activate",
        "gate", "running", "nackStop", "nackSave", "nackSend",
        "finStop", "finRead", "finSave", "finAck", "prune", "leaked"}

FreeRun == [pc |-> "free", node |-> NoNode, job |-> NoJob, rec |-> NoRecord,
            prev |-> NoRecord, hb |-> FALSE, aborted |-> FALSE]
BusyRun == [pc : Pcs, node : Nodes, job : Jobs, rec : JobRecord, prev : JobRecord,
            hb : BOOLEAN, aborted : BOOLEAN]

ExecTypeOK ==
  /\ node \in [Nodes -> {"off", "up", "stopping", "down"}]
  /\ run \in [Runs -> BusyRun \cup {FreeRun}]
  /\ hbOf \in [Nodes -> [Jobs -> Runs \cup {NoRun}]]
  /\ acOf \in [Nodes -> [Jobs -> Runs \cup {NoRun}]]
  /\ slots \in [Nodes -> SUBSET Jobs]
  /\ faults \in 0 .. MaxFaults

ExecInit ==
  /\ node = [n \in Nodes |-> "off"]
  /\ run = [r \in Runs |-> FreeRun]
  /\ hbOf = [n \in Nodes |-> [j \in Jobs |-> NoRun]]
  /\ acOf = [n \in Nodes |-> [j \in Jobs |-> NoRun]]
  /\ slots = [n \in Nodes |-> {}]
  /\ faults = 0

At(r, pc) == run[r].pc = pc
Alive(n) == node[n] \in {"up", "stopping"}
Goto(r, pc) == run' = [run EXCEPT ![r].pc = pc]

(* Mutant: the slot is freed, the activation is not. *)
SettleHalfway(r) ==
  /\ run' = [run EXCEPT ![r].job = NoJob]
  /\ slots' = [slots EXCEPT ![run[r].node] = @ \ {run[r].job}]

(* The promise settles: the poll's finally clause frees the slot.           *)
Settle(r) ==
  /\ run' = [run EXCEPT ![r] = FreeRun]
  /\ slots' = [slots EXCEPT ![run[r].node] = @ \ {run[r].job}]

(* The runs of `f` after the controller registered for (n, j) aborts.       *)
AbortIn(f, n, j) ==
  [r \in Runs |-> IF acOf[n][j] = r THEN [f[r] EXCEPT !.aborted = TRUE] ELSE f[r]]

(* The runs of `f` after stop() on the heartbeat registered for (n, j).     *)
SilenceIn(f, n, j) ==
  [r \in Runs |-> IF hbOf[n][j] = r THEN [f[r] EXCEPT !.hb = FALSE] ELSE f[r]]

Register(map, n, j, r) == [map EXCEPT ![n][j] = r]
Unregister(map, n, j) == Register(map, n, j, NoRun)

-----------------------------------------------------------------------------
(* Mutant: only started jobs count against the slots. *)
FetchingIgnored(n) == {}

(* Claiming.  Ids claimed together are fetched one after the other, and     *)
(* only then enter the active set: until then they count as `Fetching`.     *)
Fetching(n) == {r \in Runs : run[r].node = n /\ run[r].pc \in {"fetch", "orphan", "foreign"}}

Claim(n, j, r) ==
  /\ node[n] = "up"
  /\ Cardinality(slots[n]) + Cardinality(Fetching(n)) < Concurrency
  /\ place[j] # "out"
  /\ At(r, "free")
  /\ TakeClaim(j)
  /\ run' = [run EXCEPT ![r] = [FreeRun EXCEPT !.pc = "fetch", !.node = n, !.job = j]]
  /\ UNCHANGED <<store, lock, node, hbOf, acOf, slots, faults>>

FetchOrphan(r) ==
  /\ At(r, "fetch") /\ store[run[r].job].status = "absent"
  /\ Goto(r, "orphan")
  /\ UNCHANGED <<storeVars, node, hbOf, acOf, slots, faults>>

AckOrphan(r) ==
  /\ At(r, "orphan")
  /\ Ack(run[r].job)
  /\ run' = [run EXCEPT ![r] = FreeRun]
  /\ UNCHANGED <<store, lock, node, hbOf, acOf, slots, faults>>

FetchForeign(r) ==
  /\ At(r, "fetch") /\ store[run[r].job].status # "absent"
  /\ <<run[r].node, run[r].job>> \in Foreign
  /\ Goto(r, "foreign")
  /\ UNCHANGED <<storeVars, node, hbOf, acOf, slots, faults>>

NackForeign(r) ==
  /\ At(r, "foreign")
  /\ Nack(run[r].job, "ready")
  /\ run' = [run EXCEPT ![r] = FreeRun]
  /\ UNCHANGED <<store, lock, node, hbOf, acOf, slots, faults>>

(* The engine keeps the record it read and never looks at its status.       *)
Fetch(r) ==
  LET n == run[r].node
      j == run[r].job
  IN  /\ At(r, "fetch") /\ store[j].status # "absent" /\ <<n, j>> \notin Foreign
      /\ slots' = [slots EXCEPT ![n] = @ \cup {j}]
      /\ run' = [run EXCEPT ![r].rec = store[j],
                            ![r].pc = IF j \in Guaranteed THEN "acquire" ELSE "activate"]
      /\ acOf' = IF j \in Guaranteed THEN acOf ELSE Register(acOf, n, j, r)
      /\ UNCHANGED <<storeVars, node, hbOf, faults>>

-----------------------------------------------------------------------------
(* Heartbeat lock, then the record turns active.                            *)
AcquireLock(r) ==
  LET n == run[r].node
      j == run[r].job
  IN  /\ At(r, "acquire") /\ j \in Guaranteed /\ CanAcquire(Key(n, j), n)
      /\ Acquire(Key(n, j), n)
      /\ run' = [run EXCEPT ![r].pc = "activate", ![r].hb = TRUE]
      /\ hbOf' = Register(hbOf, n, j, r)
      /\ acOf' = Register(acOf, n, j, r)
      /\ UNCHANGED <<store, place, node, slots, faults>>

AcquireRefused(r) ==
  /\ At(r, "acquire") /\ ~CanAcquire(Key(run[r].node, run[r].job), run[r].node)
  /\ Goto(r, "refused")
  /\ UNCHANGED <<storeVars, node, hbOf, acOf, slots, faults>>

NackRefused(r) ==
  /\ At(r, "refused")
  /\ Nack(run[r].job, "ready")
  /\ Settle(r)
  /\ UNCHANGED <<store, lock, node, hbOf, acOf, faults>>

Activated(r) ==
  [run[r].rec EXCEPT !.status = "active", !.worker = run[r].node,
                     !.attempt = Bump(@, AttemptCap)]

Activate(r) ==
  LET j == run[r].job
  IN  /\ At(r, "activate")
      /\ Save(j, Activated(r))
      /\ run' = [run EXCEPT ![r].rec = Activated(r),
                            ![r].prev = IF j \in Gated THEN run[r].rec ELSE NoRecord,
                            ![r].pc = IF j \in Gated THEN "gate" ELSE "running"]
      /\ UNCHANGED <<place, lock, node, hbOf, acOf, slots, faults>>

(* The save that marks the job active is outside the try: when it throws,   *)
(* the promise rejects with the heartbeat still renewing.                   *)
ActivateFails(r) ==
  /\ At(r, "activate") /\ faults < MaxFaults
  /\ faults' = faults + 1
  /\ run' = [run EXCEPT ![r].pc = "leaked", ![r].rec = NoRecord]
  /\ slots' = [slots EXCEPT ![run[r].node] = @ \ {run[r].job}]
  /\ UNCHANGED <<storeVars, node, hbOf, acOf>>

-----------------------------------------------------------------------------
(* Pre-execution gates: a refusal restores the record read at the claim.    *)
GatePass(r) ==
  /\ At(r, "gate")
  /\ run' = [run EXCEPT ![r].pc = "running", ![r].prev = NoRecord]
  /\ UNCHANGED <<storeVars, node, hbOf, acOf, slots, faults>>

Restored(r) ==
  [run[r].rec EXCEPT !.status = run[r].prev.status, !.worker = run[r].prev.worker,
                     !.attempt = run[r].prev.attempt]

GateRefuse(r) ==
  /\ At(r, "gate")
  /\ run' = [run EXCEPT ![r].pc = "nackStop", ![r].rec = Restored(r), ![r].prev = NoRecord]
  /\ UNCHANGED <<storeVars, node, hbOf, acOf, slots, faults>>

-----------------------------------------------------------------------------
(* The handler.  ctx.progress, ctx.log and ctx.spawnChild save the local    *)
(* copy of the record as often as the handler likes.                        *)
Progress(r) ==
  /\ At(r, "running")
  /\ Save(run[r].job, run[r].rec)
  /\ UNCHANGED <<place, lock, node, execVars, faults>>

(* Mutant: the controller stays registered. *)
FinishKeepsController(r, status) ==
  /\ run' = [run EXCEPT ![r].pc = "finStop", ![r].rec.status = status]
  /\ UNCHANGED <<storeVars, node, hbOf, acOf, slots, faults>>

(* From here to the first awaited call everything is synchronous, the       *)
(* removal of the abort controller included.                                *)
Finish(r, status) ==
  LET n == run[r].node
      j == run[r].job
  IN  /\ run' = [run EXCEPT ![r].pc = "finStop", ![r].rec.status = status]
      /\ acOf' = Unregister(acOf, n, j)
      /\ UNCHANGED <<storeVars, node, hbOf, slots, faults>>

HandlerSucceeds(r) ==
  /\ At(r, "running")
  /\ Finish(r, IF run[r].aborted THEN "failed" ELSE "completed")

HandlerDiscards(r) ==
  /\ At(r, "running") /\ run[r].job \in Discarding
  /\ Finish(r, "failed")

(* Mutant: off by one in the retry budget. *)
CanRetryOnceMore(r) == ~run[r].aborted /\ run[r].rec.attempt <= MaxRetries + 1

CanRetry(r) == ~run[r].aborted /\ run[r].rec.attempt <= MaxRetries

HandlerFails(r) ==
  /\ At(r, "running") /\ ~CanRetry(r)
  /\ Finish(r, "failed")

HandlerRetries(r) ==
  /\ At(r, "running") /\ CanRetry(r)
  /\ run' = [run EXCEPT ![r].pc = "nackStop", ![r].rec.status = "delayed"]
  /\ UNCHANGED <<storeVars, node, hbOf, acOf, slots, faults>>

(* The timeout aborts the controller before it rejects.                     *)
HandlerTimesOut(r) ==
  LET n == run[r].node
      j == run[r].job
  IN  /\ At(r, "running") /\ j \in Timed
      /\ run' = [run EXCEPT ![r].pc = "finStop", ![r].rec.status = "failed",
                            ![r].aborted = TRUE]
      /\ acOf' = Unregister(acOf, n, j)
      /\ UNCHANGED <<storeVars, node, hbOf, slots, faults>>

-----------------------------------------------------------------------------
(* heartbeat.stop(): release the lease and drop the registration.           *)
StopHeartbeat(r) ==
  LET n == run[r].node
      j == run[r].job
  IN  IF j \in Guaranteed
      THEN Release(Key(n, j), n) /\ hbOf' = Unregister(hbOf, n, j)
      ELSE UNCHANGED <<lock, hbOf>>

(* The way back to the broker, of a retry and of a refused gate.            *)
NackStop(r) ==
  /\ At(r, "nackStop")
  /\ StopHeartbeat(r)
  /\ acOf' = Unregister(acOf, run[r].node, run[r].job)
  /\ run' = [run EXCEPT ![r].pc = "nackSave", ![r].hb = FALSE]
  /\ UNCHANGED <<store, place, node, slots, faults>>

(* Mutant: the id goes back to the broker before the record is saved. *)
NackBeforeSave(r) ==
  /\ At(r, "nackSave")
  /\ Nack(run[r].job, "delayed")
  /\ Goto(r, "nackSend")
  /\ UNCHANGED <<store, lock, node, hbOf, acOf, slots, faults>>

NackSave(r) ==
  /\ At(r, "nackSave")
  /\ Save(run[r].job, run[r].rec)
  /\ Goto(r, "nackSend")
  /\ UNCHANGED <<place, lock, node, hbOf, acOf, slots, faults>>

(* Mutant: a retry that is saved and never sent back. *)
NackForgotten(r) ==
  /\ At(r, "nackSend")
  /\ Settle(r)
  /\ UNCHANGED <<storeVars, node, hbOf, acOf, faults>>

NackSend(r) ==
  /\ At(r, "nackSend")
  /\ Nack(run[r].job, "delayed")
  /\ Settle(r)
  /\ UNCHANGED <<store, lock, node, hbOf, acOf, faults>>

(* The way out: the lease goes before the final record is saved.            *)
FinStop(r) ==
  /\ At(r, "finStop")
  /\ StopHeartbeat(r)
  /\ run' = [run EXCEPT ![r].pc = IF run[r].aborted THEN "finRead" ELSE "finSave",
                        ![r].hb = FALSE]
  /\ UNCHANGED <<store, place, node, acOf, slots, faults>>

FinRead(r) ==
  /\ At(r, "finRead")
  /\ IF store[run[r].job].status = "cancelled"
     THEN Settle(r)
     ELSE Goto(r, "finSave") /\ UNCHANGED slots
  /\ UNCHANGED <<storeVars, node, hbOf, acOf, faults>>

FinSave(r) ==
  /\ At(r, "finSave")
  /\ Save(run[r].job, run[r].rec)
  /\ Goto(r, "finAck")
  /\ UNCHANGED <<place, lock, node, hbOf, acOf, slots, faults>>

(* A call that throws here rejects the promise: nothing is tried again.     *)
SettleFails(r) ==
  /\ run[r].pc \in {"nackSave", "nackSend", "finSave"} /\ run[r].job \notin Gated
  /\ faults < MaxFaults
  /\ faults' = faults + 1
  /\ Settle(r)
  /\ UNCHANGED <<storeVars, node, hbOf, acOf>>

(* Mutant: a finished id is nacked. *)
FinNack(r) ==
  /\ At(r, "finAck")
  /\ Nack(run[r].job, "ready")
  /\ Settle(r)
  /\ UNCHANGED <<store, lock, node, hbOf, acOf, faults>>

FinAck(r) ==
  /\ At(r, "finAck")
  /\ Ack(run[r].job)
  /\ IF run[r].job \in Pruned
     THEN Goto(r, "prune") /\ UNCHANGED slots
     ELSE Settle(r)
  /\ UNCHANGED <<store, lock, node, hbOf, acOf, faults>>

(* Mutant: a pruned record is reset instead of deleted. *)
PruneResets(r) ==
  /\ At(r, "prune")
  /\ Save(run[r].job, NewRecord("waiting"))
  /\ Settle(r)
  /\ UNCHANGED <<place, lock, node, hbOf, acOf, faults>>

Prune(r) ==
  /\ At(r, "prune")
  /\ Save(run[r].job, NoRecord)
  /\ Settle(r)
  /\ UNCHANGED <<place, lock, node, hbOf, acOf, faults>>

-----------------------------------------------------------------------------
(* Mutant: a lost lease only stops the timer. *)
HeartbeatGivesUp(r) ==
  /\ run[r].hb /\ ~IsOwner(Key(run[r].node, run[r].job), run[r].node)
  /\ run' = [run EXCEPT ![r].hb = FALSE]
  /\ UNCHANGED <<storeVars, node, hbOf, acOf, slots, faults>>

(* HeartbeatWorker's timer: renew fails once the lease is gone, and the     *)
(* controller registered for the job, whichever run owns it, aborts.        *)
HeartbeatLost(r) ==
  LET n == run[r].node
      j == run[r].job
  IN  /\ run[r].hb /\ ~IsOwner(Key(n, j), n)
      /\ run' = AbortIn([run EXCEPT ![r].hb = FALSE], n, j)
      /\ UNCHANGED <<storeVars, node, hbOf, acOf, slots, faults>>

ExecutorStep(r) ==
  \/ FetchOrphan(r) \/ AckOrphan(r) \/ FetchForeign(r) \/ NackForeign(r) \/ Fetch(r)
  \/ AcquireLock(r) \/ AcquireRefused(r) \/ NackRefused(r) \/ Activate(r)
  \/ GatePass(r) \/ GateRefuse(r)
  \/ HandlerSucceeds(r) \/ HandlerDiscards(r) \/ HandlerFails(r) \/ HandlerRetries(r)
  \/ NackStop(r) \/ NackSave(r) \/ NackSend(r)
  \/ FinStop(r) \/ FinRead(r) \/ FinSave(r) \/ FinAck(r) \/ Prune(r)
  \/ HeartbeatLost(r)
=============================================================================
