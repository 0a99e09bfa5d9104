----------------------------- MODULE JobRecovery -----------------------------
(***************************************************************************)
(* The actors that touch a job somebody else may be executing: the stall   *)
(* detector of each engine, the cross-node stall scanner, the              *)
(* storage/broker reconciler and OqronManager.cancelJob.  Each works on a  *)
(* snapshot it read earlier and writes the whole record back.              *)
(***************************************************************************)
EXTENDS JobExecutor

CONSTANTS
  Scanners,     \* instances with crossNodeStallScanner configured
  Reconcilers,  \* instances with reconciliation configured
  MaxCancels    \* cancelJob calls (a bound)

ASSUME RecoveryAssumption ==
  /\ Scanners \subseteq Nodes /\ Reconcilers \subseteq Nodes
  /\ MaxCancels \in Nat

VARIABLES
  stall,   \* per instance: the stalled-job handler in progress
  scan,    \* per instance: the cross-node scan in progress
  recon,   \* per instance: the reconciliation in progress
  canc,    \* per instance: the cancelJob call in progress
  cancels, \* cancelJob calls so far
  client   \* per job, queue.add: "new", "saved", "added" or "crashed"

recoveryVars == <<stall, scan, recon, canc, cancels>>
adapterless == <<node, run, hbOf, acOf, slots, faults, client>>

IdleActor == [pc |-> "idle", job |-> NoJob, snap |-> NoRecord]

Doing(pc, j, rec) == [pc |-> pc, job |-> j, snap |-> rec]

Actor(pcs) == [pc : pcs, job : Jobs, snap : JobRecord] \cup {IdleActor}

StallPcs == {"check", "get", "fail", "save", "nack"}
ScanPcs == {"check", "save", "nack"}
ReconPcs == {"publishFirst", "saveAfter", "saveFirst", "publishAfter"}
CancelPcs == {"stop", "get", "saveLocal", "ackLocal", "ack", "tombstone"}

RecoveryTypeOK ==
  /\ stall \in [Nodes -> Actor(StallPcs)]
  /\ scan \in [Nodes -> Actor(ScanPcs)]
  /\ recon \in [Nodes -> Actor(ReconPcs)]
  /\ canc \in [Nodes -> Actor(CancelPcs)]
  /\ cancels \in 0 .. MaxCancels
  /\ client \in [Jobs -> {"new", "saved", "added", "crashed"}]

RecoveryInit ==
  /\ stall = [n \in Nodes |-> IdleActor]
  /\ scan = [n \in Nodes |-> IdleActor]
  /\ recon = [n \in Nodes |-> IdleActor]
  /\ canc = [n \in Nodes |-> IdleActor]
  /\ cancels = 0
  /\ client = [j \in Jobs |-> "new"]

(* The engine's own bookkeeping for a job it gives up: abort the handler,   *)
(* free the slot, stop the heartbeat.                                       *)
Abandon(n, j) ==
  /\ run' = SilenceIn(AbortIn(run, n, j), n, j)
  /\ acOf' = Unregister(acOf, n, j)
  /\ hbOf' = Unregister(hbOf, n, j)
  /\ slots' = [slots EXCEPT ![n] = @ \ {j}]

ReleaseRegistered(n, j) ==
  IF hbOf[n][j] = NoRun THEN UNCHANGED lock ELSE Release(Key(n, j), n)

-----------------------------------------------------------------------------
(* StallDetector: one registered heartbeat at a time.                       *)
StallList(n, j) ==
  /\ node[n] = "up" /\ stall[n].pc = "idle" /\ hbOf[n][j] # NoRun
  /\ stall' = [stall EXCEPT ![n] = Doing("check", j, NoRecord)]
  /\ UNCHANGED <<storeVars, adapterless, scan, recon, canc, cancels>>

StallOwned(n) ==
  /\ stall[n].pc = "check" /\ IsOwner(Key(n, stall[n].job), n)
  /\ stall' = [stall EXCEPT ![n] = IdleActor]
  /\ UNCHANGED <<storeVars, adapterless, scan, recon, canc, cancels>>

(* QueueEngine drops the job from the very sets it then looks the queue     *)
(* name up in: the branch that marks and requeues the job is never reached. *)
StallQueue(n) ==
  LET j == stall[n].job
  IN  /\ stall[n].pc = "check" /\ Kind[n] = "queue" /\ ~IsOwner(Key(n, j), n)
      /\ Abandon(n, j)
      /\ ReleaseRegistered(n, j)
      /\ stall' = [stall EXCEPT ![n] = IdleActor]
      /\ UNCHANGED <<store, place, node, faults, client, scan, recon, canc, cancels>>

StallWorker(n) ==
  /\ stall[n].pc = "check" /\ Kind[n] = "worker" /\ ~IsOwner(Key(n, stall[n].job), n)
  /\ stall' = [stall EXCEPT ![n].pc = "get"]
  /\ UNCHANGED <<storeVars, adapterless, scan, recon, canc, cancels>>

StallGet(n) ==
  LET rec == store[stall[n].job]
      counted == [rec EXCEPT !.stalled = Bump(@, StallCap), !.attempt = Bump(@, AttemptCap)]
  IN  /\ stall[n].pc = "get"
      /\ stall' = [stall EXCEPT ![n] =
           IF rec.status # "active" THEN IdleActor
           ELSE IF rec.stalled + 1 > MaxStalled
                THEN Doing("fail", stall[n].job, [rec EXCEPT !.status = "failed"])
                ELSE Doing("save", stall[n].job, counted)]
      /\ UNCHANGED <<storeVars, adapterless, scan, recon, canc, cancels>>

StallFail(n) ==
  /\ stall[n].pc = "fail"
  /\ Save(stall[n].job, stall[n].snap)
  /\ stall' = [stall EXCEPT ![n] = IdleActor]
  /\ UNCHANGED <<place, lock, adapterless, scan, recon, canc, cancels>>

StallSave(n) ==
  LET j == stall[n].job
  IN  /\ stall[n].pc = "save"
      /\ Save(j, stall[n].snap)
      /\ Abandon(n, j)
      /\ ReleaseRegistered(n, j)
      /\ stall' = [stall EXCEPT ![n] = Doing("nack", j, NoRecord)]
      /\ UNCHANGED <<place, node, faults, client, scan, recon, canc, cancels>>

StallNack(n) ==
  /\ stall[n].pc = "nack"
  /\ Nack(stall[n].job, "ready")
  /\ stall' = [stall EXCEPT ![n] = IdleActor]
  /\ UNCHANGED <<store, lock, adapterless, scan, recon, canc, cancels>>

-----------------------------------------------------------------------------
(* CrossNodeStallScanner.scan, job by job of the list it read.              *)
ScanList(n, j) ==
  /\ n \in Scanners /\ node[n] = "up" /\ scan[n].pc = "idle"
  /\ store[j].status = "active" /\ store[j].worker # NoNode
  /\ scan' = [scan EXCEPT ![n] = Doing("check", j, store[j])]
  /\ UNCHANGED <<storeVars, adapterless, stall, recon, canc, cancels>>

ScanMark(rec) ==
  [rec EXCEPT !.stalled = Bump(@, StallCap),
              !.status = IF rec.stalled + 1 >= MaxStalledScan THEN "failed" ELSE "stalled"]

(* Mutant: every active job is taken for a healthy one. *)
ScanCheckTrusting(n) ==
  /\ scan[n].pc = "check"
  /\ scan' = [scan EXCEPT ![n] = IdleActor]
  /\ UNCHANGED <<storeVars, adapterless, stall, recon, canc, cancels>>

(* The key carries the scanner's own prefix, whoever runs the job.          *)
ScanCheck(n) ==
  /\ scan[n].pc = "check"
  /\ scan' = [scan EXCEPT ![n] =
       IF IsOwner(Key(n, scan[n].job), scan[n].snap.worker) THEN IdleActor
       ELSE Doing("save", scan[n].job, ScanMark(scan[n].snap))]
  /\ UNCHANGED <<storeVars, adapterless, stall, recon, canc, cancels>>

ScanSave(n) ==
  /\ scan[n].pc = "save"
  /\ Save(scan[n].job, scan[n].snap)
  /\ scan' = [scan EXCEPT ![n] =
       IF scan[n].snap.status = "failed" THEN IdleActor
       ELSE Doing("nack", scan[n].job, NoRecord)]
  /\ UNCHANGED <<place, lock, adapterless, stall, recon, canc, cancels>>

ScanNack(n) ==
  /\ scan[n].pc = "nack"
  /\ Nack(scan[n].job, "ready")
  /\ scan' = [scan EXCEPT ![n] = IdleActor]
  /\ UNCHANGED <<store, lock, adapterless, stall, recon, canc, cancels>>

-----------------------------------------------------------------------------
(* ReconciliationEngine.runScan, one listed job at a time, under the        *)
(* "oqron:reconciler" mutex.  The age tests become guards: a client between *)
(* save and publish, and a retry between save and nack, are younger than    *)
(* waitingThresholdMs and delayedGraceMs.                                   *)
ReconcilerFree == \A m \in Nodes : recon[m].pc = "idle"

ReconWaiting(n, j) ==
  /\ n \in Reconcilers /\ node[n] = "up" /\ ReconcilerFree
  /\ store[j].status = "waiting" /\ client[j] # "saved"
  /\ recon' = [recon EXCEPT ![n] = Doing("publishFirst", j, store[j])]
  /\ UNCHANGED <<storeVars, adapterless, stall, scan, canc, cancels>>

ReconDelayed(n, j) ==
  /\ n \in Reconcilers /\ node[n] = "up" /\ ReconcilerFree
  /\ store[j].status = "delayed" /\ client[j] # "saved" /\ place[j] # "delayed"
  /\ \A r \in Runs : run[r].pc = "nackSend" => run[r].job # j
  /\ recon' = [recon EXCEPT ![n] =
       Doing("saveFirst", j, [store[j] EXCEPT !.status = "waiting"])]
  /\ UNCHANGED <<storeVars, adapterless, stall, scan, canc, cancels>>

ReconStalled(n, j) ==
  /\ n \in Reconcilers /\ node[n] = "up" /\ ReconcilerFree
  /\ store[j].status = "stalled"
  /\ recon' = [recon EXCEPT ![n] =
       Doing("saveFirst", j, [store[j] EXCEPT !.status = "waiting", !.worker = NoNode])]
  /\ UNCHANGED <<storeVars, adapterless, stall, scan, canc, cancels>>

ReconPublish(n) ==
  /\ recon[n].pc \in {"publishFirst", "publishAfter"}
  /\ Publish(recon[n].job, "ready")
  /\ recon' = [recon EXCEPT ![n] =
       IF @.pc = "publishFirst" THEN [@ EXCEPT !.pc = "saveAfter"] ELSE IdleActor]
  /\ UNCHANGED <<store, lock, adapterless, stall, scan, canc, cancels>>

ReconSave(n) ==
  /\ recon[n].pc \in {"saveAfter", "saveFirst"}
  /\ Save(recon[n].job, recon[n].snap)
  /\ recon' = [recon EXCEPT ![n] =
       IF @.pc = "saveFirst" THEN Doing("publishAfter", @.job, NoRecord) ELSE IdleActor]
  /\ UNCHANGED <<place, lock, adapterless, stall, scan, canc, cancels>>

-----------------------------------------------------------------------------
(* OqronManager.cancelJob, called in the process of instance n.  An active  *)
(* job of this process goes through the engine's cancelActiveJob; any other *)
(* one is acked and its snapshot overwritten with a tombstone.              *)
CancelRead(n, j) ==
  /\ Alive(n) /\ canc[n].pc = "idle" /\ cancels < MaxCancels
  /\ store[j].status # "absent"
  /\ cancels' = cancels + 1
  /\ \/ /\ store[j].status = "active" /\ acOf[n][j] # NoRun
        /\ run' = SilenceIn(AbortIn(run, n, j), n, j)
        /\ acOf' = Unregister(acOf, n, j)
        /\ canc' = [canc EXCEPT ![n] =
             Doing(IF hbOf[n][j] = NoRun THEN "get" ELSE "stop", j, NoRecord)]
        /\ slots' = IF hbOf[n][j] = NoRun THEN [slots EXCEPT ![n] = @ \ {j}] ELSE slots
     \/ /\ store[j].status # "active" \/ acOf[n][j] = NoRun
        /\ canc' = [canc EXCEPT ![n] = Doing("ack", j, store[j])]
        /\ UNCHANGED <<run, acOf, slots>>
  /\ UNCHANGED <<storeVars, node, hbOf, faults, client, stall, scan, recon>>

CancelStop(n) ==
  LET j == canc[n].job
  IN  /\ canc[n].pc = "stop"
      /\ Release(Key(n, j), n)
      /\ hbOf' = Unregister(hbOf, n, j)
      /\ slots' = [slots EXCEPT ![n] = @ \ {j}]
      /\ canc' = [canc EXCEPT ![n].pc = "get"]
      /\ UNCHANGED <<store, place, run, node, acOf, faults, client, stall, scan, recon, cancels>>

CancelGet(n) ==
  LET j == canc[n].job
  IN  /\ canc[n].pc = "get"
      /\ canc' = [canc EXCEPT ![n] =
           IF store[j].status = "absent" THEN IdleActor
           ELSE Doing("saveLocal", j, store[j])]
      /\ UNCHANGED <<storeVars, adapterless, stall, scan, recon, cancels>>

CancelAck(n) ==
  /\ canc[n].pc \in {"ackLocal", "ack"}
  /\ Ack(canc[n].job)
  /\ canc' = [canc EXCEPT ![n] =
       IF @.pc = "ack" THEN [@ EXCEPT !.pc = "tombstone"] ELSE IdleActor]
  /\ UNCHANGED <<store, lock, adapterless, stall, scan, recon, cancels>>

CancelSave(n) ==
  /\ canc[n].pc \in {"saveLocal", "tombstone"}
  /\ Save(canc[n].job, [canc[n].snap EXCEPT !.status = "cancelled"])
  /\ canc' = [canc EXCEPT ![n] =
       IF @.pc = "saveLocal" THEN Doing("ackLocal", @.job, NoRecord) ELSE IdleActor]
  /\ UNCHANGED <<place, lock, adapterless, stall, scan, recon, cancels>>

DetectorStep(n) ==
  \/ StallOwned(n) \/ StallQueue(n) \/ StallWorker(n) \/ StallGet(n)
  \/ StallFail(n) \/ StallSave(n) \/ StallNack(n)
ScannerStep(n) == ScanCheck(n) \/ ScanSave(n) \/ ScanNack(n)
ReconcilerStep(n) == ReconPublish(n) \/ ReconSave(n)
CancelStep(n) == CancelStop(n) \/ CancelGet(n) \/ CancelAck(n) \/ CancelSave(n)
=============================================================================
