---------------------------- MODULE BatchWorkers ----------------------------
(***************************************************************************)
(* The poll loop of BatchEngine and executeJob: a claimed id is loaded,    *)
(* marked active, its lease taken, the handler run, and the outcome saved  *)
(* before the broker hears of it.  A run writes its own copy of the record *)
(* back each time and never looks whether the stored one has changed.      *)
(***************************************************************************)
EXTENDS BatchBuffer

VARIABLES
  run,      \* the executeJob call in each slot
  active,   \* activeJobs of each process
  paused,   \* pausedBatches of each process holds this definition
  brokerPaused, \* IBrokerEngine.pause
  orphaned, \* history: jobs a process died with
  shared,   \* history: jobs two runs had at once or whose lease a live run lost
  outlived  \* history: jobs with a handler that went on after its timeout

workerVars == <<run, active, paused, brokerPaused, orphaned, shared, outlived>>

RunPcs == {"load", "ackGone", "activate", "lease", "giveBack", "nackBack",
           "handler", "release", "save", "ack", "nack", "prune", "zombie"}
Outcomes == {"none", "ok", "error", "discard"}
IdleRun == [pc |-> "idle", node |-> NoNode, job |-> NoJob, rec |-> NoRecord,
            outcome |-> "none", hung |-> FALSE]
RunRecord == [pc : RunPcs, node : Nodes, job : Jobs, rec : BatchJob,
              outcome : Outcomes, hung : BOOLEAN] \cup {IdleRun}

WorkersTypeOK ==
  /\ run \in [Runs -> RunRecord]
  /\ active \in [Nodes -> SUBSET Jobs]
  /\ paused \in [Nodes -> BOOLEAN] /\ brokerPaused \in BOOLEAN
  /\ orphaned \subseteq Jobs /\ shared \subseteq Jobs /\ outlived \subseteq Jobs

WorkersInit ==
  /\ run = [r \in Runs |-> IdleRun]
  /\ active = [n \in Nodes |-> {}]
  /\ paused = [n \in Nodes |-> FALSE] /\ brokerPaused = FALSE
  /\ orphaned = {} /\ shared = {} /\ outlived = {}

Stage(r, pc) == run[r].pc = pc
ToStage(r, pc) == run' = [run EXCEPT ![r].pc = pc]
HeldBy(j) == {r \in Runs : run[r].job = j}
pausing == <<paused, brokerPaused>>

(* pollLoop: claims up to the free places; the lease of a claim in the      *)
(* broker is never read by the batch engine.                                *)
Poll(n) ==
  LET room == Concurrency - Cardinality(active[n])
      ready == {j \in Jobs : queue[j] = "ready"}
      idle == {r \in setting.runs : Stage(r, "idle")}
  IN /\ node[n] = "up" /\ ~paused[n] /\ ~brokerPaused
     /\ \E picked \in (SUBSET ready) \ {{}} :
          /\ Cardinality(picked) <= room /\ Cardinality(picked) <= Cardinality(idle)
          /\ Cardinality(picked) = room \/ picked = ready
          /\ \E slot \in {CHOOSE f \in [picked -> idle] :
                            \A i, j \in picked : f[i] = f[j] => i = j} :
               run' = [r \in Runs |->
                    IF \E j \in picked : slot[j] = r
                    THEN [IdleRun EXCEPT !.pc = "load", !.node = n,
                            !.job = CHOOSE j \in picked : slot[j] = r]
                    ELSE run[r]]
          /\ queue' = [j \in Jobs |-> IF j \in picked THEN "out" ELSE queue[j]]
          /\ active' = [active EXCEPT ![n] = @ \cup picked]
          /\ shared' = shared \cup {j \in picked : HeldBy(j) # {}}
     /\ UNCHANGED <<setting, buffers, bufferLock, jobs, jobLock, bufferVars,
                    pausing, orphaned, outlived>>

(* The promise of executeJob settles: activeJobs.delete(jobId).  A handler  *)
(* that was given up goes on.                                               *)
Settle(r) ==
  /\ run' = [run EXCEPT ![r] = IF run[r].hung THEN [@ EXCEPT !.pc = "zombie"] ELSE IdleRun]
  /\ active' = [active EXCEPT ![run[r].node] = @ \ {run[r].job}]

(* Mutant of Load: the stored status is not looked at.                      *)
LoadAnyStatus(r) ==
  LET j == run[r].job
  IN /\ Stage(r, "load")
     /\ run' = [run EXCEPT ![r].rec = IF Exists(j) THEN jobs[j] ELSE NoRecord,
          ![r].pc = IF Exists(j) THEN "activate" ELSE "ackGone"]
     /\ UNCHANGED <<storeVars, bufferVars, active, pausing, orphaned, shared, outlived>>
Load(r) ==
  LET j == run[r].job
  IN /\ Stage(r, "load")
     /\ run' = [run EXCEPT ![r].rec = IF Exists(j) THEN jobs[j] ELSE NoRecord,
          ![r].pc = IF Exists(j) /\ jobs[j].status \notin Terminal
                    THEN "activate" ELSE "ackGone"]
     /\ UNCHANGED <<storeVars, bufferVars, active, pausing, orphaned, shared, outlived>>
AckGone(r) ==
  /\ Stage(r, "ackGone")
  /\ Enqueue(run[r].job, "out")
  /\ Settle(r)
  /\ UNCHANGED <<setting, buffers, bufferLock, jobs, jobLock, bufferVars,
                 pausing, orphaned, shared, outlived>>

(* The counter stops at one past its last threshold.                        *)
Activate(r) ==
  LET rec == [run[r].rec EXCEPT !.status = "active",
                !.attempt = IF @ > MaxRetries THEN MaxRetries + 2 ELSE @ + 1]
  IN /\ Stage(r, "activate")
     /\ SaveJob(run[r].job, rec)
     /\ run' = [run EXCEPT ![r].rec = rec, ![r].pc = "lease"]
     /\ UNCHANGED <<setting, buffers, bufferLock, queue, jobLock, bufferVars,
                    active, pausing, orphaned, shared, outlived>>

(* heartbeat.start(): the lease lets its owner in again.                    *)
Lease(r) ==
  LET j == run[r].job
      free == jobLock[j] \in {NoNode, run[r].node}
  IN /\ Stage(r, "lease")
     /\ jobLock' = IF free THEN [jobLock EXCEPT ![j] = run[r].node] ELSE jobLock
     /\ ToStage(r, IF free THEN "handler" ELSE "giveBack")
     /\ UNCHANGED <<setting, buffers, bufferLock, jobs, queue, bufferVars,
                    active, pausing, orphaned, shared, outlived>>
GiveBack(r) ==
  LET rec == [run[r].rec EXCEPT !.status = "waiting"]
  IN /\ Stage(r, "giveBack")
     /\ SaveJob(run[r].job, rec)
     /\ run' = [run EXCEPT ![r].rec = rec, ![r].pc = "nackBack"]
     /\ UNCHANGED <<setting, buffers, bufferLock, queue, jobLock, bufferVars,
                    active, pausing, orphaned, shared, outlived>>
NackBack(r) ==
  /\ Stage(r, "nackBack")
  /\ Enqueue(run[r].job, "delayed")
  /\ Settle(r)
  /\ UNCHANGED <<setting, buffers, bufferLock, jobs, jobLock, bufferVars,
                 pausing, orphaned, shared, outlived>>

-----------------------------------------------------------------------------
(* ctx.progress() writes the run's copy of the record, also from a handler  *)
(* that was given up: it sees the object the run has changed since.         *)
Progress(r) ==
  /\ Stage(r, "handler") \/ run[r].hung
  /\ jobs[run[r].job] # run[r].rec
  /\ SaveJob(run[r].job, run[r].rec)
  /\ UNCHANGED <<setting, buffers, bufferLock, queue, jobLock, bufferVars, workerVars>>

HandlerEnds(r) ==
  /\ Stage(r, "handler")
  /\ \E o \in Outcomes \ {"none"} :
       run' = [run EXCEPT ![r].outcome = o, ![r].pc = "release"]
  /\ UNCHANGED <<storeVars, bufferVars, active, pausing, orphaned, shared, outlived>>

(* timeout: the run goes on without its handler.                            *)
HandlerTimesOut(r) ==
  /\ Stage(r, "handler") /\ Spend("hang")
  /\ run' = [run EXCEPT ![r].outcome = "error", ![r].hung = TRUE, ![r].pc = "release"]
  /\ outlived' = outlived \cup {run[r].job}
  /\ UNCHANGED <<buffers, bufferLock, jobs, queue, jobLock, bufferVars,
                 active, pausing, orphaned, shared>>
ZombieEnds(r) ==
  /\ Stage(r, "zombie")
  /\ run' = [run EXCEPT ![r] = IdleRun]
  /\ UNCHANGED <<storeVars, bufferVars, active, pausing, orphaned, shared, outlived>>

(* heartbeat.stop() comes before the outcome is saved.                      *)
ReleaseLease(r) ==
  LET j == run[r].job
  IN /\ Stage(r, "release")
     /\ jobLock' = [jobLock EXCEPT ![j] = IF @ = run[r].node THEN NoNode ELSE @]
     /\ ToStage(r, "save")
     /\ UNCHANGED <<setting, buffers, bufferLock, jobs, queue, bufferVars,
                    active, pausing, orphaned, shared, outlived>>

Retries(r) ==
  /\ run[r].outcome = "error" /\ MaxRetries > 0
  /\ run[r].rec.attempt < MaxRetries + 1
Final(r) == IF run[r].outcome = "ok" THEN "completed"
            ELSE IF Retries(r) THEN "waiting" ELSE "failed"
SaveOutcome(r) ==
  LET rec == [run[r].rec EXCEPT !.status = Final(r)]
  IN /\ Stage(r, "save")
     /\ SaveJob(run[r].job, rec)
     /\ run' = [run EXCEPT ![r].rec = rec, ![r].pc = IF Retries(r) THEN "nack" ELSE "ack"]
     /\ UNCHANGED <<setting, buffers, bufferLock, queue, jobLock, bufferVars,
                    active, pausing, orphaned, shared, outlived>>
NackRetry(r) ==
  /\ Stage(r, "nack")
  /\ Enqueue(run[r].job, "delayed")
  /\ Settle(r)
  /\ UNCHANGED <<setting, buffers, bufferLock, jobs, jobLock, bufferVars,
                 pausing, orphaned, shared, outlived>>
AckOutcome(r) ==
  /\ Stage(r, "ack")
  /\ Enqueue(run[r].job, "out")
  /\ IF setting.remove THEN ToStage(r, "prune") /\ UNCHANGED active ELSE Settle(r)
  /\ UNCHANGED <<setting, buffers, bufferLock, jobs, jobLock, bufferVars,
                 pausing, orphaned, shared, outlived>>

(* pruneAfterCompletion with removeOnComplete/removeOnFail: true.           *)
Prune(r) ==
  LET j == run[r].job
  IN /\ Stage(r, "prune")
     /\ jobs' = [jobs EXCEPT ![j].status = IF Exists(j) THEN "removed" ELSE @]
     /\ Settle(r)
     /\ UNCHANGED <<setting, buffers, bufferLock, queue, jobLock, bufferVars,
                    pausing, orphaned, shared, outlived>>

RunStep(r) ==
  \/ Load(r) \/ AckGone(r) \/ Activate(r) \/ Lease(r) \/ GiveBack(r)
  \/ NackBack(r) \/ HandlerEnds(r) \/ ReleaseLease(r)
  \/ SaveOutcome(r) \/ NackRetry(r) \/ AckOutcome(r) \/ Prune(r) \/ ZombieEnds(r)

-----------------------------------------------------------------------------
(* The broker moves a delayed id to the ready list when its time has come.  *)
DelayOver(j) ==
  /\ queue[j] = "delayed"
  /\ Enqueue(j, "ready")
  /\ UNCHANGED <<setting, buffers, bufferLock, jobs, jobLock, bufferVars, workerVars>>

(* A lease is free again once its process is dead; a live run loses it when *)
(* its renewals fail.  The handler is aborted, which executeJob ignores.    *)
JobLockExpires(j) ==
  /\ jobLock[j] # NoNode
  /\ IF node[jobLock[j]] = "down" THEN UNCHANGED <<setting, shared>>
     ELSE Spend("lapse") /\ shared' = shared \cup {j}
  /\ jobLock' = [jobLock EXCEPT ![j] = NoNode]
  /\ UNCHANGED <<buffers, bufferLock, jobs, queue, bufferVars, run, active,
                 pausing, orphaned, outlived>>

(* pauseBatch and resumeBatch on one process; drainBatch pauses and waits.  *)
Pause(n) ==
  /\ node[n] \in Alive /\ ~paused[n] /\ Spend("pause")
  /\ paused' = [paused EXCEPT ![n] = TRUE] /\ brokerPaused' = TRUE
  /\ UNCHANGED <<buffers, bufferLock, jobs, queue, jobLock, bufferVars, run,
                 active, orphaned, shared, outlived>>
Resume(n) ==
  /\ node[n] \in Alive /\ (paused[n] \/ brokerPaused)
  /\ paused' = [paused EXCEPT ![n] = FALSE] /\ brokerPaused' = FALSE
  /\ UNCHANGED <<storeVars, bufferVars, run, active, orphaned, shared, outlived>>
=============================================================================
