-------------------------------- MODULE Batch --------------------------------
(***************************************************************************)
(* The batch module of a cluster: every process accepts add() and flush()  *)
(* and polls for batch jobs, the process that holds "batch:leader" flushes *)
(* the buffers that are full or old enough, stop() flushes what is left.   *)
(* Processes crash between any two adapter calls.                          *)
(***************************************************************************)
EXTENDS BatchWorkers

VARIABLES
  leaderLock, \* owner of "batch:leader"
  isLeader    \* what each engine believes

vars == <<storeVars, bufferVars, workerVars, leaderLock, isLeader>>

leaderVars == <<leaderLock, isLeader>>

TypeOK ==
  /\ StoreTypeOK /\ BufferTypeOK /\ WorkersTypeOK
  /\ leaderLock \in Nodes \cup {NoNode}
  /\ isLeader \in [Nodes -> BOOLEAN]

Init ==
  /\ StoreInit /\ BufferInit /\ WorkersInit
  /\ leaderLock = NoNode
  /\ isLeader = [n \in Nodes |-> FALSE]

(* acquireLeadership: acquire lets the owner in again, so the renewal after *)
(* it cannot succeed.  After an error of the adapter isLeader keeps its     *)
(* value, as if the timer had not fired.                                    *)
Campaign(n) ==
  LET mine == leaderLock \in {NoNode, n}
  IN /\ node[n] = "up" /\ (isLeader[n] # mine \/ leaderLock = NoNode)
     /\ leaderLock' = IF mine THEN n ELSE leaderLock
     /\ isLeader' = [isLeader EXCEPT ![n] = mine]
     /\ UNCHANGED <<storeVars, bufferVars, workerVars>>

(* Nothing but the TTL takes the lease from its holder.                     *)
LeaderLockExpires ==
  /\ leaderLock # NoNode
  /\ IF node[leaderLock] = "down" THEN UNCHANGED setting ELSE Spend("lapse")
  /\ leaderLock' = NoNode
  /\ UNCHANGED <<buffers, bufferLock, jobs, queue, jobLock, bufferVars,
                 workerVars, isLeader>>

(* init() and start(): leadership is tried before the timers are set.       *)
Start(n) ==
  /\ node[n] = "off" /\ n \in setting.fleet
  /\ node' = [node EXCEPT ![n] = "up"]
  /\ leaderLock' = IF leaderLock = NoNode THEN n ELSE leaderLock
  /\ isLeader' = [isLeader EXCEPT ![n] = leaderLock = NoNode]
  /\ UNCHANGED <<storeVars, gate, call, histories, workerVars>>

(* tickLoop and evaluateBuffers: the copies listed now are flushed later.   *)
Full(b) == Cardinality(b.items) >= MaxSize
Ripe == {g \in Groups : buffers[g] # NoBuffer /\ (Full(buffers[g]) \/ buffers[g].due)}
Tick(n, c) ==
  /\ node[n] = "up" /\ isLeader[n] /\ ~paused[n]
  /\ StartFlushing(n, c, "tick", Ripe)
  /\ UNCHANGED <<storeVars, node, gate, histories, workerVars, leaderVars>>

(* flushBatch(name) and flushBatch(name, groupKey).                         *)
FlushBatch(n, c) ==
  /\ node[n] \in Alive /\ Spend("flush")
  /\ \E groups \in {Groups} \cup {{g} : g \in Groups} :
       StartFlushing(n, c, "admin", NonEmpty(groups))
  /\ UNCHANGED <<buffers, bufferLock, jobs, queue, jobLock, node, gate,
                 histories, workerVars, leaderVars>>

(* stop(): the timers are cleared, all buffers flushed, the runs waited for *)
(* (up to shutdownTimeout), the leadership given up.                        *)
Stop(n, c) ==
  /\ node[n] = "up" /\ Spend("stop")
  /\ IF NonEmpty(Groups) = {}
     THEN node' = [node EXCEPT ![n] = "flushed"] /\ UNCHANGED call
     ELSE /\ node' = [node EXCEPT ![n] = "stopping"]
          /\ StartFlushing(n, c, "stop", NonEmpty(Groups))
  /\ UNCHANGED <<buffers, bufferLock, jobs, queue, jobLock, gate, histories,
                 workerVars, leaderVars>>
Stopped(n) ==
  /\ node[n] = "flushed"
  /\ node' = [node EXCEPT ![n] = "stopped"]
  /\ leaderLock' = IF leaderLock = n THEN NoNode ELSE leaderLock
  /\ UNCHANGED <<storeVars, gate, call, histories, workerVars, isLeader>>

(* The process dies; its leases and what it wrote stay.                     *)
Crash(n) ==
  LET dies(c) == call[c].node = n
      lost == {run[r].job : r \in {x \in Runs : run[x].node = n /\ ~Stage(x, "zombie")}}
  IN /\ node[n] \in Alive /\ Spend("crash")
     /\ node' = [node EXCEPT ![n] = "down"]
     /\ call' = [c \in Calls |-> IF dies(c) THEN IdleCall ELSE call[c]]
     /\ bufferLock' = [g \in Groups |->
          IF bufferLock[g] \in Calls /\ dies(bufferLock[g]) THEN Vanished ELSE bufferLock[g]]
     /\ run' = [r \in Runs |-> IF run[r].node = n THEN IdleRun ELSE run[r]]
     /\ active' = [active EXCEPT ![n] = {}]
     /\ orphaned' = orphaned \cup lost
     /\ UNCHANGED <<buffers, jobs, queue, jobLock, gate, histories, pausing,
                    shared, outlived, leaderVars>>

Timers ==
  \/ \E g \in Groups : MaxWaitPasses(g) \/ BufferLockExpires(g)
  \/ \E n \in Nodes : WindowSlides(n)

CallActions ==
  \/ \E c \in Calls : TakeLock(c) \/ LockTimeout(c) \/ CallStep(c)
  \/ \E c \in Calls, n \in Nodes :
       (\E i \in Items : Add(n, c, i)) \/ (\E g \in Groups : Flush(n, c, g))
  \/ Timers

WorkerActions ==
  \/ \E n \in Nodes : Poll(n) \/ Pause(n) \/ Resume(n)
  \/ \E r \in Runs : RunStep(r) \/ Progress(r) \/ HandlerTimesOut(r)
  \/ \E j \in Jobs : DelayOver(j) \/ JobLockExpires(j)

Next ==
  \/ CallActions /\ UNCHANGED <<workerVars, leaderVars>>
  \/ WorkerActions /\ UNCHANGED leaderVars
  \/ \E n \in Nodes : Campaign(n) \/ Start(n) \/ Stopped(n) \/ Crash(n)
  \/ \E n \in Nodes, c \in Calls : Tick(n, c) \/ FlushBatch(n, c) \/ Stop(n, c)
  \/ LeaderLockExpires

Spec == Init /\ [][Next]_vars

(* setInterval fires again and again, an awaited adapter call is answered,  *)
(* the handler of the user returns, a TTL that nobody renews runs out.  A   *)
(* caller polls for the buffer lock every 25 ms while each holder keeps it  *)
(* for a few adapter calls: it gets its turn.  Nothing makes a client call, *)
(* an operator pause, a crash or a lapse happen.                            *)
Fairness ==
  /\ \A c \in Calls : WF_vars(CallStep(c) /\ UNCHANGED <<workerVars, leaderVars>>)
                      /\ SF_vars(TakeLock(c) /\ UNCHANGED <<workerVars, leaderVars>>)
  /\ \A g \in Groups :
       WF_vars(MaxWaitPasses(g) /\ UNCHANGED <<workerVars, leaderVars>>)
       /\ WF_vars(bufferLock[g] = Vanished /\ BufferLockExpires(g)
                  /\ UNCHANGED <<workerVars, leaderVars>>)
  /\ \A r \in Runs : WF_vars(RunStep(r) /\ UNCHANGED leaderVars)
  /\ \A j \in Jobs :
       WF_vars(DelayOver(j) /\ UNCHANGED leaderVars)
       /\ WF_vars(jobLock[j] # NoNode /\ node[jobLock[j]] = "down"
                  /\ JobLockExpires(j) /\ UNCHANGED leaderVars)
  /\ \A n \in Nodes :
       /\ WF_vars(Campaign(n)) /\ WF_vars(Start(n)) /\ WF_vars(Stopped(n))
       /\ WF_vars(Poll(n) /\ UNCHANGED leaderVars)
       /\ SF_vars(\E c \in Calls : Tick(n, c))
       /\ WF_vars(WindowSlides(n) /\ UNCHANGED <<workerVars, leaderVars>>)
  /\ WF_vars(leaderLock # NoNode /\ node[leaderLock] = "down" /\ LeaderLockExpires)

FairSpec == Spec /\ Fairness

(***************************************************************************)
(* Properties                                                              *)
(***************************************************************************)

(* The items that stand for i: i, or one with its dedup key in its group.   *)
Alike(i) == {k \in Items : Same(i, k) /\ GroupOf[k] = GroupOf[i]}
InBuffer == UNION {buffers[g].items : g \in Groups}
InJobs == UNION {jobs[j].items : j \in Jobs}

(* An item whose add() has returned is in its buffer or in a saved job (or  *)
(* has been filtered out by the hook) in every state, whatever calls        *)
(* interleave and wherever a process dies, as long as no live call lost the *)
(* buffer lock to its TTL ("Zero data loss", batch.mdx).                    *)
NothingLost ==
  \A i \in accepted : \/ Alike(i) \cap (InBuffer \cup InJobs \cup setting.filtered) # {}
                       \/ GroupOf[i] \in lapsed

(* An item is put in two batches only if a flush brought it back from the   *)
(* copy it listed before another flush took the buffer, or from a reserved  *)
(* buffer whose job was already done and removed: the reservation makes the *)
(* recovery of an interrupted flush repeat nothing (recoverMarkedFlush).    *)
FlushedOnce ==
  \A j, k \in Jobs : j # k =>
    \A i \in jobs[j].items \cap jobs[k].items :
      i \in reflushed \/ GroupOf[i] \in lapsed

(* A batch that has completed or failed for good is never opened again,     *)
(* though its id may be published again by a recovery, unless two runs had  *)
(* it at once, its lease was lost or its handler outlived the timeout.      *)
OutcomeStands ==
  [][\A j \in Jobs \ (shared \cup outlived) :
       jobs[j].status \in Terminal => jobs'[j].status \in {jobs[j].status, "removed"}]_vars

(* Every accepted item ends in a batch that has completed or failed, though *)
(* leaders crash and stop, flushes are interrupted, the throttle and the    *)
(* backpressure hold flushes back, unless the process that ran its batch    *)
(* died, a pause is in force or no process is left.                         *)
Done(i) == \/ Alike(i) \cap setting.filtered # {}
           \/ \E j \in Jobs : /\ jobs[j].status \in Terminal \cup {"removed"}
                              /\ Alike(i) \cap jobs[j].items # {}
Stuck(i) == \/ GroupOf[i] \in lapsed
            \/ \E j \in orphaned : setting.maxPending > 0 \/ Alike(i) \cap jobs[j].items # {}
            \/ \E j \in outlived : Alike(i) \cap jobs[j].items # {}
            \/ setting.runs = {} \* this setting leaves the poll loop out
            \/ brokerPaused \/ \E n \in Nodes : paused[n]
            \/ \A n \in setting.fleet : node[n] \notin {"off", "up"}
ItemsAreHandled == \A i \in Items : i \in accepted ~> Done(i) \/ Stuck(i)

(* "no job is ever lost - even if your process is killed mid-execution"     *)
(* (crash-safety.mdx): what a batch job that was created comes to, as long  *)
(* as a process of the fleet is up.                                         *)
JobsSurviveCrashes ==
  \A j \in Jobs : Exists(j) ~> \/ jobs[j].status \in Terminal \cup {"removed"}
                                \/ \A n \in setting.fleet : node[n] \notin {"off", "up"}
=============================================================================
