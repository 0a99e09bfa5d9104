----------------------------- MODULE BatchBuffer -----------------------------
(***************************************************************************)
(* Every access to a buffer: add() and flush() of the batch() handle, and  *)
(* flushBuffer() of BatchEngine for a tick, for flushBatch() and for       *)
(* stop().  Each works under the group's lease lock with an owner of its   *)
(* own.  A flush reserves a job id in the buffer, saves and publishes the  *)
(* job and deletes the buffer; whoever finds a buffer with a reservation   *)
(* finishes or undoes that flush first (recoverMarkedFlush).               *)
(***************************************************************************)
EXTENDS BatchStore

VARIABLES
  node,     \* the process: "off", "up", "stopping", "flushed", "stopped", "down"
  gate,     \* flushes ThrottleGate holds against the window
  call,     \* the call in each slot
  offered,  \* history: items add() was called with
  accepted, \* history: items whose add() has returned
  reflushed, \* history: items brought back although a flush had taken them
  lapsed    \* history: groups whose lock expired under a live call

bufferVars == <<node, gate, call, offered, accepted, reflushed, lapsed>>

Alive == {"up", "stopping", "flushed", "stopped"}
EngineKinds == {"tick", "admin", "stop"}
CallPcs == {"lock", "read", "lookup", "republish", "drop", "unmark",
            "countWaiting", "countActive", "mark", "clear", "write", "saveJob", "publish", "delete", "unlock"}
Listing == [Groups -> Buffer]
NoListing == [g \in Groups |-> NoBuffer]
IdleCall == [pc |-> "idle", kind |-> "none", node |-> NoNode, item |-> NoItem,
             group |-> "none", listed |-> NoListing, buf |-> NoBuffer,
             job |-> NoJob, waiting |-> 0]
CallRecord ==
  [pc : CallPcs, kind : {"add", "flush"} \cup EngineKinds, node : Nodes,
   item : Items \cup {NoItem}, group : Groups, listed : Listing, buf : Buffer,
   job : Jobs \cup {NoJob}, waiting : 0 .. Cardinality(Jobs)] \cup {IdleCall}

BufferTypeOK ==
  /\ node \in [Nodes -> {"off", "down"} \cup Alive]
  /\ gate \in [Nodes -> 0 .. Cardinality(Jobs)]
  /\ call \in [Calls -> CallRecord]
  /\ accepted \subseteq offered /\ offered \subseteq Items /\ reflushed \subseteq Items
  /\ lapsed \subseteq Groups

BufferInit ==
  /\ node = [n \in Nodes |-> "off"]
  /\ gate = [n \in Nodes |-> 0]
  /\ call = [c \in Calls |-> IdleCall]
  /\ offered = {} /\ accepted = {} /\ reflushed = {} /\ lapsed = {}

histories == <<offered, accepted, reflushed, lapsed>>
Go(c, pc) == call' = [call EXCEPT ![c].pc = pc]
At(c, pc) == call[c].pc = pc
(* Slots and ids are only names: the one that is taken does not matter.     *)
IdleCalls == {c \in setting.calls : At(c, "idle")}
Free(c) == IdleCalls # {} /\ c = CHOOSE d \in IdleCalls : TRUE
Engine(c) == call[c].kind \in EngineKinds

Opened(kind, n, g) ==
  [IdleCall EXCEPT !.pc = "lock", !.kind = kind, !.node = n, !.group = g]

(* add(): resolveGroupKey, then withBufferLock.  An item is added once.     *)
Add(n, c, i) ==
  /\ node[n] \in Alive /\ Free(c)
  /\ i \in setting.items \ offered /\ offered' = offered \cup {i}
  /\ call' = [call EXCEPT ![c] = [Opened("add", n, GroupOf[i]) EXCEPT !.item = i]]
  /\ UNCHANGED <<storeVars, node, gate, accepted, reflushed, lapsed>>

(* flush(groupKey) of the handle.                                           *)
Flush(n, c, g) ==
  /\ node[n] \in Alive /\ Free(c) /\ Spend("flush")
  /\ call' = [call EXCEPT ![c] = Opened("flush", n, g)]
  /\ UNCHANGED <<buffers, bufferLock, jobs, queue, jobLock, node, gate, histories>>

(* The engine lists buffers and flushes them one after the other, each from *)
(* the copy it listed.                                                      *)
Listed(groups) == [g \in Groups |-> IF g \in groups THEN buffers[g] ELSE NoBuffer]
StartFlushing(n, c, kind, groups) ==
  /\ Free(c)
  /\ \E g \in groups :
       call' = [call EXCEPT ![c] =
                  [Opened(kind, n, g) EXCEPT !.listed = Listed(groups)]]
NonEmpty(groups) == {g \in groups : buffers[g] # NoBuffer}

-----------------------------------------------------------------------------
(* withBufferLock                                                           *)
TakeLock(c) ==
  LET g == call[c].group
  IN /\ At(c, "lock") /\ bufferLock[g] = NoCall
     /\ bufferLock' = [bufferLock EXCEPT ![g] = c]
     /\ Go(c, "read")
     /\ UNCHANGED <<setting, buffers, jobs, queue, jobLock, node, gate, histories>>

(* A call that is done with its group; an engine call goes on with the next *)
(* group it listed.                                                         *)
Proceed(c) ==
  LET rest == [call[c].listed EXCEPT ![call[c].group] = NoBuffer]
  IN IF rest = NoListing THEN call' = [call EXCEPT ![c] = IdleCall]
     ELSE \E g \in Groups :
            /\ rest[g] # NoBuffer
            /\ call' = [call EXCEPT ![c] =
                 [Opened(call[c].kind, call[c].node, g) EXCEPT !.listed = rest]]

(* stop() goes on to drain once its flushes are over.                       *)
Stopping(c) ==
  node' = IF call[c].kind = "stop" /\ call'[c] = IdleCall
          THEN [node EXCEPT ![call[c].node] = "flushed"] ELSE node

(* The deadline of the polling loop: the call throws; a tick, flushBatch()  *)
(* or stop() leaves its other groups alone.                                 *)
LockTimeout(c) ==
  /\ At(c, "lock") /\ bufferLock[call[c].group] # NoCall /\ Spend("timeout")
  /\ call' = [call EXCEPT ![c] = IdleCall]
  /\ Stopping(c)
  /\ UNCHANGED <<buffers, bufferLock, jobs, queue, jobLock, gate, histories>>

Unlock(c) ==
  LET g == call[c].group
  IN /\ At(c, "unlock")
     /\ bufferLock' = [bufferLock EXCEPT ![g] = IF @ = c THEN NoCall ELSE @]
     /\ Proceed(c)
     /\ Stopping(c)
     /\ accepted' = IF call[c].kind = "add" THEN accepted \cup {call[c].item} ELSE accepted
     /\ UNCHANGED <<setting, buffers, jobs, queue, jobLock, gate, offered, reflushed, lapsed>>

-----------------------------------------------------------------------------
(* The throttle gate and the backpressure come before the hook, and only for the     *)
(* engine; the hook may leave nothing to flush.                             *)
AfterHook(b) == IF b.items \subseteq setting.filtered THEN "clear" ELSE "mark"
Throttled(n) == setting.throttle > 0 /\ gate[n] >= setting.throttle
FlushNext(c, b) ==
  CASE ~Engine(c) -> AfterHook(b)
    [] Engine(c) /\ Throttled(call[c].node) -> "unlock"
    [] Engine(c) /\ ~Throttled(call[c].node) /\ setting.maxPending > 0 -> "countWaiting"
    [] OTHER -> AfterHook(b)

(* The dedup check of addToBuffer.                                          *)
Same(i, k) == i = k \/ (setting.dedup /\ DedupKey[i] = DedupKey[k])
AddNext(c, b) ==
  IF \E i \in b.items : Same(i, call[c].item)
  THEN "unlock" ELSE "write"
Carry(c, b) == IF call[c].kind = "add" THEN AddNext(c, b) ELSE FlushNext(c, b)

(* The buffer a call works on: flushBuffer falls back on its listed copy    *)
(* when the buffer is gone, add() starts a new one, flush() has nothing to  *)
(* do.                                                                      *)
Found(c) ==
  LET stored == buffers[call[c].group]
  IN IF stored = NoBuffer /\ Engine(c) THEN call[c].listed[call[c].group] ELSE stored

ReadBuffer(c) ==
  LET b == Found(c)
  IN /\ At(c, "read")
     /\ call' = [call EXCEPT ![c].buf = b,
          ![c].pc = IF b.job # NoJob THEN "lookup"
                    ELSE IF b = NoBuffer /\ call[c].kind = "flush" THEN "unlock"
                    ELSE Carry(c, b)]
     /\ reflushed' = IF buffers[call[c].group] = NoBuffer
                     THEN reflushed \cup b.items ELSE reflushed
     /\ UNCHANGED <<storeVars, node, gate, offered, accepted, lapsed>>

(* Mutant of Lookup: a reserved buffer goes whether its job exists or not.  *)
LookupAlwaysDrops(c) ==
  LET j == call[c].buf.job
  IN /\ At(c, "lookup")
     /\ Go(c, IF jobs[j].status \in Terminal \/ ~Exists(j) THEN "drop" ELSE "republish")
     /\ UNCHANGED <<storeVars, node, gate, histories>>

(* recoverMarkedFlush                                                       *)
Lookup(c) ==
  LET j == call[c].buf.job
  IN /\ At(c, "lookup")
     /\ Go(c, IF ~Exists(j) THEN "unmark"
              ELSE IF jobs[j].status \in Terminal THEN "drop" ELSE "republish")
     /\ UNCHANGED <<storeVars, node, gate, histories>>

(* Mutant of Republish: a saved job is taken for a published one.           *)
RepublishSkipped(c) ==
  /\ At(c, "republish")
  /\ Go(c, "drop")
  /\ UNCHANGED <<storeVars, node, gate, histories>>
Republish(c) ==
  LET j == call[c].buf.job
  IN /\ At(c, "republish")
     /\ Enqueue(j, "ready")
     /\ Go(c, "drop")
     /\ UNCHANGED <<setting, buffers, bufferLock, jobs, jobLock, node, gate, histories>>

(* The buffer of a flush that did happen goes; add() starts a new one.      *)
Drop(c) ==
  /\ At(c, "drop")
  /\ SaveBuffer(call[c].group, NoBuffer)
  /\ call' = [call EXCEPT ![c].buf = NoBuffer,
               ![c].pc = IF call[c].kind = "add" THEN "write" ELSE "unlock"]
  /\ UNCHANGED <<setting, bufferLock, jobs, queue, jobLock, node, gate, histories>>

(* No job under the reserved id, because it was never saved or because      *)
(* retention removed it: the reservation is undone.                         *)
Unmark(c) ==
  LET b == [call[c].buf EXCEPT !.job = NoJob]
  IN /\ At(c, "unmark")
     /\ SaveBuffer(call[c].group, b)
     /\ call' = [call EXCEPT ![c].buf = b, ![c].pc = Carry(c, b)]
     /\ reflushed' = IF jobs[call[c].buf.job].status # "absent"
                     THEN reflushed \cup b.items ELSE reflushed
     /\ UNCHANGED <<setting, bufferLock, jobs, queue, jobLock, node, gate, offered, accepted, lapsed>>

-----------------------------------------------------------------------------
(* addToBuffer: the item joins the buffer that was read.                    *)
Write(c) ==
  /\ At(c, "write")
  /\ SaveBuffer(call[c].group,
                [call[c].buf EXCEPT !.items = @ \cup {call[c].item}])
  /\ Go(c, "unlock")
  /\ UNCHANGED <<setting, bufferLock, jobs, queue, jobLock, node, gate, histories>>

(* maxPendingBatches: two counts of the "jobs" namespace, one after the     *)
(* other.                                                                   *)
Counted(status) == Cardinality({j \in Jobs : jobs[j].status = status})
CountWaiting(c) ==
  /\ At(c, "countWaiting")
  /\ call' = [call EXCEPT ![c].waiting = Counted("waiting"), ![c].pc = "countActive"]
  /\ UNCHANGED <<storeVars, node, gate, histories>>
CountActive(c) ==
  /\ At(c, "countActive")
  /\ Go(c, IF call[c].waiting + Counted("active") >= setting.maxPending
            THEN "unlock" ELSE AfterHook(call[c].buf))
  /\ UNCHANGED <<storeVars, node, gate, histories>>

(* The hook filtered everything.                                            *)
Clear(c) ==
  /\ At(c, "clear")
  /\ SaveBuffer(call[c].group, NoBuffer)
  /\ Go(c, "unlock")
  /\ UNCHANGED <<setting, bufferLock, jobs, queue, jobLock, node, gate, histories>>

(* flushJobId: a fresh id, one that is in no store and in no call.          *)
Unused ==
  {j \in Jobs :
     /\ jobs[j] = NoRecord
     /\ \A g \in Groups : buffers[g].job # j
     /\ \A c \in Calls : /\ j \notin {call[c].job, call[c].buf.job}
                         /\ \A g \in Groups : call[c].listed[g].job # j}
(* Mutant of Mark: the reservation is not written before the job is saved.  *)
MarkInMemoryOnly(c) ==
  LET j == CHOOSE fresh \in Unused : TRUE
  IN /\ At(c, "mark") /\ Unused # {}
     /\ call' = [call EXCEPT ![c].job = j, ![c].pc = "saveJob"]
     /\ UNCHANGED <<storeVars, node, gate, histories>>
Mark(c) ==
  LET j == CHOOSE fresh \in Unused : TRUE
  IN /\ At(c, "mark") /\ Unused # {}
     /\ SaveBuffer(call[c].group, [call[c].buf EXCEPT !.job = j])
     /\ call' = [call EXCEPT ![c].job = j, ![c].pc = "saveJob"]
     /\ UNCHANGED <<setting, bufferLock, jobs, queue, jobLock, node, gate, histories>>

(* createBatchJob                                                           *)
CreateJob(c) ==
  /\ At(c, "saveJob")
  /\ SaveJob(call[c].job, [status |-> "waiting", attempt |-> 0,
                           items |-> call[c].buf.items \ setting.filtered])
  /\ Go(c, "publish")
  /\ UNCHANGED <<setting, buffers, bufferLock, queue, jobLock, node, gate, histories>>

PublishJob(c) ==
  LET n == call[c].node
  IN /\ At(c, "publish")
     /\ Enqueue(call[c].job, "ready")
     /\ gate' = IF Engine(c) /\ setting.throttle > 0
                THEN [gate EXCEPT ![n] = @ + 1] ELSE gate
     /\ Go(c, "delete")
     /\ UNCHANGED <<setting, buffers, bufferLock, jobs, jobLock, node, histories>>

DeleteBuffer(c) ==
  /\ At(c, "delete")
  /\ SaveBuffer(call[c].group, NoBuffer)
  /\ Go(c, "unlock")
  /\ UNCHANGED <<setting, bufferLock, jobs, queue, jobLock, node, gate, histories>>

CallStep(c) ==
  \/ ReadBuffer(c) \/ Lookup(c) \/ Republish(c) \/ Drop(c) \/ Unmark(c)
  \/ Write(c) \/ CountWaiting(c) \/ CountActive(c) \/ Clear(c) \/ Mark(c)
  \/ CreateJob(c) \/ PublishJob(c) \/ DeleteBuffer(c) \/ Unlock(c)

-----------------------------------------------------------------------------
(* maxWaitMs passes; the throttle window slides past a flush.               *)
MaxWaitPasses(g) ==
  /\ buffers[g] # NoBuffer /\ ~buffers[g].due
  /\ SaveBuffer(g, [buffers[g] EXCEPT !.due = TRUE])
  /\ UNCHANGED <<setting, bufferLock, jobs, queue, jobLock, node, gate, call, histories>>
(* Mutant of WindowSlides: a dispatch leaves the window that is not in it.  *)
WindowSlidesTooFar(n) ==
  /\ gate' = [gate EXCEPT ![n] = @ - 1]
  /\ UNCHANGED <<storeVars, node, call, histories>>
WindowSlides(n) ==
  /\ gate[n] > 0
  /\ gate' = [gate EXCEPT ![n] = @ - 1]
  /\ UNCHANGED <<storeVars, node, call, histories>>

(* A lease outlives a vanished owner by its TTL; a live owner loses it when *)
(* its critical section takes longer than the TTL (nothing renews it).      *)
BufferLockExpires(g) ==
  /\ bufferLock[g] # NoCall
  /\ IF bufferLock[g] = Vanished THEN UNCHANGED <<setting, lapsed>>
     ELSE Spend("lapse") /\ lapsed' = lapsed \cup {g}
  /\ bufferLock' = [bufferLock EXCEPT ![g] = NoCall]
  /\ UNCHANGED <<buffers, jobs, queue, jobLock, node, gate, call, offered, accepted, reflushed>>
=============================================================================
