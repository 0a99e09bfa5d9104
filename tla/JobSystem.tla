------------------------------ MODULE JobSystem ------------------------------
(***************************************************************************)
(* The job engine as a whole: clients adding jobs, engine instances that   *)
(* start, drain, stop and crash, leases that run out, the executor and the *)
(* recovery actors, interleaved at every adapter call.                     *)
(***************************************************************************)
EXTENDS JobRecovery

CONSTANTS
  DelayedJobs,  \* jobs added with opts.delay
  Mortal,       \* instances that may crash
  Stopping,     \* instances that may be told to stop
  MaxCrashes,   \* processes that die with work in progress (a bound)
  MaxLapses     \* leases that run out under a live holder (a bound)

ASSUME SystemAssumption ==
  /\ DelayedJobs \subseteq Jobs /\ Mortal \subseteq Nodes /\ Stopping \subseteq Nodes
  /\ MaxCrashes \in Nat /\ MaxLapses \in Nat

VARIABLES crashes, lapses

vars == <<storeVars, node, execVars, faults, recoveryVars, client, crashes, lapses>>

TypeOK ==
  /\ StoreTypeOK /\ ExecTypeOK /\ RecoveryTypeOK
  /\ crashes \in 0 .. MaxCrashes /\ lapses \in 0 .. MaxLapses

Init ==
  /\ StoreInit /\ ExecInit /\ RecoveryInit
  /\ crashes = 0 /\ lapses = 0

-----------------------------------------------------------------------------
(* queue.add: save the record, then publish the id.                         *)
AddStatus(j) == IF j \in DelayedJobs THEN "delayed" ELSE "waiting"

AddSave(j) ==
  /\ client[j] = "new"
  /\ Save(j, NewRecord(AddStatus(j)))
  /\ client' = [client EXCEPT ![j] = "saved"]
  /\ UNCHANGED <<place, lock, node, execVars, faults, recoveryVars, crashes, lapses>>

AddPublish(j) ==
  /\ client[j] = "saved"
  /\ Publish(j, IF j \in DelayedJobs THEN "delayed" ELSE "ready")
  /\ client' = [client EXCEPT ![j] = "added"]
  /\ UNCHANGED <<store, lock, node, execVars, faults, recoveryVars, crashes, lapses>>

ClientCrash(j) ==
  /\ client[j] = "saved" /\ crashes < MaxCrashes
  /\ client' = [client EXCEPT ![j] = "crashed"]
  /\ crashes' = crashes + 1
  /\ UNCHANGED <<storeVars, node, execVars, faults, recoveryVars, lapses>>

-----------------------------------------------------------------------------
(* Processes.  A dead one loses everything it held in memory; its leases    *)
(* and the ids it claimed stay as they are.                                 *)
RunsOf(n) == {r \in Runs : run[r].node = n}

Vanish(n) ==
  /\ run' = [r \in Runs |-> IF run[r].node = n THEN FreeRun ELSE run[r]]
  /\ hbOf' = [hbOf EXCEPT ![n] = [j \in Jobs |-> NoRun]]
  /\ acOf' = [acOf EXCEPT ![n] = [j \in Jobs |-> NoRun]]
  /\ slots' = [slots EXCEPT ![n] = {}]
  /\ stall' = [stall EXCEPT ![n] = IdleActor]
  /\ scan' = [scan EXCEPT ![n] = IdleActor]
  /\ recon' = [recon EXCEPT ![n] = IdleActor]
  /\ canc' = [canc EXCEPT ![n] = IdleActor]

Start(n) ==
  /\ node[n] = "off"
  /\ node' = [node EXCEPT ![n] = "up"]
  /\ UNCHANGED <<storeVars, execVars, faults, recoveryVars, client, crashes, lapses>>

Crash(n) ==
  /\ n \in Mortal /\ Alive(n) /\ crashes < MaxCrashes
  /\ crashes' = crashes + 1
  /\ node' = [node EXCEPT ![n] = "down"]
  /\ Vanish(n)
  /\ UNCHANGED <<storeVars, faults, cancels, client, lapses>>

(* engine.stop(): every registered controller aborts, then it waits.        *)
StopBegin(n) ==
  /\ n \in Stopping /\ node[n] = "up"
  /\ node' = [node EXCEPT ![n] = "stopping"]
  /\ run' = [r \in Runs |->
       IF \E j \in Jobs : acOf[n][j] = r THEN [run[r] EXCEPT !.aborted = TRUE] ELSE run[r]]
  /\ acOf' = [acOf EXCEPT ![n] = [j \in Jobs |-> NoRun]]
  /\ UNCHANGED <<storeVars, hbOf, slots, faults, recoveryVars, client, crashes, lapses>>

ActorsIdle(n) ==
  \A a \in {stall[n], scan[n], recon[n], canc[n]} : a.pc = "idle"

Drained(n) == ActorsIdle(n) /\ \A r \in RunsOf(n) : At(r, "leaked")

(* The last thing stop() does: the registered leases go, then the process.  *)
Exit(n) ==
  /\ node[n] = "stopping"
  /\ node' = [node EXCEPT ![n] = "down"]
  /\ lock' = [k \in Kinds \X Jobs |->
       IF lock[k] = n /\ k[1] = Kind[n] /\ hbOf[n][k[2]] # NoRun THEN NoNode ELSE lock[k]]
  /\ Vanish(n)
  /\ UNCHANGED <<store, place, faults, cancels, client, lapses>>

StopDrained(n) == Drained(n) /\ Exit(n) /\ UNCHANGED crashes

(* shutdownTimeout has passed, or what is under way is nothing stop() waits *)
(* for: a claim being fetched, a handler given up, a recovery actor.        *)
StopTimedOut(n) ==
  /\ ~Drained(n) /\ crashes < MaxCrashes
  /\ Exit(n)
  /\ crashes' = crashes + 1

-----------------------------------------------------------------------------
(* A lease runs out when nobody renews it, or although its holder does, for *)
(* a stalled event loop or a partition.                                     *)
Renewed(k) ==
  \E r \in Runs : run[r].hb /\ run[r].job = k[2] /\ run[r].node = lock[k]
                  /\ Kind[run[r].node] = k[1]

LeaseExpires(k) ==
  /\ lock[k] # NoNode /\ ~Renewed(k)
  /\ lock' = [lock EXCEPT ![k] = NoNode]
  /\ UNCHANGED <<store, place, node, execVars, faults, recoveryVars, client, crashes, lapses>>

LeaseLapses(k) ==
  /\ lock[k] # NoNode /\ Renewed(k) /\ lapses < MaxLapses
  /\ lapses' = lapses + 1
  /\ lock' = [lock EXCEPT ![k] = NoNode]
  /\ UNCHANGED <<store, place, node, execVars, faults, recoveryVars, client, crashes>>

-----------------------------------------------------------------------------
Calm == UNCHANGED <<crashes, lapses>>
Idle == UNCHANGED <<client, recoveryVars>> /\ Calm

ClientNext == \E j \in Jobs : AddSave(j) \/ AddPublish(j) \/ ClientCrash(j)

ExecutorNext ==
  /\ \/ \E n \in Nodes, j \in Jobs, r \in Runs : Claim(n, j, r)
     \/ \E r \in Runs : ExecutorStep(r) \/ HandlerTimesOut(r) \/ Progress(r)
                        \/ ActivateFails(r) \/ SettleFails(r)
  /\ Idle

DetectorNext ==
  /\ \E n \in Nodes : DetectorStep(n) \/ \E j \in Jobs : StallList(n, j)
  /\ Calm

ScannerNext ==
  /\ \E n \in Nodes : ScannerStep(n) \/ \E j \in Jobs : ScanList(n, j)
  /\ Calm

ReconcilerNext ==
  /\ \E n \in Nodes : \/ ReconcilerStep(n)
                      \/ \E j \in Jobs : ReconWaiting(n, j) \/ ReconDelayed(n, j)
                                         \/ ReconStalled(n, j)
  /\ Calm

CancelNext ==
  /\ \E n \in Nodes : CancelStep(n) \/ \E j \in Jobs : CancelRead(n, j)
  /\ Calm

ProcessNext ==
  \/ \E n \in Nodes : Start(n) \/ Crash(n) \/ StopBegin(n) \/ StopDrained(n) \/ StopTimedOut(n)
  \/ \E k \in Kinds \X Jobs : LeaseExpires(k) \/ LeaseLapses(k)

Next ==
  \/ ClientNext \/ ExecutorNext \/ DetectorNext \/ ScannerNext
  \/ ReconcilerNext \/ CancelNext \/ ProcessNext

Spec == Init /\ [][Next]_vars

(* Every live instance keeps polling and its timers keep firing; handlers   *)
(* return; a promise that was started is run to its end; leases of the dead *)
(* run out.  Nothing is assumed of crashes, lapses, cancellations or stops. *)
Fairness ==
  /\ \A j \in Jobs : WF_vars(AddPublish(j))
  /\ \A n \in Nodes : WF_vars(Start(n)) /\ WF_vars(DetectorStep(n) /\ Calm)
  /\ \A n \in Nodes, j \in Jobs :
       SF_vars((\E r \in Runs : Claim(n, j, r)) /\ Idle) /\ WF_vars(StallList(n, j) /\ Calm)
  /\ \A r \in Runs : WF_vars(ExecutorStep(r) /\ Idle)
  /\ \A n \in Scanners : /\ WF_vars(ScannerStep(n) /\ Calm)
                          /\ \A j \in Jobs : SF_vars(ScanList(n, j) /\ Calm)
  /\ \A n \in Reconcilers :
       /\ WF_vars(ReconcilerStep(n) /\ Calm)
       /\ \A j \in Jobs :
            SF_vars((ReconWaiting(n, j) \/ ReconDelayed(n, j) \/ ReconStalled(n, j)) /\ Calm)
  /\ \A k \in {Kind[n] : n \in Nodes} \X Jobs : WF_vars(LeaseExpires(k))

FairSpec == Spec /\ Fairness

-----------------------------------------------------------------------------
(* Safety.                                                                  *)

(* What an instance has registered for a job is an activation of that job,   *)
(* of this process, that can still be aborted and still beats: stop(), the  *)
(* stall handler and a cancellation never act on one that has moved on.     *)
Abortable == {"activate", "gate", "running", "nackStop", "leaked"}
Beating == Abortable \cup {"finStop"}

RegistrationsLive ==
  \A n \in Nodes, j \in Jobs, r \in Runs :
    /\ acOf[n][j] = r => run[r].node = n /\ run[r].job = j /\ run[r].pc \in Abortable
    /\ hbOf[n][j] = r => /\ run[r].node = n /\ run[r].job = j /\ run[r].pc \in Beating
                         /\ j \in Guaranteed

(* The activations that have taken the id of j and not given it back.       *)
InHand(j) == {r \in Runs : run[r].job = j /\ run[r].pc \notin {"free", "leaked"}}

(* Among instances that only run the executor, an id is held once: by the   *)
(* broker or by a single activation, never by two, whatever lease lapses,   *)
(* cancellation, shutdown, crash or failed save happens in between.  (Every *)
(* nack, ack and settle of executeJob.)                                     *)
SingleCustody ==
  \A j \in Jobs :
    /\ \A r, s \in InHand(j) : r = s
    /\ InHand(j) # {} => place[j] = "out"
    /\ client[j] # "added" => InHand(j) = {} /\ place[j] = "out"

(* As long as no process dies, no storage call throws and nothing is       *)
(* cancelled, a job that has been added and has not ended is in somebody's  *)
(* hands: a lapsed lease or a shutdown does not mislay it.                  *)
NoJobMislaid ==
  crashes = 0 /\ faults = 0 /\ cancels = 0 =>
    \A j \in Jobs :
      client[j] = "added" /\ store[j].status \notin Terminal \cup {"absent"}
        => place[j] # "out" \/ InHand(j) # {}

(* The engine implements the abstract life of a job, seen through who has   *)
(* the id: the poll's claim, every nack, ack and settle of executeJob, and  *)
(* a dying process.                                                         *)
Phase ==
  [j \in Jobs |-> CASE client[j] # "added" -> "new"
                    [] InHand(j) # {} -> "held"
                    [] InHand(j) = {} /\ place[j] # "out" -> "queued"
                    [] OTHER -> IF store[j].status \in Terminal \cup {"absent"}
                                THEN "settled" ELSE "lost"]

Lifecycle ==
  INSTANCE JobLifecycle WITH
    Outcomes <- Terminal, Undecided <- "none", phase <- Phase,
    outcome <- [j \in Jobs |-> IF store[j].status \in Terminal THEN store[j].status ELSE "none"]

ImplementsLifecycle == Lifecycle!LifecycleSpec

(* Unless a cancellation is under way a job that has ended stays as it      *)
(* ended, or is pruned: nobody runs it again or writes an older copy back.  *)
OutcomeIsFinal ==
  [][cancels' = 0 => \A j \in Jobs :
       store[j].status \in Terminal => store'[j] \in {store[j], NoRecord}]_vars

(* retries.max: the attempts of a job never exceed the budget, however its  *)
(* retries interleave with refused gates, shutdowns and lost leases.        *)
RetryBudget ==
  cancels = 0 => \A j \in Jobs : store[j].attempt <= MaxRetries + 1

(* Every heartbeat timer that still renews is the one registered for its    *)
(* job, so the stall detector sees it and engine.stop() can stop it.        *)
HeartbeatsRegistered ==
  cancels = 0 =>
    \A r \in Runs : run[r].hb => hbOf[run[r].node][run[r].job] = r

(* A handler that has not been told to abort still renews its lease: no     *)
(* interleaving of a lost lease, a stall, a stop and a cancellation stops   *)
(* the heartbeat and leaves the handler running unaware.                    *)
UnawareHandlersBeat ==
  \A r \in Runs :
    run[r].pc = "running" /\ run[r].job \in Guaranteed /\ ~run[r].aborted => run[r].hb

(* Heartbeats keep their side of the lease: known to the detector while     *)
(* they renew, and renewing while the handler is unaware of any trouble.    *)
HandlersBeat == HeartbeatsRegistered /\ UnawareHandlersBeat

Handlers(n) == {r \in Runs : run[r].node = n /\ run[r].pc \in {"gate", "running"}}

(* "Concurrency is per-queue, per-process": no instance runs more handlers  *)
(* than its slots.  (The poll's free-slot count against the slots the       *)
(* executor, the stall handler and a cancellation give back.)               *)
WithinConcurrency == \A n \in Nodes : Cardinality(Handlers(n)) <= Concurrency

(* "Cancellation finality": a job marked cancelled stays cancelled.         *)
CancelledIsFinal ==
  [][\A j \in Jobs : store[j].status = "cancelled" => store'[j].status = "cancelled"]_vars

-----------------------------------------------------------------------------
(* Liveness.                                                                *)

(* "no job is ever lost, even if your process is killed mid-execution":     *)
(* whatever was added ends, or is pruned, and again should a copy revive it. *)
EveryJobEnds ==
  \A j \in Jobs : client[j] = "added" ~> store[j].status \in Terminal \cup {"absent"}
=============================================================================
