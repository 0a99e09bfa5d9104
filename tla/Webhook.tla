------------------------------- MODULE Webhook -------------------------------
(***************************************************************************)
(* WebhookEngine and its circuit breaker: firing a delivery, polling, the  *)
(* stages of processJob, retries, pause and resume, cancellation, stop,    *)
(* the stall detector and the cross-node scanner.  One dispatcher with one *)
(* endpoint.  The broker and the lock are the in-process and Redis ones: a *)
(* claim that runs out takes the id with it, unless "reclaims" says that   *)
(* the Postgres broker hands it out again.                                 *)
(***************************************************************************)
EXTENDS Naturals, FiniteSets

CONSTANTS
  Nodes,            \* processes
  Jobs,             \* deliveries, one per fire() or resend
  Runs,             \* executions of processJob under way at once (a bound)
  MaxRetries,       \* retries.max
  FailureThreshold, \* failureThreshold of the circuit breaker
  HalfOpenMax,      \* halfOpenMaxAttempts
  Settings          \* configurations, calls offered and faults to explore

NoNode == "no node"
NoJob == "no job"
NoRun == "no run"
Offers == {"fire", "pause", "resume", "disable", "cancel", "resend"}
Faults == {"retry", "reject", "error", "refuse", "lapse", "crash", "stop"}

Assumption ==
  /\ NoNode \notin Nodes /\ NoJob \notin Jobs /\ NoRun \notin Runs
  /\ MaxRetries \in Nat /\ {FailureThreshold, HalfOpenMax} \subseteq Nat \ {0}
  /\ Settings \subseteq
       [fleet : SUBSET Nodes,
        concurrency : Nat \ {0},
        shared : BOOLEAN,   \* SharedCircuitBreaker; one breaker per process otherwise
        reclaims : BOOLEAN, \* the Postgres broker
        offers : [Offers -> Nat], budget : [Faults -> Nat]]

VARIABLES
  setting,     \* the member of Settings in force, budgets counting down
  job,         \* the records of "jobs"
  ready,       \* ids the broker hands out, now or after their delay
  claim,       \* the broker's lock of each id
  lease,       \* owner of "webhook:job:<id>"
  engine,      \* each WebhookEngine: its maps of runs by job, and whether it runs
  run,         \* executions of processJob
  stall,       \* each process' StallDetector callback
  resumer,     \* the resumeDispatcher() under way
  canceller,   \* the cancelActiveJob() under way
  client,      \* fire() per delivery
  enabled,     \* "webhook_instances": enabled
  open,        \* "webhook_endpoints": the endpoint is enabled
  circuit,     \* CircuitEntry of the endpoint, per breaker
  sent,        \* history: requests sent per delivery
  failedInRow, \* history: deliveries of each breaker that failed since one succeeded
  probing,     \* history: runs let through by a half-open circuit, undecided
  recoveries,  \* history: processes that died with a delivery
  taken        \* history: deliveries a stall handler or a cancellation took from their run

vars == <<setting, job, ready, claim, lease, engine, run, stall, resumer, canceller,
          client, enabled, open, circuit, sent, failedInRow, probing, recoveries, taken>>

Statuses == {"none", "waiting", "paused", "delayed", "active", "stalled", "completed", "failed"}
AttemptCap == MaxRetries + 2  \* attempts are only compared with MaxRetries
Record == [status : Statuses, attempts : 0 .. AttemptCap]
NoRecord == [status |-> "none", attempts |-> 0]
NoCircuit == [state |-> "CLOSED", failures |-> 0, probes |-> 0, cooled |-> FALSE]
Stages == {"idle", "claimed", "lease", "load", "begin", "gate", "circuit", "send", "answer",
           "record", "blame", "save", "finish", "settle"}
IdleRun == [pc |-> "idle", node |-> NoNode, job |-> NoJob, copy |-> NoRecord, aborted |-> FALSE,
            beating |-> FALSE, answer |-> "none", settle |-> "none"]
Up == [state |-> "up", paused |-> FALSE, hb |-> [j \in Jobs |-> NoRun],
       ac |-> [j \in Jobs |-> NoRun], active |-> {}]
IdleActor == [pc |-> "idle", node |-> NoNode, job |-> NoJob, copy |-> NoRecord]

TypeOK ==
  /\ job \in [Jobs -> Record] /\ ready \subseteq Jobs
  /\ claim \in [Jobs -> Nodes \cup {NoNode}] /\ lease \in [Jobs -> Nodes \cup {NoNode}]
  /\ \A n \in Nodes :
       /\ engine[n].state \in {"up", "stopping", "down"} /\ engine[n].active \subseteq Jobs
       /\ engine[n].hb \in [Jobs -> Runs \cup {NoRun}] /\ engine[n].ac \in [Jobs -> Runs \cup {NoRun}]
       /\ stall[n].job \in Jobs \cup {NoJob}
       /\ circuit[n].state \in {"CLOSED", "OPEN", "HALF_OPEN"}
       /\ circuit[n].failures \in 0 .. FailureThreshold /\ circuit[n].probes \in 0 .. HalfOpenMax
  /\ \A r \in Runs : /\ run[r].pc \in Stages /\ run[r].copy \in Record
                     /\ run[r].pc # "idle" => run[r].job \in Jobs /\ run[r].node \in Nodes
  /\ probing \subseteq Runs /\ taken \subseteq Jobs

InitWith(settings) ==
  /\ setting \in settings
  /\ job = [j \in Jobs |-> NoRecord] /\ ready = {}
  /\ claim = [j \in Jobs |-> NoNode] /\ lease = [j \in Jobs |-> NoNode]
  /\ engine = [n \in Nodes |-> Up] /\ run = [r \in Runs |-> IdleRun]
  /\ stall = [n \in Nodes |-> IdleActor] /\ resumer = IdleActor /\ canceller = IdleActor
  /\ client = [j \in Jobs |-> "idle"] /\ enabled = TRUE /\ open = TRUE
  /\ circuit = [n \in Nodes |-> NoCircuit]
  /\ sent = [j \in Jobs |-> 0]
  /\ failedInRow = [n \in Nodes |-> 0] /\ probing = {} /\ recoveries = [j \in Jobs |-> 0]
  /\ taken = {}
Init == InitWith(Settings)

broker == <<ready, claim>>
actors == <<stall, resumer, canceller>>
switches == <<enabled, open>>
histories == <<sent, failedInRow, probing, recoveries, taken>>
counters == <<sent, failedInRow, probing, recoveries>>
Offered(kind) ==
  /\ setting.offers[kind] > 0
  /\ setting' = [setting EXCEPT !.offers[kind] = @ - 1]
Spend(fault) ==
  /\ setting.budget[fault] > 0
  /\ setting' = [setting EXCEPT !.budget[fault] = @ - 1]

Publish(j) == ready' = ready \cup {j} /\ UNCHANGED claim
Nack(j) == ready' = ready \cup {j} /\ claim' = [claim EXCEPT ![j] = NoNode]
Ack(j) == ready' = ready \ {j} /\ claim' = [claim EXCEPT ![j] = NoNode]
Unlease(j, n) == lease' = IF lease[j] = n THEN [lease EXCEPT ![j] = NoNode] ELSE lease
Save(j, rec) == job' = [job EXCEPT ![j] = rec]
SaveStatus(j, rec, status) == Save(j, [rec EXCEPT !.status = status])

-----------------------------------------------------------------------------
(* fire(): enqueue reads the instance record, saves the job and publishes   *)
(* it; a disabled dispatcher holds it instead.                              *)
Fire(j) ==
  /\ client[j] = "idle" /\ open /\ Offered("fire")
  /\ client' = [client EXCEPT ![j] = IF enabled THEN "save" ELSE "hold"]
  /\ UNCHANGED <<job, broker, lease, engine, run, actors, switches, circuit, histories>>
Persist(j) ==
  /\ client[j] \in {"save", "hold"}
  /\ SaveStatus(j, NoRecord, IF client[j] = "save" THEN "waiting" ELSE "paused")
  /\ client' = [client EXCEPT ![j] = IF @ = "save" THEN "publish" ELSE "done"]
  /\ UNCHANGED <<setting, broker, lease, engine, run, actors, switches, circuit, histories>>
Enqueue(j) ==
  /\ client[j] = "publish"
  /\ Publish(j) /\ client' = [client EXCEPT ![j] = "done"]
  /\ UNCHANGED <<setting, job, lease, engine, run, actors, switches, circuit, histories>>
(* resendJob: the clone of a failed delivery.                               *)
Resend(j, clone) ==
  /\ job[j].status = "failed" /\ client[clone] = "idle" /\ Offered("resend")
  /\ SaveStatus(clone, NoRecord, "waiting")
  /\ client' = [client EXCEPT ![clone] = "publish"]
  /\ UNCHANGED <<broker, lease, engine, run, actors, switches, circuit, histories>>

(* pauseDispatcher and resumeDispatcher, which then releases held jobs.     *)
Pause(n) ==
  /\ engine[n].state = "up" /\ resumer.pc = "idle" /\ Offered("pause")
  /\ engine' = [engine EXCEPT ![n].paused = TRUE] /\ enabled' = FALSE
  /\ UNCHANGED <<job, broker, lease, run, actors, client, open, circuit, histories>>
Resume(n) ==
  /\ engine[n].state = "up" /\ resumer.pc = "idle" /\ Offered("resume")
  /\ engine' = [engine EXCEPT ![n].paused = FALSE] /\ enabled' = TRUE
  /\ resumer' = [IdleActor EXCEPT !.pc = "list", !.node = n]
  /\ UNCHANGED <<job, broker, lease, run, stall, canceller, client, open, circuit, histories>>
ResumeList ==
  /\ resumer.pc = "list"
  /\ \/ \E j \in Jobs : /\ job[j].status = "paused"
                        /\ resumer' = [resumer EXCEPT !.pc = "save", !.job = j, !.copy = job[j]]
     \/ (\A j \in Jobs : job[j].status # "paused") /\ resumer' = IdleActor
  /\ UNCHANGED <<setting, job, broker, lease, engine, run, stall, canceller, client, switches,
                 circuit, histories>>
ResumeSave ==
  /\ resumer.pc = "save"
  /\ SaveStatus(resumer.job, resumer.copy, "waiting")
  /\ resumer' = [resumer EXCEPT !.pc = "publish"]
  /\ UNCHANGED <<setting, broker, lease, engine, run, stall, canceller, client, switches,
                 circuit, histories>>
ResumePublish ==
  /\ resumer.pc = "publish"
  /\ Publish(resumer.job)
  /\ resumer' = [IdleActor EXCEPT !.pc = "list", !.node = resumer.node]
  /\ UNCHANGED <<setting, job, lease, engine, run, stall, canceller, client, switches,
                 circuit, histories>>
Disable ==
  /\ open /\ Offered("disable") /\ open' = FALSE
  /\ UNCHANGED <<job, broker, lease, engine, run, actors, client, enabled, circuit, histories>>

-----------------------------------------------------------------------------
(* poll(): the broker hands nothing out while the dispatcher is paused.     *)
ClaimedBy(n) == {r \in Runs : run[r].pc = "claimed" /\ run[r].node = n}
Poll(n, r, j) ==
  /\ engine[n].state = "up" /\ ~engine[n].paused /\ enabled /\ j \in ready
  /\ Cardinality(engine[n].active) + Cardinality(ClaimedBy(n)) < setting.concurrency
  /\ run[r] = IdleRun
  /\ ready' = ready \ {j} /\ claim' = [claim EXCEPT ![j] = n]
  /\ run' = [run EXCEPT ![r] = [IdleRun EXCEPT !.pc = "claimed", !.node = n, !.job = j]]
  /\ UNCHANGED <<setting, job, lease, engine, actors, client, switches, circuit, histories>>
Dispatch(r) ==
  LET n == run[r].node  j == run[r].job
  IN /\ run[r].pc = "claimed"
     /\ IF engine[n].state = "up"
        THEN /\ engine' = [engine EXCEPT ![n].active = @ \cup {j}]
             /\ run' = [run EXCEPT ![r].pc = "lease"] /\ UNCHANGED broker
        ELSE Nack(j) /\ run' = [run EXCEPT ![r] = IdleRun] /\ UNCHANGED engine
     /\ UNCHANGED <<setting, job, lease, actors, client, switches, circuit, histories>>

(* processJob.  Stage(r, pc): run r is about to take that step.             *)
Stage(r, pc) == run[r].pc = pc
Ends(rec, how) == [rec EXCEPT !.pc = "finish", !.settle = how]
Concludes(rec, status) ==
  [rec EXCEPT !.pc = "save", !.copy.status = status,
              !.settle = IF status = "delayed" THEN "nack" ELSE "ack"]

Lease(r) ==
  LET n == run[r].node  j == run[r].job
  IN /\ Stage(r, "lease")
     /\ IF lease[j] \in {NoNode, n}
        THEN /\ lease' = [lease EXCEPT ![j] = n]
             /\ engine' = [engine EXCEPT ![n].hb[j] = r, ![n].ac[j] = r]
             /\ run' = [run EXCEPT ![r].pc = "load", ![r].beating = TRUE]
        ELSE run' = [run EXCEPT ![r].pc = "settle", ![r].settle = "nack"] /\ UNCHANGED <<lease, engine>>
     /\ UNCHANGED <<setting, job, broker, actors, client, switches, circuit, histories>>
Load(r) ==
  /\ Stage(r, "load")
  /\ run' = [run EXCEPT ![r] = IF job[run[r].job].status \in {"none", "paused", "completed"}
                               THEN Ends(@, "ack")
                               ELSE [@ EXCEPT !.pc = "begin", !.copy = job[run[r].job]]]
  /\ UNCHANGED <<setting, job, broker, lease, engine, actors, client, switches, circuit, histories>>
Begin(r) ==
  LET made == run[r].copy.attempts
      copy == [status |-> "active", attempts |-> IF made < AttemptCap THEN made + 1 ELSE made]
  IN /\ Stage(r, "begin")
     /\ Save(run[r].job, copy)
     /\ run' = [run EXCEPT ![r].pc = "gate", ![r].copy = copy]
     /\ UNCHANGED <<setting, broker, lease, engine, actors, client, switches, circuit, histories>>
(* The endpoint, then the outbound limiter; every stage that is passed      *)
(* writes the run's copy of the job back with its progress.                 *)
Gate(r) ==
  /\ Stage(r, "gate")
  /\ \/ /\ ~open /\ run' = [run EXCEPT ![r] = Concludes(@, "failed")]
        /\ UNCHANGED <<setting, job>>
     \/ /\ open /\ Save(run[r].job, run[r].copy)
        /\ \/ run' = [run EXCEPT ![r].pc = "circuit"] /\ UNCHANGED setting
           \/ Spend("refuse") /\ run' = [run EXCEPT ![r] = Concludes(@, "delayed")]
  /\ UNCHANGED <<broker, lease, engine, actors, client, switches, circuit, histories>>

(* The breakers' getState, recordSuccess and recordFailure; the shared one  *)
(* runs each under a lock.                                                  *)
BreakerOf(n) == IF setting.shared THEN CHOOSE hub \in setting.fleet : TRUE ELSE n
Look(c) ==
  CASE c.state = "OPEN" /\ c.cooled -> [c EXCEPT !.state = "HALF_OPEN", !.probes = 0]
    [] c.state = "HALF_OPEN" /\ c.probes >= HalfOpenMax -> [c EXCEPT !.state = "OPEN"]
    [] c.state = "HALF_OPEN" /\ c.probes < HalfOpenMax -> [c EXCEPT !.probes = @ + 1]
    [] OTHER -> c
Failure(c) ==
  LET failures == IF c.failures < FailureThreshold THEN c.failures + 1 ELSE c.failures
      trips == c.state = "HALF_OPEN" \/ failures >= FailureThreshold
  IN [state |-> IF trips THEN "OPEN" ELSE c.state, failures |-> failures,
      probes |-> IF c.state = "HALF_OPEN" THEN 0 ELSE c.probes, cooled |-> FALSE]
RecordFailure(n) == circuit' = [circuit EXCEPT ![BreakerOf(n)] = Failure(@)]
RecordSuccess(n) == circuit' = [circuit EXCEPT ![BreakerOf(n)] = NoCircuit]
CheckCircuit(r) ==
  LET b == BreakerOf(run[r].node)  seen == Look(circuit[b])
  IN /\ Stage(r, "circuit")
     /\ circuit' = [circuit EXCEPT ![b] = seen]
     /\ IF seen.state = "OPEN"
        THEN /\ run' = [run EXCEPT ![r] = Concludes(@, "delayed")]
             /\ UNCHANGED <<job, probing>>
        ELSE IF run[r].aborted
        THEN run' = [run EXCEPT ![r].pc = "blame"] /\ UNCHANGED <<job, probing>>
        ELSE /\ run' = [run EXCEPT ![r].pc = "send"] /\ Save(run[r].job, run[r].copy)
             /\ probing' = IF seen.state = "HALF_OPEN" THEN probing \cup {r} ELSE probing
     /\ UNCHANGED <<setting, broker, lease, engine, actors, client, switches,
                    sent, failedInRow, recoveries, taken>>

(* deliverWebhook: an aborted request rejects.                              *)
Send(r) ==
  LET j == run[r].job
      Answer(kind) == run' = [run EXCEPT ![r].pc = "answer", ![r].answer = kind]
  IN /\ Stage(r, "send")
     /\ sent' = [sent EXCEPT ![j] = @ + 1]
     /\ IF run[r].aborted THEN Answer("error") /\ UNCHANGED setting
        ELSE \/ Answer("ok") /\ UNCHANGED setting
             \/ \E kind \in {"retry", "reject", "error"} : Spend(kind) /\ Answer(kind)
     /\ UNCHANGED <<job, broker, lease, engine, actors, client, switches, circuit,
                    failedInRow, probing, recoveries, taken>>
Answered(r) ==
  /\ Stage(r, "answer")
  /\ IF run[r].aborted \/ run[r].answer = "error"
     THEN run' = [run EXCEPT ![r].pc = "blame"] /\ UNCHANGED job
     ELSE run' = [run EXCEPT ![r].pc = "record"] /\ Save(run[r].job, run[r].copy)
  /\ UNCHANGED <<setting, broker, lease, engine, actors, client, switches, circuit, histories>>
(* A status worth a retry is thrown, and counted again where it is caught.  *)
RecordAnswer(r) ==
  LET n == run[r].node  b == BreakerOf(n)
  IN /\ Stage(r, "record")
     /\ IF run[r].answer = "ok"
        THEN RecordSuccess(n) /\ failedInRow' = [failedInRow EXCEPT ![b] = 0]
        ELSE RecordFailure(n) /\ failedInRow' = [failedInRow EXCEPT ![b] = @ + 1]
     /\ probing' = probing \ {r}
     /\ run' = [run EXCEPT ![r] =
          CASE @.answer = "ok" -> Concludes(@, "completed")
            [] @.answer = "reject" -> Concludes(@, "failed")
            [] @.answer = "retry" -> [@ EXCEPT !.pc = "blame"]]
     /\ UNCHANGED <<setting, job, broker, lease, engine, actors, client, switches,
                    sent, recoveries, taken>>
(* handleRetry, or handleHardFail for an aborted run.                       *)
OutOfRetriesLate(copy) == copy.attempts > MaxRetries + 1 \* Mutant: > for >=, one attempt too many.
OutOfRetries(copy) == copy.attempts > MaxRetries
Blame(r) ==
  LET n == run[r].node  b == BreakerOf(n)
  IN /\ Stage(r, "blame")
     /\ RecordFailure(n)
     /\ failedInRow' = IF run[r].answer = "retry" THEN failedInRow ELSE [failedInRow EXCEPT ![b] = @ + 1]
     /\ probing' = probing \ {r}
     /\ run' = [run EXCEPT ![r] =
          Concludes(@, IF @.aborted \/ OutOfRetries(@.copy) THEN "failed" ELSE "delayed")]
     /\ UNCHANGED <<setting, job, broker, lease, engine, actors, client, switches,
                    sent, recoveries, taken>>

(* The final save, finishJobExecution, then ack or nack.                    *)
Conclude(r) ==
  /\ Stage(r, "save")
  /\ Save(run[r].job, run[r].copy)
  /\ run' = [run EXCEPT ![r].pc = "finish"]
  /\ UNCHANGED <<setting, broker, lease, engine, actors, client, switches, circuit, histories>>
(* finishJobExecution stops whatever heartbeat the job is registered with.  *)
Silence(n, j, stopped) ==
  [stopped EXCEPT ![engine[n].hb[j]].beating = FALSE]
FinishFor(n, j, next) ==
  /\ IF engine[n].hb[j] # NoRun THEN run' = Silence(n, j, next) /\ Unlease(j, n)
     ELSE run' = next /\ UNCHANGED lease
  /\ engine' = [engine EXCEPT ![n].hb[j] = NoRun, ![n].ac[j] = NoRun]
Finish(r) ==
  /\ Stage(r, "finish")
  /\ FinishFor(run[r].node, run[r].job, [run EXCEPT ![r].pc = "settle"])
  /\ UNCHANGED <<setting, job, broker, actors, client, switches, circuit, histories>>
SettleKeepsSlot(r) == \* Mutant: the slot is not given back.
  /\ Stage(r, "settle")
  /\ IF run[r].settle = "ack" THEN Ack(run[r].job) ELSE Nack(run[r].job)
  /\ run' = [run EXCEPT ![r] = IdleRun]
  /\ UNCHANGED <<setting, job, lease, engine, actors, client, switches, circuit, histories>>
Settle(r) ==
  LET n == run[r].node  j == run[r].job
  IN /\ Stage(r, "settle")
     /\ IF run[r].settle = "ack" THEN Ack(j) ELSE Nack(j)
     /\ engine' = [engine EXCEPT ![n].active = @ \ {j}]
     /\ run' = [run EXCEPT ![r] = IdleRun]
     /\ UNCHANGED <<setting, job, lease, actors, client, switches, circuit, histories>>

-----------------------------------------------------------------------------
(* The heartbeat of a run that lost its lease aborts the registered run.    *)
LoseLease(r) ==
  LET n == run[r].node  j == run[r].job  ac == engine[n].ac[j]
      quiet == [run EXCEPT ![r].beating = FALSE]
  IN /\ run[r].beating /\ lease[j] # n
     /\ run' = IF ac = NoRun THEN quiet ELSE [quiet EXCEPT ![ac].aborted = TRUE]
     /\ UNCHANGED <<setting, job, broker, lease, engine, actors, client, switches, circuit, histories>>

(* StallDetector: the heartbeat goes (its stop releases the lease), and the *)
(* job, if this engine still has it, is marked and handed back.             *)
StallFind(n, j) ==
  /\ stall[n].pc = "idle" /\ engine[n].hb[j] # NoRun /\ lease[j] # n
  /\ run' = Silence(n, j, run) /\ engine' = [engine EXCEPT ![n].hb[j] = NoRun]
  /\ IF j \in engine[n].active
     THEN /\ stall' = [stall EXCEPT ![n] = [IdleActor EXCEPT !.pc = "get", !.job = j]]
          /\ taken' = taken \cup {j}
     ELSE UNCHANGED <<stall, taken>>
  /\ UNCHANGED <<setting, job, broker, lease, resumer, canceller, client, switches, circuit, counters>>
StallGet(n) ==
  /\ stall[n].pc = "get"
  /\ stall' = [stall EXCEPT ![n].copy = job[stall[n].job], ![n].pc = "save"]
  /\ UNCHANGED <<setting, job, broker, lease, engine, run, resumer, canceller, client, switches,
                 circuit, histories>>
StallSave(n) ==
  /\ stall[n].pc = "save"
  /\ SaveStatus(stall[n].job, stall[n].copy, "stalled")
  /\ stall' = [stall EXCEPT ![n].pc = "nack"]
  /\ UNCHANGED <<setting, broker, lease, engine, run, resumer, canceller, client, switches,
                 circuit, histories>>
StallNack(n) ==
  /\ stall[n].pc = "nack"
  /\ Nack(stall[n].job)
  /\ stall' = [stall EXCEPT ![n] = IdleActor]
  /\ UNCHANGED <<setting, job, lease, engine, run, resumer, canceller, client, switches, circuit,
                 histories>>
(* CrossNodeStallScanner: it looks for the owner in the record's workerId,  *)
(* which nothing in this engine sets.                                       *)
WorkerIdOf(rec) == NoNode
Scan(j) ==
  /\ job[j].status = "active" /\ lease[j] = NoNode
  /\ IF WorkerIdOf(job[j]) = NoNode THEN UNCHANGED <<job, broker>>
     ELSE SaveStatus(j, job[j], "stalled") /\ Nack(j)
  /\ UNCHANGED <<setting, lease, engine, run, actors, client, switches, circuit, histories>>

(* cancelActiveJob.                                                         *)
Cancel(n, j) ==
  /\ canceller.pc = "idle" /\ engine[n].ac[j] # NoRun /\ Offered("cancel")
  /\ run' = [run EXCEPT ![engine[n].ac[j]].aborted = TRUE]
  /\ canceller' = [pc |-> "save", node |-> n, job |-> j, copy |-> job[j]]
  /\ taken' = taken \cup {j}
  /\ UNCHANGED <<job, broker, lease, engine, stall, resumer, client, switches, circuit, counters>>
CancelSave ==
  /\ canceller.pc = "save"
  /\ SaveStatus(canceller.job, canceller.copy, "failed")
  /\ canceller' = [canceller EXCEPT !.pc = "finish"]
  /\ UNCHANGED <<setting, broker, lease, engine, run, stall, resumer, client, switches, circuit, histories>>
CancelFinish ==
  LET n == canceller.node  j == canceller.job  hb == engine[n].hb[j]
  IN /\ canceller.pc = "finish"
     /\ IF hb # NoRun THEN run' = Silence(n, j, run) /\ Unlease(j, n) ELSE UNCHANGED <<run, lease>>
     /\ engine' = [engine EXCEPT ![n].hb[j] = NoRun, ![n].ac[j] = NoRun, ![n].active = @ \ {j}]
     /\ Ack(j)
     /\ canceller' = IdleActor
     /\ UNCHANGED <<setting, job, stall, resumer, client, switches, circuit, histories>>

(* stop(): every run is aborted and waited for, then the heartbeats stop.   *)
Registered(n) == {engine[n].ac[j] : j \in Jobs} \ {NoRun}
Stop(n) ==
  /\ engine[n].state = "up" /\ Spend("stop")
  /\ run' = [r \in Runs |-> IF r \in Registered(n) THEN [run[r] EXCEPT !.aborted = TRUE] ELSE run[r]]
  /\ engine' = [engine EXCEPT ![n].state = "stopping", ![n].ac = [j \in Jobs |-> NoRun]]
  /\ UNCHANGED <<job, broker, lease, actors, client, switches, circuit, histories>>
Stopped(n) ==
  /\ engine[n].state = "stopping" /\ \A r \in Runs : run[r].node # n
  /\ engine' = [engine EXCEPT ![n] = [Up EXCEPT !.state = "down"]]
  /\ UNCHANGED <<setting, job, broker, lease, run, actors, client, switches, circuit, histories>>

(* Faults: a process dies, a lease runs out under its holder.               *)
Crash(n) ==
  LET lost == {run[r].job : r \in {x \in Runs : run[x].node = n}}
  IN /\ engine[n].state # "down" /\ Spend("crash")
     /\ engine' = [engine EXCEPT ![n] = [Up EXCEPT !.state = "down"]]
     /\ run' = [r \in Runs |-> IF run[r].node = n THEN IdleRun ELSE run[r]]
     /\ stall' = [stall EXCEPT ![n] = IdleActor]
     /\ resumer' = IF resumer.node = n THEN IdleActor ELSE resumer
     /\ canceller' = IF canceller.node = n THEN IdleActor ELSE canceller
     /\ probing' = {r \in probing : run[r].node # n}
     /\ circuit' = IF setting.shared THEN circuit ELSE [circuit EXCEPT ![n] = NoCircuit]
     /\ recoveries' = [j \in Jobs |-> recoveries[j] + IF j \in lost THEN 1 ELSE 0]
     /\ UNCHANGED <<job, broker, lease, client, switches, sent, failedInRow, taken>>
Restart(n) ==
  /\ engine[n].state = "down"
  /\ engine' = [engine EXCEPT ![n] = [Up EXCEPT !.paused = ~enabled]]
  /\ UNCHANGED <<setting, job, broker, lease, run, actors, client, switches, circuit, histories>>
Beats(n, j) == \E r \in Runs : run[r].node = n /\ run[r].job = j
                               /\ (run[r].beating \/ run[r].pc \in {"claimed", "lease"})
LeaseLapses(j) ==
  /\ lease[j] # NoNode /\ Beats(lease[j], j) /\ Spend("lapse")
  /\ lease' = [lease EXCEPT ![j] = NoNode]
  /\ UNCHANGED <<job, broker, engine, run, actors, client, switches, circuit, histories>>
LeaseExpires(j) ==
  /\ lease[j] # NoNode /\ ~Beats(lease[j], j)
  /\ lease' = [lease EXCEPT ![j] = NoNode]
  /\ UNCHANGED <<setting, job, broker, engine, run, actors, client, switches, circuit, histories>>
ClaimExpires(j) ==
  /\ claim[j] # NoNode /\ ~Beats(claim[j], j) /\ \A r \in Runs : run[r].job = j => run[r].node # claim[j]
  /\ claim' = [claim EXCEPT ![j] = NoNode]
  /\ ready' = IF setting.reclaims THEN ready \cup {j} ELSE ready
  /\ UNCHANGED <<setting, job, lease, engine, run, actors, client, switches, circuit, histories>>
Cool(n) ==
  /\ circuit[n].state # "CLOSED" /\ ~circuit[n].cooled
  /\ circuit' = [circuit EXCEPT ![n].cooled = TRUE]
  /\ UNCHANGED <<setting, job, broker, lease, engine, run, actors, client, switches, histories>>

RunStep(r) ==
  \/ Dispatch(r) \/ Lease(r) \/ Load(r) \/ Begin(r) \/ Gate(r) \/ CheckCircuit(r) \/ Send(r)
  \/ Answered(r) \/ RecordAnswer(r) \/ Blame(r) \/ Conclude(r) \/ Finish(r) \/ Settle(r)
ResumeStep == ResumeList \/ ResumeSave \/ ResumePublish
StallStep(n) == StallGet(n) \/ StallSave(n) \/ StallNack(n) \/ \E j \in Jobs : StallFind(n, j)
CancelStep == CancelSave \/ CancelFinish
IdleRuns == {r \in Runs : run[r] = IdleRun}
PollAny(n) == /\ IdleRuns # {}
              /\ \E j \in Jobs : Poll(n, CHOOSE r \in IdleRuns : TRUE, j)

Next ==
  \/ \E j \in Jobs : \/ Fire(j) \/ Persist(j) \/ Enqueue(j) \/ Scan(j)
                     \/ LeaseLapses(j) \/ LeaseExpires(j) \/ ClaimExpires(j)
                     \/ \E clone \in Jobs : Resend(j, clone)
  \/ \E n \in setting.fleet : \/ Pause(n) \/ Resume(n) \/ PollAny(n) \/ StallStep(n)
                              \/ Stop(n) \/ Stopped(n) \/ Crash(n) \/ Restart(n) \/ Cool(n)
                              \/ \E j \in Jobs : Cancel(n, j)
  \/ ResumeStep \/ Disable \/ CancelStep
  \/ \E r \in Runs : RunStep(r) \/ LoseLease(r)

Spec == Init /\ [][Next]_vars

(* Promises are resolved, timers fire, leases run out, processes come back. *)
Fairness ==
  /\ \A r \in Runs : WF_vars(RunStep(r)) /\ WF_vars(LoseLease(r))
  /\ \A j \in Jobs : /\ WF_vars(Persist(j)) /\ WF_vars(Enqueue(j)) /\ WF_vars(Scan(j))
                     /\ WF_vars(LeaseExpires(j)) /\ WF_vars(ClaimExpires(j))
  /\ \A n \in Nodes : /\ WF_vars(n \in setting.fleet /\ PollAny(n)) /\ WF_vars(StallStep(n))
                      /\ WF_vars(Stopped(n)) /\ WF_vars(Restart(n)) /\ WF_vars(Cool(n))
  /\ WF_vars(ResumeStep) /\ WF_vars(CancelStep)

-----------------------------------------------------------------------------
(* A delivery is sent no more often than its retries allow, plus once for   *)
(* every process that died with it.  A stall handler and cancelActiveJob    *)
(* write back the copy they read, and with it the attempts made by then, so *)
(* of what they take from a run nothing can be promised.                    *)
SendsWithinBudget == \A j \in Jobs \ taken : sent[j] <= MaxRetries + 1 + recoveries[j]

(* Every delivery that is fired ends, whatever the breaker, the limiter and *)
(* a pause do to it in between; a disabled dispatcher may hold it.          *)
Ended(j) == job[j].status \in {"completed", "failed"}
DeliveriesEnd == \A j \in Jobs : job[j].status = "waiting" ~> (Ended(j) \/ ~enabled)

(* Config of createCircuitBreaker: "Consecutive failures before OPEN."      *)
OpenIsEarned ==
  \A n \in Nodes : circuit[n].state = "OPEN" => failedInRow[n] >= FailureThreshold

(* "Half-Open: One probe delivery allowed".                                 *)
ProbesBounded == Cardinality(probing) <= HalfOpenMax
=============================================================================
