----------------------------- MODULE BatchStore -----------------------------
(***************************************************************************)
(* What the processes of a batch() definition share through the adapters:  *)
(* the buffers ("batch_buffers") with one lease lock per group, the batch  *)
(* jobs ("jobs") with their place in the broker and one lease lock per     *)
(* job.  Each adapter call is one atomic step, and no step changes two     *)
(* stores.  The model is that of adapters outliving the processes (Redis,  *)
(* Postgres) and of persist: true.                                         *)
(***************************************************************************)
EXTENDS Naturals, FiniteSets

CONSTANTS
  Nodes,       \* processes; a restarted process is another member
  Groups,      \* group keys of groupBy
  Items,       \* items passed to add()
  Jobs,        \* ids a flush may draw (randomUUID)
  Calls,       \* add, flush and tick calls that may be under way at once
  Runs,        \* executeJob calls that may be under way at once
  GroupOf,     \* groupBy
  DedupKey,    \* deduplicateBy
  MaxSize,     \* maxSize
  Concurrency, \* concurrency
  MaxRetries,  \* retries.max
  Settings     \* configurations and fault budgets to explore

Budgets == {"crash", "stop", "lapse", "timeout", "pause", "flush", "hang"}

NoNode == "no node"
NoItem == "no item"
NoJob == "no job"
NoCall == "no call"
Vanished == "vanished"  \* owner of a lease that died with its process

ASSUME BatchAssumption ==
  /\ IsFiniteSet(Jobs)
  /\ NoNode \notin Nodes /\ NoItem \notin Items /\ NoJob \notin Jobs
  /\ Calls \cap {NoCall, Vanished} = {}
  /\ GroupOf \in [Items -> Groups]
  /\ MaxSize \in Nat \ {0} /\ Concurrency \in Nat \ {0} /\ MaxRetries \in Nat
  /\ Settings \subseteq
       [fleet : SUBSET Nodes,    \* the processes of this run
        items : SUBSET Items,    \* the items offered (a bound)
        calls : SUBSET Calls,    \* calls at once (a bound)
        runs : SUBSET Runs,      \* runs at once (a bound)
        maxPending : Nat,        \* maxPendingBatches, 0: not set
        throttle : Nat,          \* throttle.max, 0: not set
        remove : BOOLEAN,        \* removeOnComplete and removeOnFail
        dedup : BOOLEAN,         \* deduplicateBy is configured
        filtered : SUBSET Items, \* what hooks.beforeFlush takes out
        budget : [Budgets -> Nat]]

VARIABLES
  setting,    \* the member of Settings in force, its budget counting down
  buffers,    \* namespace "batch_buffers"
  bufferLock, \* owner of "batch:buffer:<name>:<group>"
  jobs,       \* namespace "jobs"
  queue,      \* the broker's list of each id: "out", "ready" or "delayed"
  jobLock     \* owner of "batch:job:<id>"

storeVars == <<setting, buffers, bufferLock, jobs, queue, jobLock>>

(* BatchBufferRecord.  due: maxWaitMs has passed since firstItemAt; job is  *)
(* flushJobId.  A stored buffer is never empty, so no items is no record.   *)
Buffer == [items : SUBSET Items, due : BOOLEAN, job : Jobs \cup {NoJob}]
NoBuffer == [items |-> {}, due |-> FALSE, job |-> NoJob]

(* "removed" is a record deleted by retention: absent for every reader, its *)
(* items are kept for the properties.                                       *)
Statuses == {"absent", "waiting", "active", "completed", "failed", "removed"}
Terminal == {"completed", "failed"}
BatchJob == [status : Statuses, attempt : 0 .. MaxRetries + 2, items : SUBSET Items]
NoRecord == [status |-> "absent", attempt |-> 0, items |-> {}]
Exists(j) == jobs[j].status \notin {"absent", "removed"}

StoreTypeOK ==
  /\ setting \in [fleet : SUBSET Nodes, items : SUBSET Items,
                  calls : SUBSET Calls, runs : SUBSET Runs,
                  maxPending : Nat, throttle : Nat, remove : BOOLEAN,
                  dedup : BOOLEAN, filtered : SUBSET Items, budget : [Budgets -> Nat]]
  /\ buffers \in [Groups -> Buffer]
  /\ bufferLock \in [Groups -> Calls \cup {NoCall, Vanished}]
  /\ jobs \in [Jobs -> BatchJob]
  /\ queue \in [Jobs -> {"out", "ready", "delayed"}]
  /\ jobLock \in [Jobs -> Nodes \cup {NoNode}]

StoreInit ==
  /\ setting \in Settings
  /\ buffers = [g \in Groups |-> NoBuffer]
  /\ bufferLock = [g \in Groups |-> NoCall]
  /\ jobs = [j \in Jobs |-> NoRecord]
  /\ queue = [j \in Jobs |-> "out"]
  /\ jobLock = [j \in Jobs |-> NoNode]

Affordable(kind) == setting.budget[kind] > 0
Spend(kind) ==
  /\ Affordable(kind)
  /\ setting' = [setting EXCEPT !.budget[kind] = @ - 1]

(* IStorageEngine and IBrokerEngine, as in the job system: save replaces    *)
(* the whole record, publish and nack put the id in one list only.          *)
SaveBuffer(g, b) == buffers' = [buffers EXCEPT ![g] = b]
SaveJob(j, rec) == jobs' = [jobs EXCEPT ![j] = rec]
Enqueue(j, where) == queue' = [queue EXCEPT ![j] = where]
=============================================================================
