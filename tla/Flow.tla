--------------------------------- MODULE Flow ---------------------------------
(***************************************************************************)
(* Jobs of one queue that wait for each other, and the engines that        *)
(* execute them in batches: add with dependsOn, DependencyResolver,        *)
(* executeBatch with its shared heartbeat, the jobs a paused queue holds,  *)
(* the manager's retry and rerun, and the cross-node scan of batch jobs.   *)
(***************************************************************************)
EXTENDS Naturals, SequencesExt

CONSTANTS
  Jobs,
  Clients,  \* calls of add, retryJob and rerunJob under way
  Engines,  \* each executes one batch at a time
  Settings  \* flows and calls to explore

NoJob == "no job"
Nobody == "nobody"
Calls == {"pause", "resume", "publisherResume", "impatient", "scan", "retry", "rerun"}

Setting ==
  [todo : SUBSET Jobs,      \* jobs still to be added
   spare : SUBSET Jobs,     \* ids for the copies retryJob and rerunJob make
   dependsOn : [Jobs -> SUBSET Jobs],
   later : SUBSET Jobs,     \* those added with a delay
   policy : {"block", "ignore", "cascade-fail"},
   size : Nat, retries : Nat, engines : SUBSET Engines,
   results : SUBSET {"ok", "bad", "drop"}, \* what the handler may report of a job
   gated : BOOLEAN,         \* limiter, condition and beforeRun may refuse
   pruned : BOOLEAN,        \* removeOnComplete
   held : BOOLEAN,          \* the queue starts paused
   built : BOOLEAN,         \* the whole flow is added before a job of it starts
   offers : [Calls -> Nat]]
Assumption ==
  /\ IsFiniteSet(Jobs) /\ NoJob \notin Jobs /\ Nobody \notin Clients \cup Engines
  /\ Settings \subseteq Setting /\ \A s \in Settings : \A k \in s.spare : s.dependsOn[k] = {}

VARIABLES
  setting,   \* the member of Settings in force; todo and offers count down
  rec,       \* the job records
  born,      \* the order they were first saved in
  place,     \* the broker list a job id is in
  lock,      \* dep:parent:<id>
  batchLock, \* queue:batch:<id>
  disabled,  \* queue_instances says enabled: false
  paused,    \* the broker's flag
  client, engine,
  admin,     \* the pause or resume call under way
  scan,      \* the cross-node scan under way
  ended      \* history: the final statuses each job was saved with

vars == <<setting, rec, born, place, lock, batchLock, disabled, paused, client, engine, admin, scan, ended>>
locks == <<lock, batchLock>>
flags == <<disabled, paused>>

Absent == [status |-> "absent", kids |-> {}, deps |-> {}, attempt |-> 0]
IdleClient == [pc |-> "idle", job |-> NoJob, copy |-> Absent, left |-> {}, parent |-> NoJob, seen |-> Absent]
IdleEngine == [pc |-> "idle", jobs |-> <<>>, copy |-> [j \in Jobs |-> Absent], prev |-> Absent,
               ready |-> {}, failed |-> {}, result |-> [j \in Jobs |-> "bad"],
               stack |-> <<>>, kid |-> NoJob, seen |-> Absent]
IdleAdmin == [pc |-> "idle", checks |-> FALSE, left |-> <<>>, copy |-> [j \in Jobs |-> Absent], ready |-> FALSE]
IdleScan == [pc |-> "idle", job |-> NoJob, seen |-> Absent]

Statuses == {"absent", "paused", "waiting-children", "waiting", "delayed", "active", "stalled", "completed", "failed"}
Record == [status : Statuses, kids : SUBSET Jobs, deps : SUBSET Jobs, attempt : Nat]
TypeOK ==
  /\ rec \in [Jobs -> Record] /\ ToSet(born) \subseteq Jobs /\ place \in [Jobs -> {"none", "queued", "delayed"}]
  /\ lock \in [Jobs -> Clients \cup {Nobody}] /\ batchLock \in [Jobs -> Engines \cup {Nobody}]
  /\ disabled \in BOOLEAN /\ paused \in BOOLEAN
  /\ \A c \in Clients : client[c].copy \in Record /\ client[c].left \subseteq Jobs
  /\ \A e \in Engines : engine[e].copy \in [Jobs -> Record] /\ ToSet(engine[e].jobs) \subseteq Jobs
  /\ ToSet(admin.left) \subseteq Jobs /\ scan.seen \in Record /\ ended \in [Jobs -> SUBSET {"completed", "failed"}]

InitWith(settings) ==
  /\ setting \in settings
  /\ rec = [j \in Jobs |-> Absent] /\ born = <<>> /\ place = [j \in Jobs |-> "none"]
  /\ lock = [j \in Jobs |-> Nobody] /\ batchLock = [j \in Jobs |-> Nobody]
  /\ disabled = setting.held /\ paused = setting.held
  /\ client = [c \in Clients |-> IdleClient] /\ engine = [e \in Engines |-> IdleEngine]
  /\ admin = IdleAdmin /\ scan = IdleScan /\ ended = [j \in Jobs |-> {}]
Init == InitWith(Settings)

Offered(call) ==
  /\ setting.offers[call] > 0
  /\ setting' = [setting EXCEPT !.offers[call] = @ - 1]
Save(j, r) == rec' = [rec EXCEPT ![j] = r]
Saves(j, r) == Save(j, r) /\ born' = IF j \in ToSet(born) THEN born ELSE Append(born, j)
Put(j, list) == place' = [place EXCEPT ![j] = list]
Goto(c, pc) == client' = [client EXCEPT ![c].pc = pc]
Leaves(c) == client' = [client EXCEPT ![c] = IdleClient]
CanProceed(deps) == \A p \in deps : rec[p].status = "completed"

-----------------------------------------------------------------------------
(* add: the instance record and the parents are read, the job is saved.     *)
Added(j) ==
  [Absent EXCEPT !.deps = setting.dependsOn[j],
                 !.status = IF disabled THEN "paused"
                            ELSE IF setting.dependsOn[j] # {} THEN "waiting-children"
                            ELSE IF j \in setting.later THEN "delayed" ELSE "waiting"]
AddStart(c, j) ==
  /\ client[c].pc = "idle" /\ j \in setting.todo
  /\ setting' = [setting EXCEPT !.todo = @ \ {j}]
  /\ client' = [client EXCEPT ![c] = IF \E p \in setting.dependsOn[j] : rec[p].status = "absent" THEN IdleClient
                 ELSE [IdleClient EXCEPT !.pc = "save", !.job = j, !.copy = Added(j), !.left = setting.dependsOn[j]]]
  /\ UNCHANGED <<rec, born, place, locks, flags, engine, admin, scan, ended>>
AddSave(c) ==
  LET copy == client[c].copy
  IN /\ client[c].pc = "save" /\ Saves(client[c].job, copy)
     /\ IF copy.deps = {} /\ copy.status = "paused" THEN Leaves(c)
        ELSE Goto(c, IF copy.deps # {} THEN "register" ELSE "publish")
     /\ UNCHANGED <<setting, place, locks, flags, engine, admin, scan, ended>>
(* registerDependencies: a parent at a time, under its lock; after three    *)
(* attempts the caller goes on without it.                                  *)
RegisterLock(c) ==
  /\ client[c].pc = "register"
  /\ \E p \in client[c].left :
       /\ client' = [client EXCEPT ![c].pc = "read", ![c].parent = p, ![c].left = @ \ {p}]
       /\ \/ lock[p] = Nobody /\ lock' = [lock EXCEPT ![p] = c] /\ UNCHANGED setting
          \/ lock[p] # Nobody /\ Offered("impatient") /\ UNCHANGED lock
  /\ UNCHANGED <<rec, born, place, batchLock, flags, engine, admin, scan, ended>>
Unlocks(c, p) == lock' = IF lock[p] = c THEN [lock EXCEPT ![p] = Nobody] ELSE lock
RegisterRead(c) ==
  LET p == client[c].parent
  IN /\ client[c].pc = "read"
     /\ client' = [client EXCEPT ![c].seen = rec[p], ![c].pc = IF rec[p].status = "absent" THEN "register" ELSE "write"]
     /\ IF rec[p].status = "absent" THEN Unlocks(c, p) ELSE UNCHANGED lock
     /\ UNCHANGED <<setting, rec, born, place, batchLock, flags, engine, admin, scan, ended>>
RegisterSave(c) ==
  /\ client[c].pc = "write"
  /\ Save(client[c].parent, [client[c].seen EXCEPT !.kids = @ \cup {client[c].job}])
  /\ Unlocks(c, client[c].parent)
  /\ client' = [client EXCEPT ![c].pc = "register", ![c].seen = Absent]
  /\ UNCHANGED <<setting, born, place, batchLock, flags, engine, admin, scan, ended>>
Registered(c) ==
  /\ client[c].pc = "register" /\ client[c].left = {}
  /\ IF CanProceed(client[c].copy.deps) THEN Goto(c, "promote") ELSE Leaves(c)
  /\ UNCHANGED <<setting, rec, born, place, locks, flags, engine, admin, scan, ended>>
AddPromote(c) ==
  /\ client[c].pc = "promote" /\ Save(client[c].job, [client[c].copy EXCEPT !.status = "waiting"])
  /\ Goto(c, "publish")
  /\ UNCHANGED <<setting, born, place, locks, flags, engine, admin, scan, ended>>
AddPublish(c) ==
  /\ client[c].pc = "publish"
  /\ Put(client[c].job, IF client[c].copy.status = "delayed" THEN "delayed" ELSE "queued") /\ Leaves(c)
  /\ UNCHANGED <<setting, rec, born, locks, flags, engine, admin, scan, ended>>

(* retryJob and rerunJob publish a copy of the record under a new id; the   *)
(* former also writes what it read back under the old one.                  *)
Clone(c, j, k, call) ==
  /\ client[c].pc = "idle" /\ k \in setting.spare /\ setting.offers[call] > 0
  /\ setting' = [setting EXCEPT !.spare = @ \ {k}, !.offers[call] = @ - 1]
  /\ IF call = "retry" THEN rec[j].status = "failed" ELSE rec[j].status # "absent"
  /\ client' = [client EXCEPT ![c] = [IdleClient EXCEPT
       !.pc = "clone", !.job = k, !.parent = IF call = "retry" THEN j ELSE NoJob, !.seen = rec[j],
       !.copy = [rec[j] EXCEPT !.status = "waiting", !.attempt = 0]]]
  /\ UNCHANGED <<rec, born, place, locks, flags, engine, admin, scan, ended>>
CloneSave(c) ==
  /\ client[c].pc = "clone" /\ Saves(client[c].job, client[c].copy)
  /\ Goto(c, IF client[c].parent = NoJob THEN "publish" ELSE "mark")
  /\ UNCHANGED <<setting, place, locks, flags, engine, admin, scan, ended>>
CloneMark(c) ==
  /\ client[c].pc = "mark" /\ Save(client[c].parent, client[c].seen) /\ Goto(c, "publish")
  /\ UNCHANGED <<setting, born, place, locks, flags, engine, admin, scan, ended>>

ClientStep(c) ==
  \/ \E j \in Jobs : AddStart(c, j) \/ \E k \in Jobs, call \in {"retry", "rerun"} : Clone(c, j, k, call)
  \/ AddSave(c) \/ RegisterLock(c) \/ RegisterRead(c) \/ RegisterSave(c) \/ Registered(c)
  \/ AddPromote(c) \/ AddPublish(c) \/ CloneSave(c) \/ CloneMark(c)

-----------------------------------------------------------------------------
(* poll: the claimed ids whose record exists make the batch, the others are *)
(* acknowledged.  One lock, named after the first job, stands for them all. *)
Poll(e) ==
  /\ engine[e].pc = "idle" /\ ~paused
  /\ \E ids \in SUBSET {j \in Jobs : place[j] = "queued"} :
       LET valid == {j \in ids : rec[j].status # "absent"}
       IN /\ ids # {} /\ Cardinality(ids) <= setting.size
          /\ place' = [j \in Jobs |-> IF j \in ids THEN "none" ELSE place[j]]
          /\ engine' = [engine EXCEPT ![e] = IF valid = {} THEN IdleEngine
               ELSE [IdleEngine EXCEPT !.pc = "acquire", !.jobs = SetToSeq(valid),
                                       !.copy = [j \in Jobs |-> IF j \in valid THEN rec[j] ELSE Absent]]]
  /\ UNCHANGED <<setting, rec, born, locks, flags, client, admin, scan, ended>>
Job(e) == Head(engine[e].jobs)
Moves(e, pc) == engine' = [engine EXCEPT ![e].pc = pc]
Next1(e, pc) == engine' = [engine EXCEPT ![e].pc = pc, ![e].jobs = Tail(@)]
Acquire(e) ==
  /\ engine[e].pc = "acquire"
  /\ IF batchLock[Job(e)] = Nobody THEN batchLock' = [batchLock EXCEPT ![Job(e)] = e] /\ Moves(e, "activate")
     ELSE UNCHANGED batchLock /\ Moves(e, "refused")
  /\ UNCHANGED <<setting, rec, born, place, lock, flags, client, admin, scan, ended>>
Refuse(e) ==
  /\ engine[e].pc = "refused" /\ Put(Job(e), "queued")
  /\ IF Len(engine[e].jobs) = 1 THEN engine' = [engine EXCEPT ![e] = IdleEngine] ELSE Next1(e, "refused")
  /\ UNCHANGED <<setting, rec, born, locks, flags, client, admin, scan, ended>>

(* A job at a time is saved as active and passes the limiter, beforeRun and *)
(* the condition, or goes back as it was.                                   *)
Activate(e) ==
  LET copy == engine[e].copy[Job(e)]
      active == [copy EXCEPT !.status = "active", !.attempt = @ + 1]
  IN /\ engine[e].pc = "activate" /\ engine[e].jobs # <<>> /\ Save(Job(e), active)
     /\ engine' = [engine EXCEPT ![e].pc = "gate", ![e].prev = copy, ![e].copy[Job(e)] = active]
     /\ UNCHANGED <<setting, born, place, locks, flags, client, admin, scan, ended>>
Gate(e) ==
  /\ engine[e].pc = "gate"
  /\ \/ /\ engine' = [engine EXCEPT ![e].pc = "activate", ![e].jobs = Tail(@), ![e].ready = @ \cup {Job(e)}]
        /\ UNCHANGED rec
     \/ /\ setting.gated
        /\ engine' = [engine EXCEPT ![e].pc = "activate", ![e].jobs = Tail(@), ![e].failed = @ \cup {Job(e)}]
        /\ UNCHANGED rec
     \/ setting.gated /\ Save(Job(e), engine[e].prev) /\ Moves(e, "giveBack")
  /\ UNCHANGED <<setting, born, place, locks, flags, client, admin, scan, ended>>
GiveBackForgets(e) == \* Mutant: the record goes back, the id does not.
  /\ engine[e].pc = "giveBack" /\ Next1(e, "activate")
  /\ UNCHANGED <<setting, rec, born, place, locks, flags, client, admin, scan, ended>>
GiveBack(e) ==
  /\ engine[e].pc = "giveBack" /\ Put(Job(e), "delayed") /\ Next1(e, "activate")
  /\ UNCHANGED <<setting, rec, born, locks, flags, client, admin, scan, ended>>

(* processBatch answers for every job, throws, times out or answers for too *)
(* few; the heartbeat stops before the first outcome is written.            *)
Run(e) ==
  LET batch == engine[e].failed \cup engine[e].ready
  IN /\ engine[e].pc = "activate" /\ engine[e].jobs = <<>>
     /\ batchLock' = [j \in Jobs |-> IF batchLock[j] = e THEN Nobody ELSE batchLock[j]]
     /\ IF batch = {} THEN engine' = [engine EXCEPT ![e] = IdleEngine]
        ELSE \E said \in [engine[e].ready -> setting.results] :
               engine' = [engine EXCEPT ![e].pc = "save", ![e].prev = Absent,
                            ![e].jobs = SetToSeq(engine[e].failed) \o SetToSeq(engine[e].ready),
                            ![e].result = [j \in Jobs |-> IF j \in engine[e].ready THEN said[j] ELSE "bad"],
                            ![e].ready = {}, ![e].failed = {}]
     /\ UNCHANGED <<setting, rec, born, place, lock, flags, client, admin, scan, ended>>
Outcome(e) ==
  IF engine[e].result[Job(e)] # "bad" THEN "completed"
  ELSE IF engine[e].copy[Job(e)].attempt <= setting.retries THEN "delayed" ELSE "failed"
Ends(j, status) == ended' = [ended EXCEPT ![j] = @ \cup {status}]
FinalSave(e) ==
  /\ engine[e].pc = "save" /\ engine[e].jobs # <<>>
  /\ Save(Job(e), [engine[e].copy[Job(e)] EXCEPT !.status = Outcome(e)])
  /\ Moves(e, IF Outcome(e) = "delayed" THEN "nack" ELSE "ack")
  /\ IF Outcome(e) = "delayed" THEN UNCHANGED ended ELSE Ends(Job(e), Outcome(e))
  /\ UNCHANGED <<setting, born, place, locks, flags, client, admin, scan>>
Nack(e) ==
  /\ engine[e].pc = "nack" /\ Put(Job(e), "delayed") /\ Next1(e, "save")
  /\ UNCHANGED <<setting, rec, born, locks, flags, client, admin, scan, ended>>
Ack(e) ==
  /\ engine[e].pc = "ack" /\ Put(Job(e), "none")
  /\ IF engine[e].copy[Job(e)].kids = {} THEN Moves(e, "prune")
     ELSE engine' = [engine EXCEPT ![e].pc = "open", ![e].kid = Job(e)]
  /\ UNCHANGED <<setting, rec, born, locks, flags, client, admin, scan, ended>>
Prune(e) ==
  /\ engine[e].pc = "prune" /\ Next1(e, "save")
  /\ IF setting.pruned /\ Outcome(e) = "completed" THEN Save(Job(e), Absent) ELSE UNCHANGED rec
  /\ UNCHANGED <<setting, born, place, locks, flags, client, admin, scan, ended>>
BatchEnd(e) ==
  /\ engine[e].pc = "save" /\ engine[e].jobs = <<>>
  /\ engine' = [engine EXCEPT ![e] = IdleEngine]
  /\ UNCHANGED <<setting, rec, born, place, locks, flags, client, admin, scan, ended>>

(* notifyChildren reads the record of the job that ended, then each child;  *)
(* a child that fails with its parent is descended into.                    *)
Returns(e, stack) ==
  engine' = [engine EXCEPT ![e].pc = IF stack = <<>> THEN "prune" ELSE "notify", ![e].stack = stack,
                           ![e].kid = NoJob, ![e].seen = Absent]
NotifyOpen(e) ==
  LET r == rec[engine[e].kid]
  IN /\ engine[e].pc = "open"
     /\ Returns(e, IF r.kids = {} THEN engine[e].stack
                   ELSE Append(engine[e].stack, [failed |-> r.status = "failed", left |-> r.kids]))
     /\ UNCHANGED <<setting, rec, born, place, locks, flags, client, admin, scan, ended>>
AllReadySome(k) == \* Mutant: one parent is enough.
  \E p \in rec[k].deps : rec[p].status = "completed"
AllReady(k) ==
  \A p \in rec[k].deps : rec[p].status = "completed" \/ (rec[p].status = "failed" /\ setting.policy = "ignore")
NotifyChild(e) ==
  LET stack == engine[e].stack
      top == Last(stack)
  IN /\ engine[e].pc = "notify"
     /\ \/ top.left = {} /\ Returns(e, Front(stack))
        \/ \E k \in top.left :
             LET sees == rec[k].status = "waiting-children"
                 fails == sees /\ top.failed /\ setting.policy = "cascade-fail"
                 starts == sees /\ ~(top.failed /\ setting.policy # "ignore") /\ AllReady(k)
             IN engine' = [engine EXCEPT ![e].stack = [stack EXCEPT ![Len(stack)].left = @ \ {k}],
                  ![e].pc = IF fails THEN "kidFail" ELSE IF starts THEN "kidSave" ELSE "notify",
                  ![e].kid = IF fails \/ starts THEN k ELSE NoJob,
                  ![e].seen = IF fails \/ starts THEN rec[k] ELSE Absent]
     /\ UNCHANGED <<setting, rec, born, place, locks, flags, client, admin, scan, ended>>
KidFail(e) ==
  /\ engine[e].pc = "kidFail" /\ Save(engine[e].kid, [engine[e].seen EXCEPT !.status = "failed"])
  /\ Ends(engine[e].kid, "failed") /\ Moves(e, "open")
  /\ UNCHANGED <<setting, born, place, locks, flags, client, admin, scan>>
KidSave(e) ==
  /\ engine[e].pc = "kidSave" /\ Save(engine[e].kid, [engine[e].seen EXCEPT !.status = "waiting"])
  /\ Moves(e, "kidPublish")
  /\ UNCHANGED <<setting, born, place, locks, flags, client, admin, scan, ended>>
KidPublish(e) ==
  /\ engine[e].pc = "kidPublish" /\ Put(engine[e].kid, "queued") /\ Returns(e, engine[e].stack)
  /\ UNCHANGED <<setting, rec, born, locks, flags, client, admin, scan, ended>>

EngineStep(e) ==
  \/ Poll(e) \/ Acquire(e) \/ Refuse(e) \/ Activate(e) \/ Gate(e) \/ GiveBack(e) \/ Run(e)
  \/ FinalSave(e) \/ Nack(e) \/ Ack(e) \/ Prune(e) \/ BatchEnd(e)
  \/ NotifyOpen(e) \/ NotifyChild(e) \/ KidFail(e) \/ KidSave(e) \/ KidPublish(e)

-----------------------------------------------------------------------------
(* pause and resume.  An engine's resumeQueue looks at the dependencies of  *)
(* the jobs it held, newest first; releaseHeldJobs, all a publisher has,    *)
(* does not.                                                                *)
Adding == \E c \in Clients : client[c].pc # "idle"
Held ==
  LET at == {n \in DOMAIN born : rec[born[n]].status = "paused"}
      count == Cardinality(at)
      Elder(n) == {m \in at : m <= n}
  IN [k \in 1 .. count |-> born[CHOOSE n \in at : Cardinality(Elder(n)) = count + 1 - k]]
Pause ==
  /\ admin.pc = "idle" /\ Offered("pause") /\ disabled' = TRUE /\ admin' = [admin EXCEPT !.pc = "pause"]
  /\ UNCHANGED <<rec, born, place, locks, paused, client, engine, scan, ended>>
PauseBroker ==
  /\ admin.pc = "pause" /\ paused' = TRUE /\ admin' = IdleAdmin
  /\ UNCHANGED <<setting, rec, born, place, locks, disabled, client, engine, scan, ended>>
Resume(call) ==
  /\ admin.pc = "idle" /\ disabled /\ Offered(call) /\ disabled' = FALSE
  /\ setting.built => setting.todo = {} /\ ~Adding
  /\ admin' = [admin EXCEPT !.pc = IF call = "resume" THEN "list" ELSE "broker", !.checks = call = "resume"]
  /\ UNCHANGED <<rec, born, place, locks, paused, client, engine, scan, ended>>
ListHeld ==
  /\ admin.pc = "list"
  /\ admin' = IF Held # <<>> THEN [admin EXCEPT !.pc = "next", !.left = Held,
                                     !.copy = [j \in Jobs |-> IF j \in ToSet(Held) THEN rec[j] ELSE Absent]]
              ELSE IF admin.checks THEN [IdleAdmin EXCEPT !.pc = "broker"] ELSE IdleAdmin
  /\ UNCHANGED <<setting, rec, born, place, locks, flags, client, engine, scan, ended>>
CheckHeld ==
  /\ admin.pc = "next"
  /\ admin' = IF admin.left = <<>> THEN [IdleAdmin EXCEPT !.pc = "list", !.checks = admin.checks]
              ELSE [admin EXCEPT !.pc = "save", !.ready = ~admin.checks \/ CanProceed(admin.copy[Head(admin.left)].deps)]
  /\ UNCHANGED <<setting, rec, born, place, locks, flags, client, engine, scan, ended>>
SaveHeld ==
  LET j == Head(admin.left)
  IN /\ admin.pc = "save"
     /\ Save(j, [admin.copy[j] EXCEPT !.status = IF admin.ready THEN "waiting" ELSE "waiting-children"])
     /\ admin' = IF admin.ready THEN [admin EXCEPT !.pc = "publish"]
                 ELSE [admin EXCEPT !.pc = "next", !.left = Tail(@)]
     /\ UNCHANGED <<setting, born, place, locks, flags, client, engine, scan, ended>>
PublishHeld ==
  /\ admin.pc = "publish" /\ Put(Head(admin.left), "queued")
  /\ admin' = [admin EXCEPT !.pc = "next", !.left = Tail(@)]
  /\ UNCHANGED <<setting, rec, born, locks, flags, client, engine, scan, ended>>
ResumeBroker ==
  /\ admin.pc = "broker" /\ paused' = FALSE /\ admin' = [IdleAdmin EXCEPT !.pc = "list"]
  /\ UNCHANGED <<setting, rec, born, place, locks, disabled, client, engine, scan, ended>>

(* The cross-node scan looks for queue:job:<id>, a lock no batch takes.     *)
ScanFind(j) ==
  /\ scan.pc = "idle" /\ rec[j].status = "active" /\ Offered("scan")
  /\ scan' = [pc |-> "save", job |-> j, seen |-> rec[j]]
  /\ UNCHANGED <<rec, born, place, locks, flags, client, engine, admin, ended>>
ScanSave ==
  /\ scan.pc = "save" /\ Save(scan.job, [scan.seen EXCEPT !.status = "stalled"])
  /\ scan' = [scan EXCEPT !.pc = "nack"]
  /\ UNCHANGED <<setting, born, place, locks, flags, client, engine, admin, ended>>
ScanNack ==
  /\ scan.pc = "nack" /\ Put(scan.job, "queued") /\ scan' = IdleScan
  /\ UNCHANGED <<setting, rec, born, locks, flags, client, engine, admin, ended>>

ComesDue(j) ==
  /\ place[j] = "delayed" /\ Put(j, "queued")
  /\ setting.built => setting.todo = {} /\ ~Adding
  /\ UNCHANGED <<setting, rec, born, locks, flags, client, engine, admin, scan, ended>>

Next ==
  \/ \E c \in Clients : ClientStep(c)
  \/ \E e \in setting.engines : EngineStep(e)
  \/ \E call \in {"resume", "publisherResume"} : Resume(call)
  \/ Pause \/ PauseBroker \/ ListHeld \/ CheckHeld \/ SaveHeld \/ PublishHeld \/ ResumeBroker
  \/ \E j \in Jobs : ScanFind(j) \/ ComesDue(j)
  \/ ScanSave \/ ScanNack
Spec == Init /\ [][Next]_vars
(* A publisher's resume looks at no dependencies, and an engine's second    *)
(* listing, once the flag is down, looks at none either: nothing is claimed *)
(* of a flow with dependencies that the first releases, or of which jobs    *)
(* are added while the second runs.                                         *)
ResumesFit(s) ==
  \/ \A j \in Jobs : s.dependsOn[j] = {}
  \/ s.offers["publisherResume"] = 0 /\ (s.built \/ s.offers["resume"] = 0)

-----------------------------------------------------------------------------
(* "Job stays in waiting-children until all parents are completed": no job  *)
(* with dependencies is queued or executed before every parent has          *)
(* completed, or has failed under the policy "ignore".                      *)
Satisfied(p) == "completed" \in ended[p] \/ ("failed" \in ended[p] /\ setting.policy = "ignore")
Batched(j) == \E e \in Engines : j \in ToSet(engine[e].jobs) \cup engine[e].ready \cup engine[e].failed
ParentsFirst ==
  \A j \in Jobs : place[j] # "none" \/ Batched(j) => \A p \in setting.dependsOn[j] : Satisfied(p)

(* A saved job that has not ended is in a broker list, in a batch, in the   *)
(* hands of a call that will publish it, held, or waiting for its parents.  *)
Announced(j) ==
  \/ \E c \in Clients : client[c].job = j
  \/ \E e \in Engines : engine[e].kid = j
  \/ j \in ToSet(admin.left) \/ scan.job = j
NoJobIsLost ==
  \A j \in Jobs : rec[j].status # "absent" /\ ended[j] = {} =>
    place[j] # "none" \/ Batched(j) \/ Announced(j) \/ rec[j].status \in {"paused", "waiting-children"}

(* When nothing is left to do, a job that still waits for its parents has   *)
(* one that did not end, or one that failed and blocks it.  That needs the  *)
(* flow to be complete before its first job starts, and parents to be kept. *)
Quiet ==
  /\ \A c \in Clients : client[c].pc = "idle"
  /\ \A e \in Engines : engine[e].pc = "idle"
  /\ admin.pc = "idle" /\ scan.pc = "idle" /\ \A j \in Jobs : place[j] = "none"
Left(j) ==
  /\ Quiet /\ rec[j].status = "waiting-children"
  /\ \A p \in rec[j].deps : ended[p] # {} /\ ("completed" \in ended[p] \/ setting.policy # "block")
NoChildIsLeft == setting.built => \A j \in Jobs : ~Left(j)

(* "Job stays in waiting-children status until all parents are completed",  *)
(* also when the flow grows while its first jobs are executed.              *)
ChildrenAreReleased == \A j \in Jobs : ~Left(j)

(* No unfinished job drops out of sight, in a list or behind its parents.   *)
JobsAreKept == NoJobIsLost /\ NoChildIsLeft
=============================================================================
