------------------------------ MODULE Scheduler ------------------------------
(***************************************************************************)
(* A cluster of cron or schedule engines: processes boot, campaign, tick,   *)
(* run handlers, are disabled and enabled, drain and stop, or crash, while  *)
(* operators pause, resume, replace, remove and trigger schedules.          *)
(***************************************************************************)
EXTENDS ScheduleTicks

CONSTANTS
  Scenarios   \* budgets, each with the definitions it is explored for

ASSUME ScenarioAssumption ==
  Scenarios \subseteq Budgets \X [Schedules -> Definitions]

VARIABLES
  boot,   \* init(): what a booting process has still to write
  admin   \* the operator call under way

vars == <<lease, isLeader, reply, electing, leaked, resigning, lapsed, budget,
          engine, def, clock, record, run, runLock, rewound, raced, robbed,
          tick, initDone, known, served, repeated, crowded, boot, admin>>

Booted == [todo |-> {}, item |-> {}, snap |-> NoRecord, seeds |-> {}]
NoCall == [op |-> "none", node |-> Nobody, item |-> {}, snap |-> NoRecord]

TypeOK ==
  /\ ElectionTypeOK /\ RunsTypeOK /\ TicksTypeOK
  /\ boot \in [Nodes -> [todo : SUBSET Schedules, item : SUBSET Schedules,
                         snap : Records, seeds : SUBSET Schedules]]
  /\ admin \in [op : {"none", "pause", "resume", "upsert"},
                node : Nodes \cup {Nobody}, item : SUBSET Schedules,
                snap : Records]

(* Nothing runs yet; a schedule is new, or known from an earlier deployment *)
(* that last served time 0.                                                 *)
Init ==
  /\ ElectionInit
  /\ engine = [n \in Nodes |-> "new"]
  /\ \E sc \in Scenarios : budget = sc[1] /\ def = sc[2]
  /\ clock = 0
  /\ record \in [Schedules -> {NoRecord, [kept |-> TRUE, next |-> Period,
                                          last |-> 0, paused |-> FALSE]}]
  /\ \A s \in Schedules : def[s].timing = "runAt" => ~record[s].kept
  /\ run = [r \in Runs |-> NoRun]
  /\ runLock = [k \in Keys |-> Nobody]
  /\ rewound = {} /\ raced = {} /\ robbed = {}
  /\ tick = [t \in Ticks |-> Idle]
  /\ initDone = [n \in Nodes |-> FALSE]
  /\ known = [n \in Nodes |-> {}]
  /\ served = {} /\ repeated = {} /\ crowded = {}
  /\ boot = [n \in Nodes |-> Booted]
  /\ admin = NoCall

(***************************************************************************)
(* init() and start()                                                      *)
(***************************************************************************)

BootStart(n) ==
  /\ Spend("deploy")
  /\ engine[n] = "new"
  /\ engine' = [engine EXCEPT ![n] = "boot"]
  /\ known' = [known EXCEPT ![n] = Schedules]
  /\ boot' = [boot EXCEPT ![n].todo = Schedules]
  /\ UNCHANGED <<def, clock, record, rewound, tick, initDone, served, repeated,
                 crowded, admin>>
  /\ UNCHANGED electionVars /\ UNCHANGED runVars

BootRead(n, s) ==
  /\ boot[n].item = {} /\ s \in boot[n].todo
  /\ boot' = [boot EXCEPT ![n].todo = @ \ {s}, ![n].item = {s},
                          ![n].snap = record[s]]
  /\ UNCHANGED <<engine, def, clock, record, rewound, admin, budget>>
  /\ UNCHANGED electionVars /\ UNCHANGED runVars /\ UNCHANGED tickVars

(* The record is written back as it was read, with this code's definition.  *)
BootSave(n, s) ==
  LET b == boot[n] IN
  /\ s \in b.item
  /\ Save(s, [b.snap EXCEPT !.kept = TRUE])
  /\ boot' = [boot EXCEPT ![n].item = {}, ![n].snap = NoRecord,
       ![n].seeds = IF b.snap.next = Never \/ def[s].engine = "cron"
                    THEN @ \cup {s} ELSE @]
  /\ UNCHANGED <<engine, def, clock, admin, budget>>
  /\ UNCHANGED electionVars /\ UNCHANGED runVars /\ UNCHANGED tickVars

(* A record without a pointer gets one: the cron engine looks at the record *)
(* again, the schedule engine trusts what it read before.                   *)
BootSeed(n, s) ==
  /\ boot[n].todo = {} /\ boot[n].item = {} /\ s \in boot[n].seeds
  /\ record' = [record EXCEPT ![s] =
       IF \/ NextRun(s, clock) = Never \/ ~@.kept
          \/ def[s].engine = "cron" /\ @.next # Never
       THEN @ ELSE [@ EXCEPT !.next = NextRun(s, clock)]]
  /\ boot' = [boot EXCEPT ![n].seeds = @ \ {s}]
  /\ UNCHANGED <<engine, def, clock, rewound, admin, budget>>
  /\ UNCHANGED electionVars /\ UNCHANGED runVars /\ UNCHANGED tickVars

Start(n) ==
  /\ engine[n] = "boot" /\ boot[n] = Booted
  /\ engine' = [engine EXCEPT ![n] = "up"]
  /\ StartElection(n)
  /\ UNCHANGED <<def, clock, record, rewound, boot, admin, budget>>
  /\ UNCHANGED runVars /\ UNCHANGED tickVars

Boot(n) ==
  \/ BootStart(n) \/ Start(n)
  \/ \E s \in Schedules : BootRead(n, s) \/ BootSave(n, s) \/ BootSeed(n, s)

(***************************************************************************)
(* disable(), enable(), stop(), crashes                                    *)
(***************************************************************************)

(* The tick timer is cleared; the election goes on.                         *)
Disable(n) ==
  /\ Spend("disable")
  /\ engine[n] = "up"
  /\ engine' = [engine EXCEPT ![n] = "disabled"]
  /\ UNCHANGED <<def, clock, record, rewound, boot, admin>>
  /\ UNCHANGED electionVars /\ UNCHANGED runVars /\ UNCHANGED tickVars

(* No timer: enable() calls start(), which builds another LeaderElection.   *)
Enable(n) ==
  /\ engine[n] = "disabled"
  /\ engine' = [engine EXCEPT ![n] = "up"]
  /\ StartElection(n)
  /\ UNCHANGED <<def, clock, record, rewound, boot, admin, budget>>
  /\ UNCHANGED runVars /\ UNCHANGED tickVars

(* stop() clears the tick timer and resigns; ticks under way go on.         *)
Stop(n) ==
  /\ Spend("stop")
  /\ engine[n] \in {"up", "disabled"}
  /\ engine' = [engine EXCEPT ![n] = "stopping"]
  /\ Resign(n)
  /\ UNCHANGED <<def, clock, record, rewound, boot, admin>>
  /\ UNCHANGED runVars /\ UNCHANGED tickVars

(* The drain is over, or its time is: what is left in activeJobs is aborted *)
(* and unlocked.                                                            *)
Stopped(n) ==
  LET left == Registered(n)  ks == {run[r].key : r \in left} IN
  /\ engine[n] = "stopping" /\ ~resigning[n]
  /\ engine' = [engine EXCEPT ![n] = "stopped"]
  /\ run' = [r \in Runs |->
       IF r \in left THEN [run[r] EXCEPT !.active = FALSE, !.aborted = TRUE]
       ELSE run[r]]
  /\ Unlock(n, ks)
  /\ robbed' = robbed \cup Robs(n, ks, left)
  /\ UNCHANGED <<def, clock, record, rewound, raced, boot, admin, budget>>
  /\ UNCHANGED electionVars /\ UNCHANGED tickVars

Down(n) ==
  /\ engine' = [engine EXCEPT ![n] = "down"]
  /\ boot' = [boot EXCEPT ![n] = Booted]
  /\ admin' = IF admin.node = n THEN NoCall ELSE admin
  /\ LoseElection(n) /\ LoseRuns(n) /\ LoseTicks(n)
  /\ UNCHANGED <<def, clock, record, runLock, rewound, raced, robbed, initDone,
                 known, served, repeated, crowded>>

(* The signal handler exits once stop() is done.                            *)
Exit(n) == engine[n] = "stopped" /\ Down(n) /\ UNCHANGED budget

Crash(n) == Alive(n) /\ Spend("crash") /\ Down(n)

(***************************************************************************)
(* Operators                                                               *)
(***************************************************************************)

Serving(n) == engine[n] \in {"up", "disabled"}

(* pauseInstance(), resumeInstance() and upsert() read the record ...       *)
AdminRead(n, s, op) ==
  /\ Spend("admin")
  /\ Serving(n) /\ admin = NoCall
  /\ op = "pause" => record[s].kept /\ ~record[s].paused
  /\ op = "resume" => record[s].kept /\ record[s].paused
  /\ admin' = [op |-> op, node |-> n, item |-> {s}, snap |-> record[s]]
  /\ known' = [known EXCEPT ![n] = IF op = "upsert" THEN @ \cup {s} ELSE @]
  /\ UNCHANGED <<engine, def, clock, record, rewound, tick, initDone, served,
                 repeated, crowded, boot>>
  /\ UNCHANGED electionVars /\ UNCHANGED runVars

(* ... and write it back; an upsert computes the pointer anew.              *)
AdminWrite ==
  /\ \E s \in admin.item :
       CASE admin.op = "pause"  -> Save(s, [admin.snap EXCEPT !.paused = TRUE])
         [] admin.op = "resume" -> Save(s, [admin.snap EXCEPT !.paused = FALSE])
         [] admin.op = "upsert" ->
              /\ record' = [record EXCEPT ![s] =
                   [admin.snap EXCEPT !.kept = TRUE, !.next = NextRun(s, clock)]]
              /\ UNCHANGED rewound
  /\ admin' = NoCall
  /\ UNCHANGED <<engine, def, clock, boot, budget>>
  /\ UNCHANGED electionVars /\ UNCHANGED runVars /\ UNCHANGED tickVars

(* remove(): active runs of this process are aborted and dropped (only a    *)
(* guaranteed one is unlocked), the definition and the record deleted.      *)
Remove(n, s) ==
  LET gone == {r \in Registered(n) : run[r].key[1] = s}
      ks == {run[r].key : r \in {x \in gone : def[s].guaranteed}}
  IN
  /\ Spend("admin")
  /\ Serving(n) /\ s \in known[n]
  /\ run' = [r \in Runs |->
       IF r \in gone THEN [run[r] EXCEPT !.active = FALSE, !.aborted = TRUE]
       ELSE run[r]]
  /\ Unlock(n, ks)
  /\ robbed' = robbed \cup Robs(n, ks, gone)
  /\ known' = [known EXCEPT ![n] = @ \ {s}]
  /\ record' = [record EXCEPT ![s] = NoRecord]
  /\ UNCHANGED <<engine, def, clock, rewound, raced, tick, initDone, served,
                 repeated, crowded, boot, admin>>
  /\ UNCHANGED electionVars

(* triggerManual(): only the leader fires, and not what is paused.          *)
Trigger(n, s) ==
  /\ Spend("manual")
  /\ Serving(n) /\ isLeader[n] /\ s \in known[n] /\ ~record[s].paused
  /\ Fire(n, s, {clock})
  /\ UNCHANGED <<engine, def, clock, record, rewound, robbed, boot, admin>>
  /\ UNCHANGED electionVars /\ UNCHANGED tickVars

(***************************************************************************)
(* The cluster                                                             *)
(***************************************************************************)

Elapse ==
  /\ Spend("time")
  /\ clock < MaxTime
  /\ clock' = clock + 1
  /\ UNCHANGED <<engine, def, record, rewound, boot, admin>>
  /\ UNCHANGED electionVars /\ UNCHANGED runVars /\ UNCHANGED tickVars

Elections ==
  /\ LeaseExpires \/ LeaseLapses \/ \E n \in Nodes : ElectionStep(n)
  /\ UNCHANGED <<engine, def, clock, record, rewound, boot, admin>>
  /\ UNCHANGED runVars /\ UNCHANGED tickVars

RunProgress(r) ==
  /\ RunRegister(r) \/ RunEnds(r) \/ EnrichRead(r) \/ EnrichWrite(r)
  /\ UNCHANGED <<boot, admin, budget>>
  /\ UNCHANGED electionVars /\ UNCHANGED tickVars

RunLoss(r) ==
  /\ \/ HeartbeatLost(r) /\ UNCHANGED budget
     \/ StallDetected(r) /\ UNCHANGED budget
     \/ CancelRun(r)
     \/ \E n \in Nodes : DetectClusterStalls(n, r) /\ UNCHANGED budget
  /\ UNCHANGED <<boot, admin>>
  /\ UNCHANGED electionVars /\ UNCHANGED tickVars

Locks ==
  /\ \E k \in Keys : \/ RunLockExpires(k) /\ UNCHANGED budget
                     \/ RunLockLapses(k)
  /\ UNCHANGED <<boot, admin>>
  /\ UNCHANGED electionVars /\ UNCHANGED tickVars

TickLoop(t) ==
  /\ TickStep(t)
  /\ UNCHANGED <<boot, admin, budget>>
  /\ UNCHANGED electionVars

Next ==
  \/ Elapse \/ Elections \/ Locks \/ AdminWrite
  \/ \E r \in Runs : RunProgress(r) \/ RunLoss(r)
  \/ \E t \in Ticks : TickLoop(t)
  \/ \E n \in Nodes : \/ Boot(n) \/ Disable(n) \/ Enable(n) \/ Stop(n)
                      \/ Stopped(n) \/ Exit(n) \/ Crash(n)
  \/ \E n \in Nodes, s \in Schedules :
       \/ Remove(n, s) \/ Trigger(n, s)
       \/ \E op \in {"pause", "resume", "upsert"} : AdminRead(n, s, op)

Spec == Init /\ [][Next]_vars

(* Timers keep firing and awaited calls settle; a lease or lock nobody      *)
(* renews expires; a handler ends; an instance that is deployed boots, and  *)
(* one that has stopped exits.                                              *)
Fairness ==
  /\ WF_vars(Elapse)
  /\ WF_vars(AdminWrite)
  /\ WF_vars(Elections /\ LeaseExpires)
  /\ WF_vars(Locks /\ UNCHANGED budget)
  /\ \A n \in Nodes :
       /\ WF_vars(Elections /\ Campaign(n))
       /\ WF_vars(Elections /\ RenewFails(n))
       /\ WF_vars(Elections /\ CampaignReply(n))
       /\ WF_vars(Elections /\ Resigned(n))
       /\ WF_vars(Boot(n))
       /\ WF_vars(Stopped(n))
       /\ WF_vars(Exit(n))
       /\ WF_vars(\E t \in Ticks : TickLoop(t) /\ TickStart(t, n))
  /\ \A t \in Ticks :
       WF_vars(TickLoop(t) /\ ~\E n \in Nodes : TickStart(t, n))
  /\ \A r \in Runs :
       /\ WF_vars(RunProgress(r))
       /\ WF_vars(RunLoss(r) /\ \E n \in Nodes : DetectClusterStalls(n, r))

FairSpec == Spec /\ Fairness

(***************************************************************************)
(* Properties                                                              *)
(***************************************************************************)

(* Two engines work through ticks at the same time only if a live leader    *)
(* lost its lease or one of the two is past stop(): an answer that is late, *)
(* a failing adapter, disable() and enable() or a crash never let a second  *)
(* engine into the loop (the leader check at the top of tick()).            *)
Ticking(n) == \E t \in Ticks : tick[t].node = n
OneTickLoop ==
  ~lapsed => \A m, n \in Nodes :
    Ticking(m) /\ Ticking(n) /\ electing[m] /\ electing[n] => m = n

(* An occurrence is fired twice only when two ticks had listed the same     *)
(* pointer or a stale copy of the record moved the pointer back: crashes,   *)
(* failovers, missed-fire recovery, pauses and operator calls do not repeat *)
(* an occurrence ("Advance pointer BEFORE firing").                         *)
FiredOnce == \A p \in repeated : p[1] \in rewound \cup crowded

(* A schedule with overlap "skip" has one run at a time in the whole        *)
(* cluster, also while two engines both believe to be the leader, unless it *)
(* was fired again before the first fire registered or a live run's lock    *)
(* was lost (the run lock of fire()).                                       *)
Executing(s) == {r \in Runs : /\ run[r].pc = "running" /\ ~run[r].aborted
                              /\ run[r].key[1] = s}
SkipRunsAlone ==
  \A s \in Schedules :
    def[s].overlap = "skip" /\ s \notin raced \cup robbed
      => Cardinality(Executing(s)) <= 1

(* What the documentation says of overlap "skip", without exception.        *)
OverlapIsSkipped ==
  \A s \in Schedules :
    def[s].overlap = "skip" => Cardinality(Executing(s)) <= 1

(* An overdue schedule is served or moved on, whoever crashes or stops,     *)
(* unless no engine is left, one is disabled (it keeps the lease and does   *)
(* not tick) or one has forgotten the definition.                           *)
Overdue(s) == record[s].kept /\ record[s].next <= clock
Excused(s) ==
  \/ \A n \in Nodes : engine[n] \in {"new", "stopping", "stopped", "down"}
  \/ \E n \in Nodes : engine[n] = "disabled" \/ (Alive(n) /\ s \notin known[n])
OverdueIsServed ==
  \A s \in Schedules : Overdue(s) ~> (~Overdue(s) \/ Excused(s))

(* The job of a guaranteed run whose process died does not stay "running":  *)
(* some leader finds it (detectClusterStalls).                              *)
OrphansAreFailed ==
  \A r \in Runs :
    run[r].pc = "orphan" ~>
      (run[r].pc # "orphan" \/ \E s \in Schedules : Excused(s))
=============================================================================
