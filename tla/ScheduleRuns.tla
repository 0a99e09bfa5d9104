---------------------------- MODULE ScheduleRuns ----------------------------
(***************************************************************************)
(* What the cron and schedule engines persist about a schedule, and the     *)
(* runs they start: fire() checks its own activeJobs, asks for a run lock,  *)
(* registers and executes; executeHandler() settles, releases and at last   *)
(* rewrites the schedule's record with the run's statistics.                *)
(***************************************************************************)
EXTENDS LeaderElection

CONSTANTS
  Schedules,   \* names of the schedules
  Runs,        \* activations (budget.runs of them at the same time)
  Period,      \* clock units between two occurrences
  MaxTime,     \* the clock stops here (a bound)
  Definitions  \* the definitions a schedule may have

Timings == {"expression", "interval", "runAt"}

ASSUME RunsAssumption ==
  /\ IsFiniteSet(Schedules) /\ IsFiniteSet(Runs)
  /\ Period \in Nat \ {0} /\ MaxTime \in Nat
  /\ Definitions \subseteq
       [engine : {"cron", "schedule"}, timing : Timings, runAt : 0..MaxTime,
        overlap : {"skip", "run"}, maxConcurrent : Nat, guaranteed : BOOLEAN,
        guarded : BOOLEAN, missedFire : {"skip", "run-once", "run-all"}]

(* Timestamps.  A null nextRunAt is never due, so it is later than all; a   *)
(* missing lastRunAt is earlier than all.                                   *)
Never == MaxTime + Period + 1
Unset == -1
Times == 0..Never

Records == [kept : BOOLEAN, next : Times, last : Times \cup {Unset},
            paused : BOOLEAN]
NoRecord == [kept |-> FALSE, next |-> Never, last |-> Unset, paused |-> FALSE]

(* The lock key of a run: the schedule alone when overlap is "skip", the    *)
(* schedule and the tick's time otherwise.                                  *)
Whole == -1
Keys == Schedules \X (0..MaxTime \cup {Whole})

VARIABLES
  engine,   \* life of an engine's process and timers
  def,      \* the definition every process was built with
  clock,    \* wall-clock time
  record,   \* the schedule records of the storage namespace
  run,      \* the activations
  runLock,  \* owner of every run lock; an expired one is Nobody
  rewound,  \* schedules a save moved back to an earlier occurrence (history)
  raced,    \* schedules fired again before the first fire registered (history)
  robbed    \* schedules of which a live run lost its lock (history)

runVars == <<run, runLock, raced, robbed>>

Alive(n) == engine[n] \in {"boot", "up", "disabled", "stopping", "stopped"}

NoRun == [pc |-> "off", node |-> Nobody, key |-> <<>>, active |-> FALSE,
          aborted |-> FALSE, snap |-> NoRecord]

RunPcs == {"granted", "running", "settled", "read", "orphan"}

RunsTypeOK ==
  /\ engine \in [Nodes -> {"new", "boot", "up", "disabled", "stopping",
                           "stopped", "down"}]
  /\ def \in [Schedules -> Definitions]
  /\ clock \in 0..MaxTime
  /\ record \in [Schedules -> Records]
  /\ run \in [Runs -> {NoRun} \cup
                [pc : RunPcs, node : Nodes, key : Keys, active : BOOLEAN,
                 aborted : BOOLEAN, snap : Records]]
  /\ runLock \in [Keys -> Nodes \cup {Nobody}]
  /\ rewound \subseteq Schedules /\ raced \subseteq Schedules
  /\ robbed \subseteq Schedules

(***************************************************************************)
(* Records                                                                 *)
(***************************************************************************)

(* Mutant: the occurrence at "from" itself counts as the next one.          *)
NextRunNotAfter(s, from) ==
  LET d == def[s] IN
  CASE d.timing = "expression" -> ((from + Period - 1) \div Period) * Period
    [] d.timing = "interval"   -> from + Period
    [] d.timing = "runAt"      -> IF d.runAt > from THEN d.runAt ELSE Never

(* computeNextRun(): an expression knows its grid, an interval counts from  *)
(* the moment it is asked, a runAt is over once it has passed.              *)
NextRun(s, from) ==
  LET d == def[s] IN
  CASE d.timing = "expression" -> (from \div Period + 1) * Period
    [] d.timing = "interval"   -> from + Period
    [] d.timing = "runAt"      -> IF d.runAt > from THEN d.runAt ELSE Never

(* storage.save(): the record is replaced as a whole.                       *)
Save(s, rec) ==
  /\ record' = [record EXCEPT ![s] = rec]
  /\ rewound' = IF rec.next < record[s].next THEN rewound \cup {s} ELSE rewound

(***************************************************************************)
(* fire()                                                                  *)
(***************************************************************************)

(* Mutant: the overlap policy is left out of the lock key.                  *)
KeyOfOccurrence(s, at) == <<s, at>>

KeyOf(s, at) == <<s, IF def[s].overlap = "skip" THEN Whole ELSE at>>

Registered(n) == {r \in Runs : run[r].node = n /\ run[r].active}

(* The checks of fire() against this process's own activeJobs.              *)
Busy(n, s, at) ==
  LET mine == Registered(n) IN
  \/ def[s].overlap = "skip" /\ \E r \in mine : run[r].key = KeyOf(s, at)
  \/ /\ def[s].maxConcurrent > 0
     /\ Cardinality({r \in mine : run[r].key[1] = s}) >= def[s].maxConcurrent

(* An activation that holds, or believes to hold, its lock.                 *)
Holds(r) == run[r].pc \in {"granted", "running"}

(* void fire(def, at) for every time in dates, in one synchronous burst: no *)
(* fire of the burst sees another one in activeJobs, and the lock lets its  *)
(* owner in again.                                                          *)
Fire(n, s, dates) ==
  LET granted == {at \in dates : /\ ~Busy(n, s, at)
                                 /\ runLock[KeyOf(s, at)] \in {Nobody, n}}
      pending(at) == \E r \in Runs : /\ run[r].node = n /\ run[r].pc = "granted"
                                     /\ run[r].key = KeyOf(s, at)
      free == {r \in Runs : run[r].pc = "off"}
      busy == Cardinality(Runs \ free)
      clash == \/ \E at \in granted : pending(at)
               \/ \E a, b \in granted : a # b /\ KeyOf(s, a) = KeyOf(s, b)
  IN \E started \in {f \in [granted -> free] :
                       \A a, b \in granted : f[a] = f[b] => a = b} :
       /\ Cardinality(granted) + busy <= budget["runs"]
       /\ run' = [r \in Runs |->
            IF \E at \in granted : started[at] = r
            THEN [NoRun EXCEPT !.pc = "granted", !.node = n,
                    !.key = KeyOf(s, CHOOSE at \in granted : started[at] = r)]
            ELSE run[r]]
       /\ runLock' = [k \in Keys |->
            IF \E at \in granted : KeyOf(s, at) = k THEN n ELSE runLock[k]]
       /\ raced' = IF clash THEN raced \cup {s} ELSE raced

(* The lock answered: activeJobs.set, the job is saved, the handler starts. *)
RunRegister(r) ==
  /\ run[r].pc = "granted"
  /\ run' = [run EXCEPT ![r].pc = "running", ![r].active = TRUE]
  /\ UNCHANGED <<engine, def, clock, record, runLock, rewound, raced, robbed>>

(***************************************************************************)
(* executeHandler()                                                        *)
(***************************************************************************)

(* lock.release(key, n): granted to the node, whichever run asks.           *)
Unlock(n, ks) ==
  runLock' = [k \in Keys |->
                IF k \in ks /\ runLock[k] = n THEN Nobody ELSE runLock[k]]

(* Live runs of a node, outside gone, that need one of the locks ks.        *)
Robs(n, ks, gone) ==
  {run[r].key[1] : r \in {x \in Runs \ gone :
     /\ Holds(x) /\ ~run[x].aborted /\ run[x].node = n
     /\ run[x].key \in ks /\ runLock[run[x].key] = n}}

(* The handler returned, threw for the last time or timed out: the outcome  *)
(* is saved, the lock released, the entry dropped.                          *)
RunEnds(r) ==
  LET n == run[r].node  k == run[r].key IN
  /\ run[r].pc = "running"
  /\ run' = [run EXCEPT ![r].pc = "settled", ![r].active = FALSE]
  /\ Unlock(n, {k})
  /\ robbed' = robbed \cup Robs(n, {k}, {r})
  /\ UNCHANGED <<engine, def, clock, record, rewound, raced>>

(* The statistics of the run: storage.get of the schedule's record ...      *)
EnrichRead(r) ==
  LET s == run[r].key[1] IN
  /\ run[r].pc = "settled"
  /\ run' = [run EXCEPT ![r] =
               IF record[s].kept
               THEN [@ EXCEPT !.pc = "read", !.snap = record[s]] ELSE NoRun]
  /\ UNCHANGED <<engine, def, clock, record, runLock, rewound, raced, robbed>>

(* Mutant: the activation is not cleaned up.                                *)
EnrichWriteLeaves(r) ==
  /\ run[r].pc = "read"
  /\ Save(run[r].key[1], run[r].snap)
  /\ run' = [run EXCEPT ![r].pc = "off"]
  /\ UNCHANGED <<engine, def, clock, runLock, raced, robbed>>

(* ... and storage.save of what was read, with the counters increased.      *)
EnrichWrite(r) ==
  /\ run[r].pc = "read"
  /\ Save(run[r].key[1], run[r].snap)
  /\ run' = [run EXCEPT ![r] = NoRun]
  /\ UNCHANGED <<engine, def, clock, runLock, raced, robbed>>

(***************************************************************************)
(* Locks that go away, and runs that are taken away                        *)
(***************************************************************************)

Held(k) == \E r \in Runs : /\ Holds(r) /\ run[r].key = k
                           /\ run[r].node = runLock[k]

(* The TTL of a lock passes after its holder is gone.                       *)
RunLockExpires(k) ==
  /\ runLock[k] # Nobody /\ ~Held(k)
  /\ runLock' = [runLock EXCEPT ![k] = Nobody]
  /\ UNCHANGED <<engine, def, clock, record, run, rewound, raced, robbed>>

(* The handler outlives lockTtlMs, or its heartbeats come too late.         *)
RunLockLapses(k) ==
  /\ Spend("lock")
  /\ runLock[k] # Nobody /\ Held(k)
  /\ runLock' = [runLock EXCEPT ![k] = Nobody]
  /\ robbed' = robbed \cup {k[1]}
  /\ UNCHANGED <<engine, def, clock, record, run, rewound, raced>>

(* HeartbeatWorker could not renew: the handler is told to abort.           *)
HeartbeatLost(r) ==
  /\ run[r].pc = "running" /\ run[r].active /\ ~run[r].aborted
  /\ def[run[r].key[1]].guaranteed /\ runLock[run[r].key] # run[r].node
  /\ run' = [run EXCEPT ![r].aborted = TRUE]
  /\ UNCHANGED <<engine, def, clock, record, runLock, rewound, raced, robbed>>

(* The engine's StallDetector finds a run whose lock is not its own: the    *)
(* job is saved as stalled, the handler aborted, the entry dropped.         *)
StallDetected(r) ==
  /\ run[r].pc = "running" /\ run[r].active
  /\ engine[run[r].node] = "up" /\ runLock[run[r].key] # run[r].node
  /\ run' = [run EXCEPT ![r].active = FALSE, ![r].aborted = TRUE]
  /\ UNCHANGED <<engine, def, clock, record, runLock, rewound, raced, robbed>>

(* cancelActiveJob(): abort, release, drop; the handler still has to end.   *)
CancelRun(r) ==
  LET n == run[r].node  k == run[r].key IN
  /\ Spend("admin")
  /\ run[r].pc = "running" /\ run[r].active
  /\ run' = [run EXCEPT ![r].active = FALSE, ![r].aborted = TRUE]
  /\ Unlock(n, {k})
  /\ robbed' = robbed \cup Robs(n, {k}, {r})
  /\ UNCHANGED <<engine, def, clock, record, rewound, raced>>

(* A process is gone.  The job record of a guaranteed run stays "running"   *)
(* until a leader finds it; that of another run stays so for good.          *)
LoseRuns(n) ==
  run' = [r \in Runs |->
    IF run[r].node # n \/ run[r].pc = "orphan" THEN run[r]
    ELSE IF run[r].pc = "running" /\ def[run[r].key[1]].guaranteed
    THEN [run[r] EXCEPT !.pc = "orphan", !.active = FALSE, !.aborted = TRUE]
    ELSE NoRun]
=============================================================================
