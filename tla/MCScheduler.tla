----------------------------- MODULE MCScheduler -----------------------------
EXTENDS Scheduler, TLC
CONSTANTS n1, n2, s1, t1, t2, r1, r2, r3

Fleet(nodes, time, ticks, runs) ==
  [k \in BudgetKinds |->
     CASE k = "deploy" -> nodes [] k = "time" -> time [] k = "ticks" -> ticks
       [] k = "runs" -> runs [] OTHER -> 0]
With(fleet, faults) ==
  [k \in BudgetKinds |-> fleet[k] + (IF k \in faults THEN 1 ELSE 0)]

Cron(timing, overlap, guaranteed, missed) ==
  [engine |-> "cron", timing |-> timing, runAt |-> 0, overlap |-> overlap,
   maxConcurrent |-> 0, guaranteed |-> guaranteed, guarded |-> FALSE,
   missedFire |-> missed]
Sched(timing, overlap, guarded, missed) ==
  [engine |-> "schedule", timing |-> timing, runAt |-> 1, overlap |-> overlap,
   maxConcurrent |-> 1, guaranteed |-> FALSE, guarded |-> guarded,
   missedFire |-> missed]

D1 == Cron("expression", "skip", TRUE, "run-once")
D2 == Cron("interval", "run", FALSE, "run-all")
D3 == Sched("runAt", "skip", FALSE, "skip")
D4 == Sched("interval", "skip", TRUE, "run-once")
D5 == Sched("interval", "skip", FALSE, "skip")
D6 == Cron("expression", "skip", FALSE, "run-all")
Defs == {D1, D2, D3, D4, D5, D6}

Lane(fleet, faults, d) == <<With(fleet, faults), [s \in Schedules |-> d]>>
Cluster == {Lane(Fleet(2, 2, 1, 2), {"crash"}, D1),
  Lane(Fleet(2, 2, 1, 2), {"lapse"}, D1), Lane(Fleet(2, 1, 1, 2), {"stop"}, D1),
  Lane(Fleet(2, 1, 2, 1), {"lapse"}, D2), Lane(Fleet(2, 1, 1, 1), {"admin"}, D1),
  Lane(Fleet(1, 2, 1, 2), {"admin", "manual"}, D6),
  Lane(Fleet(2, 1, 1, 1), {"error", "disable", "stop"}, D3),
  Lane(Fleet(1, 2, 1, 2), {"lock", "admin"}, D1), Lane(Fleet(1, 2, 2, 2), {}, D2),
  Lane(Fleet(1, 2, 1, 1), {"crash"}, D4), Lane(Fleet(1, 2, 1, 1), {"crash"}, D5)}
Failover == {Lane(Fleet(2, 1, 1, 1), {"crash"}, D1),
  Lane(Fleet(2, 1, 1, 1), {"stop"}, D2), Lane(Fleet(2, 1, 1, 1), {"lapse"}, D3),
  Lane(Fleet(1, 1, 1, 1), {"error", "disable"}, D1),
  Lane(Fleet(1, 1, 1, 1), {"admin"}, D4)}
Recovery == {Lane(Fleet(1, 2, 1, 2), {}, D6)}
Of(scenarios) == {sc[1] : sc \in scenarios}
ClusterBudgets == Of(Cluster)
RecoveryBudgets == Of(Recovery)
FailoverBudgets == Of(Failover)
Symmetry == Permutations(Runs) \cup Permutations(Ticks) \cup Permutations(Nodes)
=============================================================================
