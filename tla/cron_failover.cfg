SPECIFICATION FairSpec
CONSTANTS
  n1 = n1
  n2 = n2
  s1 = s1
  t1 = t1
  t2 = t2
  r1 = r1
  r2 = r2
  r3 = r3
  Nodes = {n1, n2}
  Nobody = Nobody
  Budgets <- FailoverBudgets
  Scenarios <- Failover
  Schedules = {s1}
  Runs = {r1}
  Ticks = {t1}
  Period = 1
  MaxTime = 2
  Definitions <- Defs
  MaxMissed = 2
  MisfireThreshold = 1
PROPERTIES
  OverdueIsServed
  OrphansAreFailed
CHECK_DEADLOCK FALSE
