SPECIFICATION Spec
CONSTANTS
  n1 = n1
  n2 = n2
  s1 = s1
  t1 = t1
  t2 = t2
  r1 = r1
  r2 = r2
  r3 = r3
  Nodes = {n1, n2}
  Nobody = Nobody
  Budgets <- ClusterBudgets
  Scenarios <- Cluster
  Schedules = {s1}
  Runs = {r1, r2}
  Ticks = {t1, t2}
  Period = 1
  MaxTime = 2
  Definitions <- Defs
  MaxMissed = 2
  MisfireThreshold = 1
INVARIANTS
  OneLeader
  OneTickLoop
  
  SkipRunsAlone
SYMMETRY Symmetry
CHECK_DEADLOCK FALSE
