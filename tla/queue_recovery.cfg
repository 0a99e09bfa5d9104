SPECIFICATION FairSpec
CONSTANTS
  n1 = n1
  n2 = n2
  j1 = j1
  j2 = j2
  r1 = r1
  r2 = r2
  Nodes = {n1, n2}
  Jobs = {j1}
  Runs = {r1}
  Kind <- KindQueue
  MaxRetries = 0
  MaxStalled = 1
  MaxStalledScan = 2
  Concurrency = 1
  Foreign <- NoPairs
  Guaranteed = {}
  Gated = {}
  Timed = {}
  Discarding = {}
  Pruned = {j1}
  MaxFaults = 0
  Scanners = {n1}
  Reconcilers = {n1}
  MaxCancels = 0
  DelayedJobs = {}
  Mortal = {n2}
  Stopping = {}
  MaxCrashes = 1
  MaxLapses = 0
PROPERTIES
  EveryJobEnds
CHECK_DEADLOCK FALSE
