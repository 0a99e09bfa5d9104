SPECIFICATION FairSpec
CONSTANTS
  n1 = n1
  n2 = n2
  j1 = j1
  j2 = j2
  r1 = r1
  r2 = r2
  Nodes = {n1}
  Jobs = {j1}
  Runs = {r1}
  Kind <- KindWorker
  MaxRetries = 0
  MaxStalled = 1
  MaxStalledScan = 1
  Concurrency = 1
  Foreign <- NoPairs
  Guaranteed = {j1}
  Gated = {}
  Timed = {}
  Discarding = {}
  Pruned = {}
  MaxFaults = 0
  Scanners = {n1}
  Reconcilers = {n1}
  MaxCancels = 0
  DelayedJobs = {}
  Mortal = {}
  Stopping = {}
  MaxCrashes = 0
  MaxLapses = 1
PROPERTIES
  EveryJobEnds
CHECK_DEADLOCK FALSE
