SPECIFICATION Spec
CONSTANTS
  n1 = n1
  n2 = n2
  j1 = j1
  j2 = j2
  r1 = r1
  r2 = r2
  Nodes = {n1, n2}
  Jobs = {j1, j2}
  Runs = {r1, r2}
  Kind <- KindQueue
  MaxRetries = 1
  MaxStalled = 1
  MaxStalledScan = 3
  Concurrency = 1
  Foreign <- OneForeign
  Guaranteed = {}
  Gated = {j2}
  Timed = {}
  Discarding = {j2}
  Pruned = {j2}
  MaxFaults = 1
  Scanners = {}
  Reconcilers = {}
  MaxCancels = 0
  DelayedJobs = {j2}
  Mortal = {n1, n2}
  Stopping = {n1, n2}
  MaxCrashes = 1
  MaxLapses = 0

  
PROPERTIES
  ImplementsLifecycle
SYMMETRY RunSymmetry
CHECK_DEADLOCK FALSE
