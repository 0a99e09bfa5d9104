SPECIFICATION Spec
CONSTANTS
  n1 = n1
  n2 = n2
  j1 = j1
  j2 = j2
  r1 = r1
  r2 = r2
  Nodes = {n1, n2}
  Jobs = {j1}
  Runs = {r1, r2}
  Kind <- KindQueue
  MaxRetries = 1
  MaxStalled = 1
  MaxStalledScan = 3
  Concurrency = 1
  Foreign <- NoPairs
  Guaranteed = {j1}
  Gated = {}
  Timed = {j1}
  Discarding = {}
  Pruned = {}
  MaxFaults = 1
  Scanners = {}
  Reconcilers = {}
  MaxCancels = 1
  DelayedJobs = {}
  Mortal = {n1, n2}
  Stopping = {n1, n2}
  MaxCrashes = 1
  MaxLapses = 1
INVARIANTS
  TypeOK
  SingleCustody
  NoJobMislaid
  RetryBudget
  HandlersBeat
  RegistrationsLive
PROPERTIES
  OutcomeIsFinal
SYMMETRY NodeRunSymmetry
CHECK_DEADLOCK FALSE
