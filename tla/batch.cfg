SPECIFICATION FairSpec
CONSTANTS
  n1 = n1 n2 = n2 g1 = g1 g2 = g2 i1 = i1 i2 = i2 i3 = i3
  j1 = j1 j2 = j2 j3 = j3 c1 = c1 c2 = c2 r1 = r1 r2 = r2
  Nodes = {n1, n2}
  Groups = {g1, g2}
  Items = {i1, i2, i3}
  Jobs = {j1, j2, j3}
  Calls = {c1, c2}
  Runs = {r1, r2}
  GroupOf <- GroupOfItem
  DedupKey <- KeyOfItem
  MaxSize = 2
  Concurrency = 1
  MaxRetries = 1
  Settings <- BatchSettings
INVARIANTS NothingLost FlushedOnce
PROPERTIES OutcomeStands ItemsAreHandled
CHECK_DEADLOCK FALSE
