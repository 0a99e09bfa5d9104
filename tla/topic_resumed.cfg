SPECIFICATION FairSpec
CONSTANTS
  n1 = n1 n2 = n2 s1 = s1 s2 = s2 k1 = k1 k2 = k2 t1 = t1
  t2 = t2 j1 = j1 j2 = j2 j3 = j3 g1 = g1
  g2 = g2 p1 = p1 p2 = p2
  m1 = m1 m2 = m2 q1 = q1 q2 = q2 NoOne = NoOne
  HookNodes = {n1, n2} HookJobs = {j1, j2} HookRuns = {r1, r2}
  HookMaxRetries = 1 HookThreshold = 2 HookHalfOpenMax = 1
  FlowJobs = {j1, j2, j3} FlowClients = {c1, c2} FlowEngines = {n1, n2}
  BrokerIds = {j1, j2} BrokerCallers = {s1, s2}
  KitNames = {m1, m2} KitCallers = {s1, s2} KitMaxBoots = 3
  StoreIds = {k1, k2} StoreSlots = {s1, s2} StoreMaxTime = 2
  ApiNames = {q1, q2} ApiJobs = {j1, j2, j3} ApiCallers = {s1, s2}
  CacheSettings <- NoSettings
  LimitSettings <- NoSettings
  HookSettings <- NoSettings
  TopicSettings <- TopicPaused
  BrokerSettings <- NoSettings
  FlowSettings <- NoSettings
  KitSettings <- NoSettings
  StoreSettings <- NoSettings
  ApiSettings <- NoSettings
  SeenSettings <- NoSettings
  BoxSettings <- NoSettings
CHECK_DEADLOCK FALSE
PROPERTIES
  ResumedIsDelivered
