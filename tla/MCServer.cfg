CONSTANTS
  c1 = c1
  c2 = c2
  c3 = c3
  s1 = s1
  s2 = s2
  h1 = h1
  h2 = h2
  t1 = t1
  t2 = t2
  None = None
  Connections = {c1, c2, c3}
  Hosts = {h1, h2}
  HostOf <- MCHostOf
  WhiteLists <- MCWhiteLists
  Sessions = {s1, s2}
  SessionOf <- MCSessionOf
  Tasks = {t1, t2}
  ThreadCount = 2
SPECIFICATION FairSpec
CHECK_DEADLOCK FALSE
INVARIANTS
  Inv
  EveryClientHasWorker
  UsedThreadsExact
  RunningNotOverstated
PROPERTIES
  CalledBackOrLeftBehind
  EveryConnectionTaken
