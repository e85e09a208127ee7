SPECIFICATION Spec
CONSTANTS
  c1 = c1
  c2 = c2
  p1 = p1
  p2 = p2
  d1 = d1
  d2 = d2
  Clients <- MCClients
  Proxies <- MCProxies
  Dirs <- MCDirs
  Deployments <- MCDeployments
  None = None
INVARIANTS
  IdleMeansNoWork
  ExitCodeIsTrue
PROPERTIES
  ClientEnds
CHECK_DEADLOCK FALSE
