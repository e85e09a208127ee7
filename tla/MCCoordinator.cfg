SPECIFICATION Spec
CONSTANTS
  t1 = t1
  t2 = t2
  t3 = t3
  c1 = c1
  k1 = k1
  k2 = k2
  ToolServers <- MCToolServers
  Clients <- MCClients
  Coordinators <- MCCoordinators
  Deployments <- MCDeployments
  MaxConnects = 2
  MaxInfo = 2
  LatestSessionsSize = 1
  None = None
INVARIANTS
  EntriesAreOwned
  AnnouncedIsListed
  ClientsAreFresh
  ExactlyOneChosen
  FinishedIsNotActive
CHECK_DEADLOCK FALSE
