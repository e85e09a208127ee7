CONSTANTS
  gcc = gcc
  clang = clang
  Tools <- MCTools
  RequiredTools <- MCRequired
  ToolServers <- MCToolServers
  QueueLoads = {0, 3}
  MaxBusyMine = 2
SPECIFICATION BalancerSpec
INVARIANTS
  BalancerTypeOK
  ServersKnownOnce
  CachesFresh
  FullServerNotPreferred
