CONSTANTS
  gcc = gcc
  t1 = t1
  t2 = t2
  t3 = t3
  VersionRequest = VersionRequest
  Tools <- MCTools
  RequiredTools <- MCTools
  ToolOf <- MCToolOf
  QueueLoads = {0}
  MaxBusyMine = 3
  VersionChecks = {TRUE, FALSE}
  Tasks = {t1, t2}
  ToolServers <- MCOneServer
  MaxClients = 1
  InvocationAttempts = 1
SPECIFICATION ReconnectSpec
INVARIANTS
  ResultBelongsToTask
PROPERTIES
  ImplementsInvocation
  EveryInvocationAnswered
