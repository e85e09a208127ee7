SPECIFICATION Spec
CONSTANTS
  Commands <- RemovedFirst
  Sources <- MCSources
  Hosts <- MCHosts
INVARIANT SentNamesItsFiles
CHECK_DEADLOCK FALSE
