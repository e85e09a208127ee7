SPECIFICATION Spec
CONSTANTS
  Commands <- MCCommands
  Sources <- MCSources
  Hosts <- MCHosts
INVARIANTS
  WritesWhatItShould
  SplitFailsOnlyAsWhole
CHECK_DEADLOCK FALSE
