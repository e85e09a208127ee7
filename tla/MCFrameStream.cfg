SPECIFICATION Spec
CONSTANTS
  Scripts <- MCScripts
  Services <- MCServices
  MaxServices = 1
  SegmentSize = 40
  Window = 42
  ByteOrder = 7
INVARIANTS
  FramesArriveAsSent
  ServicesCountOnce
CHECK_DEADLOCK FALSE
