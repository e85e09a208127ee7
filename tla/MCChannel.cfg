CONSTANTS
  ask = ask
  request = request
  versions = versions
  response = response
  None = None
  Long = {request}
  Frames = {ask, request, versions, response}
  SenderOf <- MCSenderOf
  TypeOf <- MCTypeOf
  LengthOf <- MCLengthOf
  AnswerTo <- MCAnswerTo
  SegmentSize = 2
  MinimalWindow = 2
  Window = 5
  AckSize = 1
  OptionsSize = 1
  AcknowledgeMinimalReadSize = 1
  MaxConnections = 2
SPECIFICATION FairSpec
CHECK_DEADLOCK FALSE
INVARIANTS
  WindowExact
  FramesInOrder
PROPERTIES
  FirstConnectionDelivers
