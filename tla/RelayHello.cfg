SPECIFICATION Spec
CONSTANTS
  RecordHeader = 5
  MessageHeader = 4
  SizeModulus = 32
  Scripts <- HelloOnly
  ReadSize = 36
CHECK_DEADLOCK FALSE
INVARIANT HelloReachesServer
