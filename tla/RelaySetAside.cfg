SPECIFICATION FairSpec
CONSTANTS
  RecordHeader = 5
  MessageHeader = 4
  SizeModulus = 32
  Scripts <- ShortFlight13
  ReadSize = 36
CHECK_DEADLOCK FALSE
PROPERTY SetAsideIsProcessed
