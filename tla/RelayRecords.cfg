SPECIFICATION FairSpec
CONSTANTS
  RecordHeader = 5
  MessageHeader = 4
  SizeModulus = 32
  Scripts <- Records
  ReadSize = 36
CHECK_DEADLOCK FALSE
INVARIANT ReadIsSentOrHeld
INVARIANT DeliveredInOrder
INVARIANT WholeRecords
INVARIANT RecordsDoNoHarm
PROPERTY ExchangeCompletes
