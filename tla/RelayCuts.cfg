SPECIFICATION Spec
CONSTANTS
  RecordHeader = 2
  MessageHeader = 2
  SizeModulus = 32
  Scripts <- Cuts
  ReadSize = 36
CHECK_DEADLOCK FALSE
INVARIANT TypeOK
INVARIANT RequestServed
 
