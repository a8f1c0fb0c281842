SPECIFICATION Spec
CONSTANTS
  v1 = v1
  v2 = v2
  Conversation = {v1, v2}
  SeqModulus = 8
  IpModulus = 16
  PortModulus = 1
  MaxBytes = 3
  MaxRead = 2
  MaxEnds = 1
SYMMETRY Symmetry
CHECK_DEADLOCK FALSE
INVARIANT TypeOK
INVARIANT NumbersFollow
INVARIANT NothingMissing
INVARIANT ConversationsApart
