SPECIFICATION FairSpec
CONSTANTS
  c1 = c1
  c2 = c2
  Client = {c1}
  Fd <- TwoFds
  Null = Null
  Listener <- ListenerFd
  MaxRx = 1
  EventsSize = 3
  Faults = {"refused"}
CHECK_DEADLOCK FALSE
PROPERTY RefusalNotAnswered
