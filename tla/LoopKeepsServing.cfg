SPECIFICATION Spec
CONSTANTS
  c1 = c1
  c2 = c2
  Client = {c1, c2}
  Fd <- FourFds
  Null = Null
  Listener <- ListenerFd
  MaxRx = 1
  EventsSize = 4
  Faults = {}
CHECK_DEADLOCK FALSE
INVARIANT KeepsServing
