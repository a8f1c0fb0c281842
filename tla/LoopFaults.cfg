SPECIFICATION Spec
CONSTANTS
  c1 = c1
  c2 = c2
  Client = {c1, c2}
  Fd <- ThreeFds
  Null = Null
  Listener <- ListenerFd
  MaxRx = 1
  EventsSize = 2
  Faults = {"getaddrinfo", "epoll_ctl", "connect", "send", "reset", "refused"}
CHECK_DEADLOCK FALSE
SYMMETRY ClientSymmetry
INVARIANT MapCoherent
INVARIANT EpollCoherent
INVARIANT ServerReady
PROPERTY ReleaseIsIsolated
PROPERTY EndsOnlyAtEndOfStream
PROPERTY RefinesLifecycle
