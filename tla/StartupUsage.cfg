SPECIFICATION Spec
CONSTANTS
  Argv <- UpToThree
  Leftover = {0, 21845}
  Unopenable <- Bad
  BootFaults = {"bind"}
CHECK_DEADLOCK FALSE
INVARIANT UsageOrderIsServed
