\* Two clients on a server and a network without a fault.
SPECIFICATION Spec
CONSTANTS
  Clients = {"monitor", "ui"}
  Sockets = 3
  optimalNumberOfThreads = 8
  Notes = 2
  Deaths = 0
  Leaves = 0
  Slow = 0
INVARIANT OpenReturnsDescriptor
CHECK_DEADLOCK FALSE
