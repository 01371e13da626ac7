\* Two clients, two notifications, a death of the server and a client that leaves.  A
\* client that returns from Connect before its session is served is one whose session
\* has waited for a thread.
SPECIFICATION Spec
CONSTANTS
  Clients = {"monitor", "ui"}
  Sockets = 4
  optimalNumberOfThreads = 1
  Notes = 2
  Deaths = 1
  Leaves = 1
  Slow = 0
INVARIANTS PoolAccounted SomeoneServes OwnInOrder SameOrder
PROPERTIES Told Sent Returns
CHECK_DEADLOCK FALSE
