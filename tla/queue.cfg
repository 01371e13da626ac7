SPECIFICATION QueueSpec
CONSTANTS
  Producers = {p1, p2}
  Consumers = {c1}
  Capacity = 2
  Puts = 2
  Nobody = nobody
INVARIANTS PermitFindsMessage NotAbandoned StorageExclusive HandshakeExact
PROPERTIES CallsReturn Drained ImplementsFifo
CHECK_DEADLOCK FALSE
