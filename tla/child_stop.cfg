\* The driver is stopped while its thread replaces a child that has ended.
SPECIFICATION Spec
CONSTANTS
  Threads = {1, 2}
  Children = {1, 2, 3}
  Exits = 1
  Kills = 0
  Failures = 0
  Crashes = 0
  Stops = 1
  EarlyStop = FALSE
INVARIANT StopEndsChildren
CHECK_DEADLOCK FALSE
