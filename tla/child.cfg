\* A driver that is stopped and started, whose child ends, is killed, and survives the
\* death of monitor.exe.
SPECIFICATION Spec
CONSTANTS
  Threads = {1, 2}
  Children = {1, 2, 3, 4, 5}
  Exits = 1
  Kills = 1
  Failures = 1
  Crashes = 1
  Stops = 1
  EarlyStop = FALSE
INVARIANTS GivesUpOnlyOnFailure
PROPERTIES LineRecovers
CHECK_DEADLOCK FALSE
