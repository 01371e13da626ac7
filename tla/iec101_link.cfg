\* The repetitions of InitLink on a line without a fault and without a late answer.
SPECIFICATION Spec
CONSTANTS
  TrpMax = 3
  Values = 1
  Commands = 1
  Faults = 0
  Lates = 0
PROPERTIES LinkKept
CHECK_DEADLOCK FALSE
