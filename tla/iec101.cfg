\* Two values of each class, two commands, one frame lost or garbled and one answer that
\* comes late; every frame may be sent twice.
SPECIFICATION Spec
CONSTANTS
  TrpMax = 1
  Values = 2
  Commands = 2
  Faults = 1
  Lates = 1
INVARIANTS RepeatsBounded ConfirmedIsTaken
PROPERTIES ImplementsTransfer CommandsInOrder Drained
CHECK_DEADLOCK FALSE
