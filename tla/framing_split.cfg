SPECIFICATION Spec

CONSTANTS
    Header = 3
    Lengths <- Mixed

INVARIANTS
    FramesWhole

CHECK_DEADLOCK FALSE
