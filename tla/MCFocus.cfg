SPECIFICATION Spec
CONSTANT
    Starts <- MCStarts
INVARIANTS
    FocusShown
    FocusOnce
    LockCovered
CHECK_DEADLOCK FALSE
