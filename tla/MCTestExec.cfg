SPECIFICATION FairSpec
CONSTANTS
    N = 2
    MaxCycles = 2
    MaxStarts = 2
INVARIANTS
    NoLostRun
    OneDone
    NoTestAfterStop
    RunComplete
PROPERTIES
    ExecutionOrder
    RunEnds
    QuitJoins
\* The program may wait for a key for ever, and ends when it is left.
CHECK_DEADLOCK FALSE
