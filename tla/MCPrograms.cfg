SPECIFICATION FairSpec
CONSTANTS
    Cores = 2
    MaxTasks = 2
    MaxPasses = 2
    MaxRounds = 1
    MaxLines = 2
    MaxTurns = 1
    MaxPings = 3
INVARIANTS
    OkMeansPassed
    OneVerdict
    SwapRestored
    MonitorHasObject
PROPERTIES
    ProgramEnds
CHECK_DEADLOCK FALSE
