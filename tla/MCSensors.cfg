SPECIFICATION FairSensorsSpec
CONSTANTS
    Fields <- MCFields
    Capacity = 4
    Metrics = 2
    Alloc = 1
    PipeRoom = 1
    MaxCrashes = 1
INVARIANTS
    MetricOnce
PROPERTIES
    KeepsMetrics
    CatchesUp
    StopCompletes
CHECK_DEADLOCK FALSE
