SPECIFICATION FairLoopSpec
CONSTANTS
    Workers = {exec, sensor, timer}
    Parsers = {sensor}
    NoWorker = NoWorker
    exec = exec
    sensor = sensor
    timer = timer
INVARIANTS
    ParseExcludesHandler
PROPERTIES
    ImplementsSyncCall
    PostedReturns
    LastWaiterReleased
\* After Run has returned every worker may have left DoLock for good.
CHECK_DEADLOCK FALSE
