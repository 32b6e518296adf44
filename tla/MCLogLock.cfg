SPECIFICATION FairLockSpec
CONSTANTS
    Workers = {exec, sensor}
    Updaters = {exec}
    Main = Main
    Nobody = Nobody
    exec = exec
    sensor = sensor
INVARIANTS
    ListStable
PROPERTY
    HolderReturns
\* A stuck UI thread is what KeyReturns is about; after ExitKey the loop ends.
CHECK_DEADLOCK FALSE
