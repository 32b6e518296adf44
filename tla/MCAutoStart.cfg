SPECIFICATION FairSpec
CONSTANTS
    Inis = {functional, stress}
    NoIni = NoIni
    functional = functional
    stress = stress
    Countdown = 3
    MaxPending = 2
    MaxLost = 1
    MaxOverdue = 2
INVARIANTS
    TimerOwned
    ShownIsLoaded
PROPERTY
    CountdownEnds
