SPECIFICATION FairSpec
CONSTANTS
    Timers = {t1, t2}
    TVR_SIZE = 2
    TVN_SIZE = 2
    MaxDelay = 17
    MaxLag = 1
INVARIANT TypeOK
PROPERTIES
    WheelIsTimerSet
    TimerRuns
