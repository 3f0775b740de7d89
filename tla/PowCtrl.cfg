SPECIFICATION FairSpec
CHECK_DEADLOCK FALSE
INVARIANTS
    TypeOK
    SafePowerOff
    LedRight
    PifReleased
    ObserverAlive
PROPERTIES
    RequestSticks
    HaltPowersOff
