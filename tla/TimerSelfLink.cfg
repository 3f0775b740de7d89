SPECIFICATION Spec
CONSTANTS
    Timers = {t1}
    TVR_SIZE = 2
    TVN_SIZE = 2
    MaxDelay = 1
    MaxLag = 1
INVARIANT NoSelfLink
