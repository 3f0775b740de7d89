SPECIFICATION FairSpec
CONSTANTS
    Procs = {p1, p2, p3}
    NoProc = NoProc
    Permits = 1
    MaxExtra = 1
INVARIANTS
    Accounting
    Awake
PROPERTY NoIdleWait
