SPECIFICATION Spec
CONSTANTS
    Procs = {p1, p2}
    NoProc = NoProc
    MaxPkt = 2
    Sizes = {2}
    BadSizes = {3}
    Modes = {0}
    MayBlock = {}
    RxDepth = 2
    MaxRx = 2
    MaxWrites = 0
    MaxTreset = 1
    MaxBoot = 0
INVARIANTS
    ReadFits
