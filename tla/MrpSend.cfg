SPECIFICATION FairSpec
CONSTANTS
    Procs = {p1, p2}
    NoProc = NoProc
    MaxPkt = 2
    Sizes = {2}
    BadSizes = {3}
    Modes = {0, 1, 2}
    MayBlock = {"copy", "kmalloc"}
    RxDepth = 1
    MaxRx = 0
    MaxWrites = 2
    MaxTreset = 1
    MaxBoot = 1
INVARIANTS
    SendServed
    TxExclusive
    SentOnce
    ImageWhole
PROPERTIES
    WriteReturns
