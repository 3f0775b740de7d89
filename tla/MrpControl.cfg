SPECIFICATION FairSpec
CONSTANTS
    Procs = {p1, p2}
    NoProc = NoProc
    Byte = {0, 1}
    NoByte = NoByte
    RingSize = 2
    IndexMod = 4
    MaxLen = 2
    Faults = TRUE
INVARIANTS
    TypeOK
    ReaderNotLost
PROPERTIES
    RingIsFifo
    HeldByte
    ByteTaken
