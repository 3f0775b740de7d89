SPECIFICATION Spec
CONSTANTS
    Procs = {p1, p2, p3}
    None = None
    Sharers = {}
    OFFSET_MAX = 3
    Ranges <- Inner
    Areas <- OneByte
SYMMETRY Symmetry
INVARIANTS
    SleepersListed
    Canonical
    NoCircle
    Compatible
PROPERTY ImplementsBytes
