SPECIFICATION Spec
CONSTANTS
    Procs = {p1, p2}
    None = None
    Sharers = {}
    OFFSET_MAX = 3
    Ranges <- ToEnd
    Areas <- OneByte
SYMMETRY Symmetry
INVARIANT Canonical
