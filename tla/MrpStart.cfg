SPECIFICATION Spec
CONSTANTS
    MRP_UNIT_MAX = 2
    Lines = {i1, i2}
    Offset = {"base2"}
INVARIANTS
    HandlerReady
    UnloadFrees
    PifSettled
