CONSTANTS
    c1 = c1
    c2 = c2
    x1 = x1
    x2 = x2
    e = e
    Clients = {c1}
    Cancellers = {x1}
    Executor = e
    BufferCap = 1
    MaxProgress = 1
    MayCrash = FALSE
    WriteMayFail = FALSE
    SharedLoads = FALSE
SPECIFICATION Spec
INVARIANTS
    StatusAfterDisconnect
CHECK_DEADLOCK FALSE
