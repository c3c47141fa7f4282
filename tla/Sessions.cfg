SPECIFICATION Spec
CONSTANTS
    Id = {i1, i2}
    Caller = {c1, c2}
    Task = {t1}
    Released <- MCReleased
    MaxLive = 1
    Opening <- MCOpening
    Pane = {p1, p2}
    Capacity = 2
    MaxBytes = 5
    MaxRows = 3
    MaxKicks = 2
    Client = {w1}
    Request = {r1, r2}
    Buffer = 2
    Budget = 3
    FeedLimit = 2
    MaxEvents = 5
SYMMETRY Symmetry
CHECK_DEADLOCK FALSE
INVARIANTS
     PanesInv ChatInv
