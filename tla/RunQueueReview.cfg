SPECIFICATION ReviewSpec
CONSTANTS
    t1 = t1
    t2 = t2
    Task = {t1}
    Item = {i1, i2}
    Terminal = {x1, x2, x3}
    DependsOn <- Independent
    Steps = 1
    MaxPlaces = 2
    Chat = FALSE
    MaxFaults = 0
    MaxCrashes = 0
    None = None
INVARIANTS
    OneSessionPerTask
PROPERTIES
    KeepsPromise
