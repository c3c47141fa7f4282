SPECIFICATION ListSpec
CONSTANTS
    t1 = t1
    t2 = t2
    Task = {t1, t2}
    Item = {i1, i2, i3}
    Terminal = {x1, x2}
    DependsOn <- OneDependsOnOther
    Steps = 1
    MaxPlaces = 2
    Chat = FALSE
    MaxFaults = 0
    MaxCrashes = 0
    None = None
INVARIANTS
    DensePositions

    
