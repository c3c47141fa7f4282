SPECIFICATION CeilingSpec
CONSTANTS
    t1 = t1
    t2 = t2
    Task = {t1, t2}
    Item = {i1, i2}
    Terminal = {x1, x2}
    DependsOn <- Independent
    Steps = 1
    MaxPlaces = 2
    Chat = FALSE
    MaxFaults = 1
    MaxCrashes = 1
    None = None
INVARIANTS
    RunningItemIsWorked WorkerInv
