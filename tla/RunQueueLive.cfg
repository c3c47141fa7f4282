SPECIFICATION LiveSpec
CONSTANTS
    t1 = t1
    t2 = t2
    Task = {t1}
    Item = {i1}
    Terminal = {x1, x2, x3}
    DependsOn <- Independent
    Steps = 2
    MaxPlaces = 1
    Chat = TRUE
    MaxFaults = 0
    MaxCrashes = 0
    None = None
INVARIANTS
    RunningStepHasSession
PROPERTIES
    NeverArmedInSilence NothingWaitsForever
