SPECIFICATION Spec
CONSTANTS
    s1 = s1
    s2 = s2
    Step = {s1, s2}
    End = End
    o1 = o1
    Outcome = {o1}
    PlanMax = 3
    RoutesMax = 2
    DraftsMax = 1
    Budgets = {0, 1}
    MaxVisits = 2
    MaxRoutes = 2
    Plans <- SentPlans
    Session = {x1}
    Checked = {s1, s2}
    File = {f1}
    MaxContents = 1
    Idle = Idle
CHECK_DEADLOCK FALSE
SYMMETRY Symmetry
INVARIANTS
    FlowInv CheckFindsChains
PROPERTIES
    MovesHold LineHolds 
