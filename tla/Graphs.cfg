SPECIFICATION Spec
CONSTANTS
    Step = {s1, s2, s3, s4}
    End = End
    Outcome = {"done", "fail"}
    PlanMax = 3
    RoutesMax = 2
    DraftsMax = 1
    Budgets = {}
    MaxVisits = 1
    MaxRoutes = 2
    Plans = {}
    Graph = {1, 2}
    Project = {1, 2}
    Conn = {1}
    StepTitle = {10, 11, 12}
    ImplTitle = 10
    WorkTitle = {10, 11}
    DoneOutcome = "done"
    Sent <- MCSent
    MaxWrites = 4
    MaxWork = 2
    MaxLays = 1
    Skill = {1, 2}
    SkillsMax = 2
    MaxPapers = 5
CHECK_DEADLOCK FALSE
SYMMETRY Symmetry
INVARIANTS
    GraphsInv 
PROPERTIES
    LaysOn
