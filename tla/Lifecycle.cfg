SPECIFICATION Spec
CONSTANTS
    Folder = {f1, f2}
    Restorer = {r1}
    Backer = {b1}
    Keep = 3
    MaxStamp = 2
    MaxWrites = 1
    Upload = {"rekall", "dangling", "old", "other", "torn"}
    Editor = {2, 3, 4}
    MaxAsked = 1
    MaxCalls = 3
    MaxVersion = 3
    MaxFaults = 3
    AnswerKept = 2
    FailureKept = 1
    MaxClock = 3
    Tree = {t1}
    MaxCommits = 2
    MaxMoves = 3
    MaxDowns = 1
    App = {"one", "two"}
    MaxRestarts = 1
    MaxRequests = 2
    MaxWork = 1
CHECK_DEADLOCK FALSE
INVARIANTS
      ShellsInv
PROPERTIES
    PreviousStateKept TreesKeep AttachedServerStays
