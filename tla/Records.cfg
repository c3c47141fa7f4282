SPECIFICATION Spec
CONSTANTS
    Company = {1, 2}
    Proj = {1, 2}
    Task = {1, 2, 3}
    Tag = {1}
    Name = {1, 2, 3}
    Fold <- MCFold
    Label = {"1", "2", "3", "One"}
    Slug <- MCSlug
    Placed = {1, 2}
    MaxMoves = 2
    Note = {n1, n2}
    OnTask = {t1, t2}
    InProject = {1, 2, 3}
    Owner <- MCOwner
    NoteTitle = {1}
    MaxNoteWrites = 3
    Page = {x1, x2, x3}
    OfPage = {1, 2}
    Heading = {1, 2, 3}
    Caseless <- MCFold
    MaxPageWrites = 4
    Worlds <- MCWorlds
    Requests <- MCRequests
    Values = {1, 2, 3, 4}
    MaxEdits = 1
    Wide = {"w"}
    Uppers <- MCUppers
    Lowers <- MCLowers
    CutTexts <- MCCut
    Needles <- MCNeedles
    BrokenTexts <- MCBroken
    CasedTexts <- MCCased
    Rank <- MCRank
    Texts <- MCTexts
    Component = {"w"}
    Known = {"v"}
    FlatTexts <- MCFlat
    Terms <- MCTerms
    Radius = 2
    PerKind = 2
    FoundRows <- MCRows
    SearchedIn = {0, 1}
    MaxSegments = 9
    MaxDepth = 4
    Trees <- MCTrees
    Disks <- MCDisks
    RecordedFolders <- MCRecorded
    Memory = {m1, m2}
    MaxMillis = 3
    MaxCalls = 4
    MaxSessionWrites = 2
    Library <- MCLibrary
    Memories <- MCMemories
    MinTerms = 2
    MinShared = 1
    CoveredTerms = 80
    CoveredPairs = 50
    TopicOverlap = 45
    TopicSimilarity = 15
CHECK_DEADLOCK FALSE
INVARIANTS
    CatalogInv  

    
