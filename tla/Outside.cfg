SPECIFICATION Spec
CHECK_DEADLOCK FALSE
CONSTANTS
    MaxTime = 4
    CacheTtl = 2
    DegradedTtl = 1
    RateLimitHold = 2
    RetryAfter = {1, 3}
    ResetGrace = 1
    NoResetRecheck = 3
    UnreadableRecheck = 2
    Ceiling = 80
    QueueModel = "weekly_opus"
    Stored <- MCStored
    Account <- MCAccount
    Work = {"a"}
    Message = {"m"}
    Many = 2
    MaxLines = 2
    MaxSub = 1
    MaxTallies = 2
    Said <- MCSaid
    SubSaid <- MCSubSaid
    Path = {f, g}
    Content = {1, 2}
    Target <- MCTarget
    MaxEdits = 2
    MaxRows = 3
    SubjectMax = 12
    BodyWidth = 9
    BodyMax = 15
    Marker = 2
    TypePrefix = {5, 6, 11}
    Title <- MCTitle
    Markdown <- MCMarkdown
    Version <- MCVersion
    Unreadable <- MCUnreadable
    PostWord = {3}
    ReleaseWord = {4}
    Ranges <- MCRange
    Declared <- MCDeclared
    MaxDeclared = 3
    PerQuestion = 2
    Projects <- MCProjects
    Dependency = {"x1", "x2"}
    Advisory <- MCAdvisory
    FixTask = {"t", "u"}
    MaxScans = 2
    MaxWrites = 3
    Credential = {"v", "w"}
    CredCaller = {1, 2}
    MaxCredCalls = 4
    MaxStoreFaults = 1
    ComponentFolder = {"/a/api", "/b/api"}
    NameOf <- MCNameOf
    MaxComponents = 2
    Company = {"k", "l"}
    Home = "k"
    Connection = {1, 2}
    LabelOf <- MCLabelOf
    HostOf <- MCHostOf
    RootPath <- MCRoot
    Repositories <- MCRepositories
    MaxBindings = 2
    MaxConnectionWrites = 4
    Issue = {1, 2}
    Importer = {"i", "j"}
    MaxDeletions = 1
    Kubeconfigs <- MCKubeconfigs
    Narrowed = {"absent", "narrow"}
    Emails <- MCEmails
    Tokens <- MCTokens
INVARIANTS
    CommitsInv VulnInv   
PROPERTIES
    OutsideKeeps
