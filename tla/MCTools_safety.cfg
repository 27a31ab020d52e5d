SPECIFICATION ToolsSpec
CONSTANTS
    old = old
    new = new
    Paths <- TwoPaths
    Existing <- JustOld
    MaxVerifyRetries = 3
    MaxToolPatches = 1
    MaxWrites = 8
    PatchIsLast = TRUE

    LogLives = 2
    LogAppends = 2
    Payloads <- MCPayloads
    Secret = "s"
    Mask = "m"
    Topic = {"tool.call", "old.topic"}
    Registered = {"tool.call"}
    RedactModes = {TRUE, FALSE}
    ShortWrites = TRUE

    Proc = {q1, q2}
    MaxSession = 1
    MaxTask = 2
    Outcomes = {"PAUSED", "DONE"}
    SharedResume = FALSE
    Absent = Absent
    Torn = Torn

    EntryNames = {"a", "b"}
    MaxEntries = 2
    MaxSnaps = 2
    NoName = NoName

    CheckedFiles = {"a.go", "n.md"}
    GoFiles = {"a.go"}
    VendorFiles = {"n.md"}
    Policies <- MCPolicies
    MaxVerifies = 2
    HashOf <- MCHash

    Words = {"ls", "rg", "rm", "dd", "curl", "sh", "eval", "x", "sudo", "timeout", "-u", "-rf",
             "-r", "--force", "-c", "--pre=x", "--", "w", ">", ">out", "A=1", "then", ";", "&",
             "$(x)"}
    MaxLine = 3

    GoalWords = {"fix", "explain", "please", ",", "and", "then", "/plan"}
    Verbs = {"fix"}
    Inquiries = {"explain"}
    Fillers = {"and", "then", "please"}
    Polite = {"please"}
    MaxGoal = 5

    u1 = u1
    u2 = u2
    Turns = {u1, u2}
    TurnRoles = {"coder", "tester", "planner"}

    TaskGoals = {"g1", "g2"}
    ModelTools = {"read", "ghost"}
    RoutableTools = {"read"}
    CallIds = {0, 1}
    MaxMessages = 6
    MaxTurns = 3
    MaxParallel = 2
    MaxReflections = 1

    PartPool <- MCParts
    MaxParts = 4
    Windows = {0, 2, 26, 40}
    SoftBudgets = {12, 40}
    GoalSize = 2
    MarkerSize = 3

    c1 = c1
    c2 = c2
    Callers = {c1, c2}
    Knobs <- MCKnobs
    MaxCounts = 4
    MaxClock = 2

    Rates <- MCRates
    PaidTools = {"bash", "grep"}
    MaxCalls = 2
    MaxCost = 3
    MaxResults = 3
    EventLogs = {TRUE, FALSE}

    ScopeTools = {"grep", "view_function", "edit_file", "bash", "patch"}
    GoalTypes = {"bugfix", "feature", "refactor"}
    MaxMoves = 3

    MemoryFiles = {"f"}
    Lessons = {"x", "y"}
    MaxInsights = 1
    ExecWindow = 1
    MaxMail = 3
    MaxUses = 1

    ToolCalls = {"bash", "edit", "rm"}
    Ask <- MCAsk
    AutoApprove = {}
    WatchedFiles = {"f"}

    Budget = 6
    Guarded = {TRUE, FALSE}

    q1 = q1
    q2 = q2
INVARIANTS
    TypesOK
    DiskSound
    DispatchesSound
    ChecksSound
    TurnsSound
    CostsSound
    ScopeSound
    WordsSound
PROPERTIES
    VerifiedIsKept
    PatchIsUndone
    NoFileIsLost
    FailedPatchLeavesTree
CHECK_DEADLOCK FALSE
