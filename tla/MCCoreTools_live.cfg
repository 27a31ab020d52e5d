SPECIFICATION CoreSpec
CONSTANTS
    edit = edit
    bash = bash
    read = read
    fix = fix
    driver = driver
    owner = owner
    peer = peer
    Calls <- TwoCalls
    Gated <- OneCall
    Correction = fix
    Driver = driver
    Owner = owner
    Peers <- NoPeers
    Kinds <- AllKinds
    MaxUser = 2
    MaxTurn = 1
    QueueCap = 2
    MaxVerifyRetries = 1
    HardErrors = TRUE
    CostCap = FALSE
    DiskFails = FALSE
    ToolCalls = {"bash", "edit"}
    Ask <- LiveAsk
    AutoApprove = {}
    WatchedFiles = {"f"}
    MayQuit = TRUE
    EarlyUser = FALSE
INVARIANTS
    PromptStands
    CancelIsOwned
PROPERTIES
    CancelReturns
    CancelIsRecorded
    AnswerTakesEffect
    DispatchReturns
CHECK_DEADLOCK FALSE
