SPECIFICATION Spec
CONSTANTS
    edit = edit
    bash = bash
    read = read
    fix = fix
    driver = driver
    owner = owner
    peer = peer
    Calls <- MixedCalls
    Gated <- TwoCalls
    Correction = fix
    Driver = driver
    Owner = owner
    Peers <- NoPeers
    Kinds <- NoPause
    MaxUser = 3
    MaxTurn = 2
    QueueCap = 2
    MaxVerifyRetries = 1
    HardErrors = TRUE
    CostCap = TRUE
    DiskFails = TRUE
    MayQuit = TRUE
    EarlyUser = FALSE
INVARIANTS
    TypeOK
    ApprovedByHuman
    EndingsAgree
PROPERTIES
    TerminalIsFinal
    EndedStaysStill
CHECK_DEADLOCK FALSE
