SPECIFICATION Spec
CONSTANTS
    edit = edit
    bash = bash
    read = read
    fix = fix
    driver = driver
    owner = owner
    peer = peer
    Calls <- TwoCalls
    Gated <- TwoCalls
    Correction = fix
    Driver = driver
    Owner = owner
    Peers <- NoPeers
    Kinds <- YesPause
    MaxUser = 3
    MaxTurn = 1
    QueueCap = 3
    MaxVerifyRetries = 1
    HardErrors = FALSE
    CostCap = FALSE
    DiskFails = FALSE
    MayQuit = FALSE
    EarlyUser = FALSE
INVARIANT ApprovedByHuman
CHECK_DEADLOCK FALSE
