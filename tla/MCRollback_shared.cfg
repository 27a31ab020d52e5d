SPECIFICATION Spec
CONSTANTS
    old = old
    new = new
    Paths <- TwoPaths
    Existing <- JustOld
    MaxVerifyRetries = 1
    MaxToolPatches = 2
    MaxWrites = 4
    PatchIsLast = FALSE
PROPERTY
    VerifiedIsKept
CHECK_DEADLOCK FALSE
