SPECIFICATION Spec
CONSTANTS
    MaxTodo = 2
    Deps <- Backward
    Artifacts <- Apart
    Bound = 1
    MaxRework = 1
    QueueCap = 1
    Capped = {"coder", "reviewer", "tester"}
    Silent = TRUE
    LateErrors = TRUE
    Interrupts = TRUE
INVARIANTS
    TypeOK
    NobodyIsForgotten
    GreenIsEarned
    NilMeansGreen
CONSTRAINT
    OneLingers
CHECK_DEADLOCK FALSE
