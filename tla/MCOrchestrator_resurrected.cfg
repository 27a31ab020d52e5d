SPECIFICATION Spec
CONSTANTS
    MaxTodo = 2
    Deps <- Backward
    Artifacts <- Apart
    Bound = 1
    MaxRework = 1
    QueueCap = 2
    Capped = {"coder"}
    Silent = FALSE
    LateErrors = FALSE
    Interrupts = FALSE
PROPERTY
    OutcomeIsFinal
CHECK_DEADLOCK FALSE
