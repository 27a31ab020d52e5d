SPECIFICATION Spec
CONSTANTS
    MaxTodo = 3
    Deps <- Backward
    Artifacts <- Apart
    Bound = 2
    MaxRework = 1
    QueueCap = 1
    Capped = {}
    Silent = FALSE
    LateErrors = FALSE
    Interrupts = TRUE
PROPERTY
    ImplementsBoard
CONSTRAINT
    OneLingers
    LittleRework
CHECK_DEADLOCK FALSE
