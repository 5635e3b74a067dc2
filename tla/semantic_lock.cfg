CONSTANTS
    None = None
    Sessions = 2
    Unit = {u1, u2}
    Prompt = {1, 2}
    MaxItems = 1
    Concurrency = 2
SPECIFICATION Spec
CHECK_DEADLOCK FALSE
PROPERTY LockedPointersStand
