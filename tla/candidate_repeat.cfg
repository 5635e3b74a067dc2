CONSTANTS
    u1 = u1
    u2 = u2
    u3 = u3
    u4 = u4
    Units <- MCUnits
    MaxSize = 2
    BatchSize = 3
    MaxFailures = 2
SPECIFICATION Spec
CHECK_DEADLOCK FALSE
PROPERTY RepeatProposesNothing
