CONSTANTS
    BatchSize = 3
    MinHypotheses = 2
    MaxHypotheses = 3
    MaxTests = 2
    PageSize = 2
    None = None
    Anything = Anything
    World <- MCWorlds
SPECIFICATION Spec
CHECK_DEADLOCK FALSE
INVARIANTS
    LineageKept
    MergesAreIdentities
    AnswersPersist
    VerdictsGrounded
    BetterTestsNeverLower
    LeaderJustified
    SearchIsComplete
