CONSTANTS
    exhibit = exhibit
    report = report
    None = None
    Docs <- MCDocs
    Published <- MCPublished
    Final <- MCFinal
    AiAllowed <- MCAiAllowed
    Cutoff = {1, 2}
    MaxAttempts = 2
    MaxIngests = 2
    MaxReads = 2
    MaxClock = 2
SPECIFICATION Spec
CHECK_DEADLOCK FALSE
INVARIANTS
    BlindSeesReviewedOnly
    HandedIsAudited
    AuditorSeparates
    ClassifiedByCutoff
    SourcesHaveFiles
PROPERTY LockClosesSources
