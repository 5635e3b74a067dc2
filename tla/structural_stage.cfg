CONSTANTS
    p1 = p1
    p2 = p2
    a = a
    b = b
    c = c
    u = u
    r = r
    h = h
    None = None
    Session = {p1, p2}
    Item = {a, b, c, u, r, h}
    Manifest <- MCManifest
    ContentOf <- MCContentOf
    KindOf <- MCKindOf
    MaxCrashes = 1
    MaxFailures = 1
SPECIFICATION FairSpec
CHECK_DEADLOCK FALSE
INVARIANTS
    SucceededIsStored
    ReportCovers
PROPERTIES
    SuccessIsReused
    ResumesCorrectly
