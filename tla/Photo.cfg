SPECIFICATION PairsSpec
CONSTANTS
    Media = {m1}
    LegacyMedia = {m1}
    Weight <- UnitWeight
    MaxCount = 1
    MaxBytes = 1
    Digests = {d1, d2}
    LegacyDigest = d1
    NoBytes = NoBytes
    Requests = {w1, w2}
    Passes = {p1, p2}
    NoToken = NoToken
    MaxJobs = 1
    MaxAttempts = 2
SYMMETRY Interchangeable
INVARIANTS TypeOK Integrity NoDanglingPhoto HeldSourceIntact
INVARIANTS Accounted
PROPERTY PhotosKeepPromise
CHECK_DEADLOCK FALSE
