SPECIFICATION FairSpec
CONSTANTS
    Media = {m1}
    LegacyMedia = {m1}
    Weight <- UnitWeight
    MaxCount = 1
    MaxBytes = 1
    Digests = {d1}
    LegacyDigest = d1
    NoBytes = NoBytes
    Requests = {w1}
    Passes = {p1}
    NoToken = NoToken
    MaxJobs = 1
    MaxAttempts = 2
PROPERTIES PhotosEnd PurgeEnds
CHECK_DEADLOCK FALSE
