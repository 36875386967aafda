\* One legacy photo, trashed and restored, and one promoter pass, under the
\* fairness of clocks, storage and crons: docs/operations.md promises that the
\* scheduled promotion moves it.
SPECIFICATION FairSpec
CONSTANTS
    Media = {m1}
    LegacyMedia = {m1}
    Weight <- UnitWeight
    MaxCount = 1
    MaxBytes = 1
    Digests = {d1}
    LegacyDigest = d1
    NoBytes = NoBytes
    Requests = {}
    Passes = {p1}
    NoToken = NoToken
    MaxJobs = 0
    MaxAttempts = 2
PROPERTY LegacyPhotosMove
CHECK_DEADLOCK FALSE
