SPECIFICATION EventSpec
CONSTANTS
    Digests = {d1}
    LegacyDigest = d1
    NoBytes = NoBytes
    NoToken = NoToken
    MaxJobs = 0
    MaxAttempts = 1
    None = None
    Hosts = {h1, h2}
    Phones = {phone}
    MaxGrants = 3
    Browsers = {b1, b2}
    Accounts = {a1, a2}
    NoAccount = NoAccount
    MaxRotations = 2
    Devices = {d1, d2}
    FirstPassword = FirstPassword
    NoPassword = NoPassword
    MaxCodes = 2
    CodeAttempts = 2
    Rows = {m1, m2}
    Passes = {p1, p2}
    NoPass = NoPass
    MaxSends = 2
    MaxLapses = 1
    Guests = {g}
    Requests = {r1, r2}
    Moderators = {h1}
    MaxKeys = 2
    SessionLimit = 2
    AddressLimit = 1
    NoteLimit = 2
INVARIANTS CapacityKept AccessKept  ScreensKept
PROPERTIES RequestsRespected 
CHECK_DEADLOCK FALSE
