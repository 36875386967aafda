SPECIFICATION CoversSpec
CONSTANTS
    Requests = {r1, r2}
    SlotCount = 2
    StaleCalls = FALSE
    Puts = {p1}
    Masters = {m1, m2}
    MaxLive = 2
    RawCap = 1
    Inspectors = {i1, i2}
    NoOne = NoOne
SYMMETRY Symmetry
INVARIANTS   DraftsKept
 
CHECK_DEADLOCK FALSE
