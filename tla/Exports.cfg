SPECIFICATION ExportsSpec
CONSTANTS
    Device = {d1}
    Archive = {a1}
    Media = {m1, m2}
    Readers = {r1, r2}
    Handlers = {h1}
    MaxReads = 1
    MaxAttempts = 2
    NoOne = NoOne
    NumParts = 2
    Callbacks = {x1}
    Overlap = FALSE
    Retriers = {k1, k2}
SYMMETRY Symmetry
INVARIANTS TypeOK SelectionsKept ArchivesSound
PROPERTIES PreparedUnderLease
CHECK_DEADLOCK FALSE
