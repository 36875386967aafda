SPECIFICATION BackfillSpec
CONSTANTS
    Jobs = {j1}
    Passes = {p1, p2}
    InFlight = 1
    PerMinute = 1
    Profiles = 1
    Hazards = {"replace", "pause", "error", "lookup", "call", "die", "delete", "unsupported"}
    Pair = {k1, k2}
    OnePass = {q1}
SYMMETRY Symmetry
INVARIANTS SettledKept BudgetsKept
PROPERTIES CoversRespected
CHECK_DEADLOCK FALSE
