SPECIFICATION RsvpSpec
CONSTANTS
    Households = {h1, h2}
    Names = {a, b, c}
    Slots = {}
    Capacity = 4
    Hosts = {k1, k2}
    Asks = {"create", "update", "correct", "archive", "opening", "close"}
    Workers = {}
    Devices = {}
    Tries = {1}
    Scheduled = FALSE
    NoHouse = NoHouse
    Some = {k3}
    Senders = {w1, w2}
    Family = {f1}
    Guest1 = {g1}
SYMMETRY Symmetry
INVARIANTS RosterKept
PROPERTIES GuestsRespected
CHECK_DEADLOCK FALSE
