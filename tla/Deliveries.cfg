SPECIFICATION PairsSpec
CONSTANTS
    Parts = {1}
    Contents = {a, b}
    NoBytes = NoBytes
    Handlers = {h1, h2}
    Execs = {x1, x2}
    NoToken = NoToken
    ClientToken = ClientToken
SYMMETRY Interchangeable
INVARIANTS TypeOK DeliveriesAgree BytesAccounted
CHECK_DEADLOCK FALSE
