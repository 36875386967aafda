SPECIFICATION EndingsSpec
CONSTANTS
    Parts = {1}
    Contents = {a}
    NoBytes = NoBytes
    Handlers = {h1}
    Execs = {x1}
    NoToken = NoToken
    ClientToken = ClientToken
    People = {n1}
PROPERTIES TransfersEnd ExportsEnd GuestsAreHeard
CHECK_DEADLOCK FALSE
