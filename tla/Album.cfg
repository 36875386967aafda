SPECIFICATION AlbumSpec
CONSTANTS
    Sections = {s1}
    Links = {l1, l2}
    Sessions = {n1, n2}
    Hosts = {h1, h2}
    Guests = {g1, g2}
    MaxActive = 1
    NoLink = NoLink
    NoSession = NoSession
SYMMETRY Symmetry
INVARIANTS TypeOK LinkRespected AlbumKept
PROPERTIES AlbumRespected
CHECK_DEADLOCK FALSE
