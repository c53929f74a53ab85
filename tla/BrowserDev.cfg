SPECIFICATION Spec
CONSTANTS
    None = None
    Tabs = {b1, b2}
    Home = b1
    Keys = {k1}
    Rows = {r1}
    ProviderIds = {p1, p2}
    Dotted = {p2}
    Threads = {t1, t2}
    Turns = {u1, u2}
    MaxPieces = 2
    MaxEdits = 2
    MaxReloads = 1
ACTION_CONSTRAINT Apart
CHECK_DEADLOCK FALSE
INVARIANTS
    MemoryIsStored
    ReplayMatchesEvents
PROPERTIES
    TurnsEnd
