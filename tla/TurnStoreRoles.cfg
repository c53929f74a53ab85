\* The comment on replayed history, against the code.
CONSTANTS
    Threads = {t1, t2}
    Turns = {u1}
    None = None
    MaxChunks = 1
    MaxSends = 1
    MaxMoves = 0
    MaxLoads = 2
SYMMETRY Symmetry
ACTION_CONSTRAINT FloorLeftAtOnce
SPECIFICATION Spec
CHECK_DEADLOCK FALSE
INVARIANT MessageKeepsItsRole
