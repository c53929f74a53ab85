\* Two sessions: turns that overlap, and an answer that streams while the user moves.
CONSTANTS
    Threads = {t1, t2}
    Turns = {u1, u2}
    None = None
    MaxChunks = 1
    MaxSends = 2
    MaxMoves = 2
    MaxLoads = 3
SYMMETRY Symmetry
ACTION_CONSTRAINTS
    FloorLeftAtOnce
    Scenarios
SPECIFICATION Spec
CHECK_DEADLOCK FALSE
INVARIANTS
    TypeOK
    BoundToSelection
    RunningIsReal
    CompletedAnswerIsWhole
