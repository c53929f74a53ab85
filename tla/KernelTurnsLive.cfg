\* Liveness of the kernel under the fairness of the runtime, no fairness of providers unless a property assumes it.
CONSTANTS
    Threads = {1, 2}
    Turns = {1, 2}
    Callers = {c1}
    None = None
    Providers = {http}
    Placeholders = {}
    MaxChunks = 0
SPECIFICATION FairSpec
ACTION_CONSTRAINTS
    IdsInOrder
    SessionsFirst
CHECK_DEADLOCK FALSE
PROPERTIES
    EveryTurnEnds
    InterruptStopsStream
