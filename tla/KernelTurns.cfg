\* Safety of the kernel: two threads, two turns, one interrupting caller, one placeholder and one real provider.
CONSTANTS
    Threads = {t1, t2}
    Turns = {u1, u2}
    Callers = {c1}
    None = None
    Providers = {echo, http}
    Placeholders = {echo}
    MaxChunks = 1
SYMMETRY Symmetry
ACTION_CONSTRAINT SessionsFirst
SPECIFICATION Spec
CHECK_DEADLOCK FALSE
INVARIANTS
    TypeOK
    OneLiveTurnPerThread
    OneTurnPastTheGate
    HistoryIsCurrent
    AnswerIsPersisted
    CountersBalance
    EndedTurnIsAnnounced
PROPERTIES
    OldTurnIsSilent
    ImplementsProtocol
