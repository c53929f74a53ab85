\* A turn of the selected session fails: what the user is shown.
CONSTANTS
    Threads = {t1}
    NoThread = NoThread
    Mock = Mock
    Arriving <- MCArriving
    Histories <- MCHistories
    Endings = {"completed", "failed"}
    MaxItems = 3
    MaxTurns = 2
    MaxClicks = 1
    MaxMoves = 1
SPECIFICATION StreamSpec
CHECK_DEADLOCK FALSE
INVARIANTS
    FailureIsShown
