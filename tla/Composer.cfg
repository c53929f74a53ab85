SPECIFICATION Spec
CONSTANTS
    None = None
    Discovery = {"plugins"}
    Settings = {"settings"}
    MaxTasks = 2
    Sessions = {s1}
    Paths = {f1}
    MaxDrafts = 2
INVARIANTS
    SentOnce
    SentWhereShown
    MockIsStoppable
    BlockedBySend
PROPERTIES
    PromptReachesComposer
