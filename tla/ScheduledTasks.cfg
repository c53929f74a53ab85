SPECIFICATION Spec
CONSTANTS
    None = None
    Suggestions <- MCSuggestions
    PullRequests <- MCPullRequests
    MaxUses = 5
    MaxFailures = 2
CHECK_DEADLOCK FALSE
INVARIANTS
    ChangesAreKept
PROPERTIES
    OpenStays
    PageSettles
