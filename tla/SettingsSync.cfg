SPECIFICATION Spec
CONSTANTS
    p1 = p1
    p2 = p2
    None = None
    ProviderIds <- MCProviderIds
    SessionFolders <- MCSessionFolders
    MaxEdits = 4
    MaxRestarts = 1
    MaxFailures = 1
CHECK_DEADLOCK FALSE
INVARIANTS
    SettingsAgree
    SlotFollowsStore
PROPERTIES
    SecretsSurvive
