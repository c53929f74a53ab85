SPECIFICATION Spec
CONSTANTS
    repo = repo
    folder = folder
    market = market
    shelf = shelf
    dir = dir
    plugin = plugin
    Local = Local
    None = None
    Sources <- MCSources
    Cloned <- MCCloned
    Kept <- MCKept
    NameOf <- MCNameOf
    DirOf <- MCDirOf
    Offers <- MCOffers
    MaxUses = 3
    MaxVisits = 2
    MaxFailures = 1
    MaxCrashes = 1
CHECK_DEADLOCK FALSE
INVARIANTS
    FilesBehindRecords
    PersonalFollows
    NoLostMarket
    ShownIsCurrent
