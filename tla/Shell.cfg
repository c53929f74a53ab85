SPECIFICATION Spec
CONSTANTS
    None = None
    Discovery = {"plugins"}
    Settings = {"settings"}
    MaxTasks = 1
    Requests = {r1}
    Kinds = {"approval", "form", "unknown"}
    Offers <- MCOffers
    Decisions = {"accept", "decline"}
    Defaults = {"decline"}
    MaxReplies = 2
    TitleMenus = {"view"}
    Dropdowns = {"model"}
    Stored <- MCStored
    Presses <- MCPresses
CONSTRAINT PillsWithCards
INVARIANTS
    OneMenu
    NoGhostCard
    BusyCardsAnswer
