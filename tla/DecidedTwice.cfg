SPECIFICATION PageSpec
CONSTANTS
    Requests = {r1, r2, r3}
    None = None
    MaxActive = 2
    Faults = {}
    Restores = {x}
    SendUnrestored = FALSE
    ReloadWhileLoading = TRUE
PROPERTIES
    DecisionIsFinal
