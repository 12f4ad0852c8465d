SPECIFICATION PageSpec
CONSTANTS
    Requests = {r1, r2, r3, r4}
    None = None
    MaxActive = 2
    Faults = {"agent_error"}
    Restores = {x}
    SendUnrestored = FALSE
    ReloadWhileLoading = FALSE
INVARIANTS
    PageTypeOK
    ToolCalledAtMostOnce
    CompletedRunLeavesNoLooseArtifact
    ShownCardIsAwaited
PROPERTIES
    CardsKeepTheirPromise
    ApprovedCardSettles
    RunStops
