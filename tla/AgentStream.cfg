SPECIFICATION Spec
CONSTANTS
    s1 = s1
    s2 = s2
    g1 = g1
    g2 = g2
    p1 = p1
    h1 = h1
    Calls = {s1, s2, g1, g2, p1, h1}
    ToolOf <- MCToolOf
    Gated = {"execute"}
    None = None
    MaxCalls = 3
    MaxBatch = 2
    MaxTokens = 1
INVARIANTS
    TypeOK
    ActivitiesFollowCalls
    ShownReplyIsStored
    UndecidedNeverRuns
CHECK_DEADLOCK FALSE
