SPECIFICATION ActivitySpec
CONSTANTS
    c1 = c1
    c2 = c2
    Conversations = {c1, c2}
    Requests = {r1, r2}
    Artifacts = {a1}
    None = None
    Owner <- MCOwner
    LogicalPaths <- MCLogicalPaths
    ShellPaths = {}
    Unplaceable = {}
    Retention = 1
    FaultKinds = {}
    MaxFaults = 0
PROPERTY
    KeptSinceLastActivity
