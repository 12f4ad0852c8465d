SPECIFICATION Spec
CONSTANTS
    c1 = c1
    c2 = c2
    Conversations = {c1, c2}
    Requests = {r1, r2}
    Artifacts = {a1}
    None = None
    Owner <- MCOwner
    LogicalPaths <- MCLogicalPaths
    ShellPaths <- MCShellPaths
    Unplaceable = {c2}
    Retention = 1
    FaultKinds = {"outage", "rebuild", "restart", "database", "removal", "trespass"}
    MaxFaults = 1
INVARIANTS
    TypeOK
    OrphanOnlyWhenOvertaken
    DownloadsAreOutput
PROPERTIES
    RemovalIsLocal
    SweepRespectsRow
    ExpiredRowIsSwept
