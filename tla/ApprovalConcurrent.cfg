SPECIFICATION Spec
CONSTANTS
    Requests = {r1, r2, r3}
    None = None
    MaxActive = 2
    Faults = {"agent_error", "disconnect", "abandon"}
SYMMETRY Symmetry
INVARIANTS
    TypeOK
    StatusFollowsDecision
    ToolRunsOnlyAfterDecision
    NoOrphanedWork
    CompletedRunHasReply
    AttachedArtifactHasReply
