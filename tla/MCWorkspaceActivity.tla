------------------------- MODULE MCWorkspaceActivity -------------------------
EXTENDS WorkspaceActivity
CONSTANTS c1, c2
MCOwner == [c \in {c1, c2} |-> "staff"]
MCLogicalPaths == {<<"output", "f">>}
=============================================================================
