----------------------------- MODULE MCWorkspace -----------------------------
EXTENDS Workspace
CONSTANTS c1, c2
\* Both conversations belong to one member of staff.
MCOwner == [c \in {c1, c2} |-> "staff"]
MCLogicalPaths == {<<"output", "f">>, <<"output", "..", "work", "f">>}
\* A command that knows its way into the second conversation.
MCShellPaths == {Workspace(c2) \o <<"output", "f">>}
=============================================================================
