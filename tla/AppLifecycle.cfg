SPECIFICATION Spec
CONSTANTS
    Servers = {s1, s2}
    None = None
INVARIANTS
    TypeOK
    ReadyIsComplete
    ContextsAreClosed
    SessionsAreClosed
PROPERTIES
    ShutdownEnds
CHECK_DEADLOCK FALSE
