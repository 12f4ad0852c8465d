SPECIFICATION Spec
CONSTANTS
    Servers = {s1}
    Callers = {a, b}
    Sessions = {c1, c2, c3, c4}
    None = None
    Offers = {v1, v2, partial}
    Incomplete = partial
    MaxRestarts = 1
INVARIANTS
    TypeOK
    OneSessionPerServer
    StoredSessionIsOpen
    LeftIsLast
    LockHolderReplaces
    OutcomeAgreesWithAttempts
PROPERTIES
    ContractFrozen
    EveryCallEnds
