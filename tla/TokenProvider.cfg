SPECIFICATION Spec
CONSTANTS
    Callers = {a, b}
    Nobody = Nobody
    TokenTtl = 4
    RefreshBefore = 2
    RequestTimeout = 1
    MaxReads = 2
    MaxTime = 9
INVARIANTS
    TypeOK
    HandedTokenIsValid
    FetchOnlyWhenStale
PROPERTIES
    WaiterIsServed
