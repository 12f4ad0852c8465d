SPECIFICATION RecoverySpec
CONSTANTS
    Servers = {s1}
    Callers = {a}
    Sessions = {c1, c2, c3}
    None = None
    Offers = {v1, partial}
    Incomplete = partial
    MaxRestarts = 1
PROPERTIES
    RecoversAfterOutage
