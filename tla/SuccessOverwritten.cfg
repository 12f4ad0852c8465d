SPECIFICATION Spec
CONSTANTS
    Requests = {r1, r2}
    None = None
    MaxActive = 1
    Faults = {"disconnect"}
PROPERTIES
    SuccessIsFinal
