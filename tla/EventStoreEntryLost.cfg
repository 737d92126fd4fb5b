SPECIFICATION Spec
CONSTANTS
    Calls = {c1, c2, c3}
    Settings <- NewFilePower
    MaxVersion = 1
    MaxCrashes = 1
    Earlier = c0
INVARIANTS
    AcknowledgedStay
