SPECIFICATION Spec
CONSTANTS
    Processes = {p1, p2}
    User = user
    Starts <- MCStarts
    MaxFaults = 1
    Nothing = Nothing
    Other = Other
INVARIANTS
    InitSound
PROPERTIES
    OnlyOwnRemoved
