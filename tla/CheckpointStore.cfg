SPECIFICATION Spec
CONSTANTS
    Calls = {c1, c2, c3}
    Ids = {1, 2}
    Settings <- MCSettings
    MaxCrashes = 1
    Nothing = Nothing
    Damaged = Damaged
INVARIANTS
    CheckpointsSafe
PROPERTIES
    ImplementsMap
    CallsAnswered
