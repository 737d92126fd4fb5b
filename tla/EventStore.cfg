SPECIFICATION FairSpec
CONSTANTS
    Calls = {c1, c2, c3}
    Settings <- SafeSettings
    MaxVersion = 1
    MaxCrashes = 1
    Earlier = c0
INVARIANTS
    TypeOK
    AcknowledgedStay
PROPERTIES
    NothingAfterDamage
    ImplementsStream
    EveryCallEnds
