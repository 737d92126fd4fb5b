SPECIFICATION PatternSpec
CONSTANTS
    Ids = {"a", "b", "c", "d", "e", "z"}
    Documents <- MCDocuments
    NoLimit = NoLimit
    MaxEdges = 2
    MaxLayerEdges = 4
    Calls <- MCCalls
    NoCall = NoCall
    BadId = BadId
    NotObject = NotObject
    MaxPatternItems = 2
INVARIANTS
    TypeOK
    ValidGraphRuns
    LayersExact
    CycleExact
    ReachabilityLeast
    PatternsSound
PROPERTIES
    CallsEnd
