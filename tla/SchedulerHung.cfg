SPECIFICATION HungSpec
CONSTANTS
    Nodes <- BesideNodes
    Edges <- BesideEdges
    Outputs <- BesideOutputs
    Sequence <- BesideSequence
    MaxAttempts <- BesideMaxAttempts
    Concurrency = 2
    AttemptLimit = 5
    Delayed = {"b"}
    Timed = {"a"}
    WithExecutor = {"h", "a", "b", "c", "d"}
    Ports = {}
    NoPort = "-"
PROPERTIES
    SlowSiblingHarmless
    Termination
