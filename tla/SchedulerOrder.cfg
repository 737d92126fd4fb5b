SPECIFICATION Spec
CONSTANTS
    Nodes <- OrderNodes
    Edges <- OrderEdges
    Outputs <- OrderOutputs
    Sequence <- OrderSequence
    MaxAttempts <- OrderMaxAttempts
    Concurrency = 2
    AttemptLimit = 9
    Delayed = {}
    Timed = {}
    WithExecutor = {"p", "q", "r", "x", "y"}
    Ports = {}
    NoPort = "-"
PROPERTIES
    LaunchInDeclarationOrder
