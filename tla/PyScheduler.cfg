SPECIFICATION FairSpec
CONSTANTS
    Nodes <- PyNodes
    Edges <- PyEdges
    Outputs <- PyOutputs
    Sequence <- PySequence
    MaxAttempts <- PyMaxAttempts
    Concurrency = 1
    AttemptLimit = 4
    Delayed = {"a"}
    Timed = {"b"}
    Sync = {"c", "r"}
    WithExecutor = {"a", "b", "c", "r"}
    Ports = {"p"}
    NoPort = "-"
INVARIANTS
    PermitsConserved
    OutcomeFaithful
PROPERTIES
    NoStartAfterCancel
    ImplementsLifecycle
    Termination
