SPECIFICATION Spec
CONSTANTS
    Nodes <- JoinNodes
    Edges <- JoinEdges
    Outputs <- JoinOutputs
    Sequence <- JoinSequence
    MaxAttempts <- JoinMaxAttempts
    Concurrency = 2
    AttemptLimit = 4
    Delayed = {"a"}
    Timed = {"b"}
    WithExecutor = {"a", "b", "c", "r", "s"}
    Ports = {"p"}
    NoPort = "-"
INVARIANTS
    TypeOK
    DependencySafety
    ReadyExact
    RunComplete
    SlotAccounting
    NoLostWakeup
    AttemptBudget
    OutcomeFaithful
PROPERTIES
    FifoGrants
    ResultsFinal
    ImplementsLifecycle
