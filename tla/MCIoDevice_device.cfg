SPECIFICATION Spec
CONSTANTS
    Arep = {1, 2}
    Byte = {0, 1}
    BUF_SIZE = 2
    EXAMPLE_INPUT_SIZE = 1
    EXAMPLE_OUTPUT_SIZE = 1
    MAX_STACKS = 1
    COUNT_CAP = 1
INVARIANTS
    TypeOK
    InputCacheIsSent
    LifecycleCoherent
    RunningExchanges
    ActiveArepIsLive
PROPERTY ImplementsLifecycle
