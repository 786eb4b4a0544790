SPECIFICATION FairServiceSpec
CONSTANTS
    Arep = {1}
    Byte = {0}
    BUF_SIZE = 1
    EXAMPLE_INPUT_SIZE = 1
    EXAMPLE_OUTPUT_SIZE = 1
    MAX_STACKS = 2
    COUNT_CAP = 1
    MAX_CONSECUTIVE_ERRORS = 1
    RECOVERY_BACKOFF_BASE = 1
    RECOVERY_BACKOFF_MAX = 1
    MAX_RECOVERY_ATTEMPTS = 0
    WATCHDOG_PING = 1
    WATCHDOG_SEC = 2
    TickChoices = {1}
    CLOCK_MOD = 4
    ATTEMPT_CAP = 1
    GAP_CAP = 4
    DeviceMayFault = TRUE
    Signals = {"SIGINT", "SIGTERM"}
PROPERTIES
    ShutdownCompletes
    RecoveryProgress
    ImplementsService
