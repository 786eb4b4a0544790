SPECIFICATION Spec
CONSTANTS
    Arep = {1}
    Byte = {0}
    BUF_SIZE = 1
    EXAMPLE_INPUT_SIZE = 1
    EXAMPLE_OUTPUT_SIZE = 1
    MAX_STACKS = 1
    COUNT_CAP = 5
    MAX_CONSECUTIVE_ERRORS = 5
    RECOVERY_BACKOFF_BASE = 1
    RECOVERY_BACKOFF_MAX = 30
    MAX_RECOVERY_ATTEMPTS = 0
    WATCHDOG_PING = 15
    WATCHDOG_SEC = 30
    TickChoices = {4, 15}
    CLOCK_MOD = 64
    ATTEMPT_CAP = 5
    GAP_CAP = 64
    DeviceMayFault = FALSE
INVARIANTS
    RecoveryNeverNeeded
    WatchdogIsFed
