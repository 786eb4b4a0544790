SPECIFICATION Spec
CONSTANTS
    Arep = {1}
    Byte = {0}
    BUF_SIZE = 1
    EXAMPLE_INPUT_SIZE = 1
    EXAMPLE_OUTPUT_SIZE = 1
    MAX_STACKS = 2
    COUNT_CAP = 2
    MAX_CONSECUTIVE_ERRORS = 2
    RECOVERY_BACKOFF_BASE = 1
    RECOVERY_BACKOFF_MAX = 3
    MAX_RECOVERY_ATTEMPTS = 2
    WATCHDOG_PING = 2
    WATCHDOG_SEC = 4
    TickChoices = {1}
    CLOCK_MOD = 7
    ATTEMPT_CAP = 3
    GAP_CAP = 7
    DeviceMayFault = TRUE
INVARIANTS
    TypeOK
    StacksAreReset
    BackoffTracksAttempts
    ThresholdIsPerDevice
    StatusIsTruthful
    LeavesOnlyWhenAsked
    RtIsRestored
    DeviceBehindFirewall
    SilenceIsBounded
