SPECIFICATION Spec
CONSTANTS
    MAX_FW_RULES = 3
    Rule <- MCRule
    SCRIPT_SIZE = 14
    HEADER = 2
    FOOTER = 1
    LINE = 2
    MayFail = TRUE
    MayCrash = TRUE
    MaxApplies = 2
INVARIANTS
    HostHasAPrefix
PROPERTIES
    CleanAuditLeavesRoom
    ImplementsRuleList
