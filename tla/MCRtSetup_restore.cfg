SPECIFICATION Spec
CONSTANTS
    NCPU = 2
    Governor = {"powersave", "performance"}
    MayCrash = TRUE
INVARIANTS
    RestoreUndoesApply
    SchedulerIsRestored
    GovernorsStayKnown
    GoodReportIsEarned
