\* Two profiles, two runs of up to two failures, two threads that log.
CONSTANTS
    Mine = Mine
    Names <- MCNames
    Default = SSE
    NoRun = 0
    NoPath = NoPath
    FailureRows = {"f"}
    MaxFeedRows = 2
    Loggers = {t1, t2}
    Disks <- MCDisks
    MaxRuns = 2
    MaxFailures = 2
    Budgets <- MCBudgets
SPECIFICATION Spec
INVARIANTS
    LockedWindowShowsItsRun
CHECK_DEADLOCK FALSE
