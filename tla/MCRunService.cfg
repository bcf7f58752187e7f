\* One client thread and the workers of two runs, which call back.
CONSTANTS
    Clients = {c1}
    NoThread = NoThread
    MaxRuns = 2
SPECIFICATION FairSpec
INVARIANTS
    TerminalFreesTheSlot
    NoAbandonedRun
PROPERTIES
    EventOrder
    ServesOneRun
    CallsReturn
CHECK_DEADLOCK FALSE
