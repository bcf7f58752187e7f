\* Two processes share a Mod Root; one sibling name at its top, one in a
\* subfolder that another program may occupy, one below the run child. No
\* symmetry, for liveness.
CONSTANTS
    r1 = r1
    r2 = r2
    Runs = {r1, r2}
    NoRun = NoRun
    Legacy = Legacy
    TopNames = {top}
    DeepNames = {deep}
    EntryNames = {entry}
    ForeignNames = {deep}
    MaxAttempts <- MCMaxAttempts
SPECIFICATION FairSpec
INVARIANTS
    EveryTemporaryIsNamed
    AbandonedStagingIsProvable
    ForeignEntriesSurvive
PROPERTIES
    KeepsPromise
    RunEnds
CHECK_DEADLOCK FALSE
