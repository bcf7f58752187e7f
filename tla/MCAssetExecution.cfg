\* One attempt against three steps of another program.
CONSTANT MaxEdits = 3
SPECIFICATION Spec
INVARIANTS
    OverwritesWhatItLoaded
    RemovesOnlyWhatItConverted
    OutputIsWhole
    MutationIsReported
    FailedLoadIsNotPacked
CHECK_DEADLOCK FALSE
