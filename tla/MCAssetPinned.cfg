\* The code comment on PinnedSource, taken at its word.
CONSTANT MaxEdits = 4
SPECIFICATION Spec
INVARIANT LoadedBytesArePinned
CHECK_DEADLOCK FALSE
