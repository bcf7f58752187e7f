\* Two Mod Roots, two Archives, two Assets.
CONSTANTS
    MaxRoots = 2
    MaxWork = 2
SPECIFICATION Spec
INVARIANTS
    EvidenceAccepts
    CompletionIsReal
PROPERTIES
    NothingAfterUnsafe
CHECK_DEADLOCK FALSE
