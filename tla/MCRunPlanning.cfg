\* Two volumes, up to two roots with work, two checks at once, and each way a
\* form, a profile or a mods directory can be refused.
CONSTANTS
    Dirs = {"vol", "mods", "a", "sub", "b"}
    Above <- MCAbove
    FileRoots = {"vol"}
    ModsDir = "mods"
    NameOrder <- MCNameOrder
    Separators = {"gamma_separator"}
    Ignored = {"ignored", "gamma_separator"}
    Reserved = {"cao_staging"}
    Unset = Unset
    Roots = {"mods", "a", "sub", "b"}
    v1 = v1
    v2 = v2
    Volumes = {v1, v2}
    Homes <- MCHomes
    Checkers = {k1, k2}
    Sizes = {0, 1}
    MaxBytes = 2
    MaxEstimates = 2
    Unknown = Unknown
    Unasked = Unasked
    NoRoot = NoRoot
    Forms <- MCForms
    Profiles <- MCProfiles
    Knowledge <- MCKnowledge
    Worlds <- MCWorlds
    Paths <- MCPaths
    MaxChecks = 2
SPECIFICATION Spec
INVARIANTS
    AdmittedWorkCompiles
    WindowShowsTheRun
    LedgerIsHonest
    RootsAreSafe
    FitsHasRoom
    ChargesItsVolume
CHECK_DEADLOCK FALSE
