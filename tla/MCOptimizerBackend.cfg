\* Meshes that name one TGA of three places, Headpart Meshes under every level,
\* and one Texture of many shapes through four runs.
CONSTANTS
    Formats = {"rgba", "bgra", "rgb", "bc7", "bc1"}
    Block = {"bc7", "bc1"}
    NoAlpha = {"rgb"}
    Bgra = "bgra"
    Unpacked = "rgba"
    MaxDoublings = 5
    Worlds <- MCWorlds
    Order <- MCOrder
SPECIFICATION BackendSpec
INVARIANTS
    ReferencesResolve
    OwnFailureWithholds
    TexturesSettle
    DryRunForetells
CHECK_DEADLOCK FALSE
