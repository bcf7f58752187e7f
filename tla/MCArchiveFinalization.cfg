\* Two outputs in one Mod Root against one step of another program.
CONSTANTS
    mesh = mesh
    sound = sound
    texture = texture
    std = std
    tex = tex
    mod = mod
    modTex = modTex
    root1 = root1
    Nothing = Nothing
    Files = {mesh, sound, texture}
    Archives = {std, tex}
    Plugins = {mod, modTex}
    Roots = {root1}
    FilesOf <- MCFilesOf
    NamesOf <- MCNamesOf
    DummyOf <- MCDummyOf
    RootOf <- MCRootOf
    PluginRootOf <- MCPluginRootOf
    MaxEdits = 1
SPECIFICATION Spec
SYMMETRY Sources
INVARIANTS
    NothingPackedIsLost
    DeletesOnlyWhatLoads
    PrunesOnlyWhatIsSettled
CHECK_DEADLOCK FALSE
