\* The same instance, for what a comment says of the deletion of sources.
CONSTANTS
    mesh = mesh
    sound = sound
    texture = texture
    std = std
    tex = tex
    mod = mod
    modTex = modTex
    root1 = root1
    Nothing = Nothing
    Files = {mesh, sound, texture}
    Archives = {std, tex}
    Plugins = {mod, modTex}
    Roots = {root1}
    FilesOf <- MCFilesOf
    NamesOf <- MCNamesOf
    DummyOf <- MCDummyOf
    RootOf <- MCRootOf
    PluginRootOf <- MCPluginRootOf
    MaxEdits = 1
SPECIFICATION Spec
SYMMETRY Sources
INVARIANT DeletedOnceLoadable
CHECK_DEADLOCK FALSE
