------------------------ MODULE MCArchiveFinalization ------------------------
(* A small instance of ArchiveFinalization for TLC: a Standard and a       *)
(* Textures Archive of one Mod Root, which share a Dummy Plugin name.      *)
EXTENDS ArchiveFinalization, TLC

CONSTANTS mesh, sound, texture, std, tex, mod, modTex, root1

MCFilesOf == std :> {mesh, sound} @@ tex :> {texture}
MCNamesOf == std :> {mod} @@ tex :> {mod, modTex}
MCDummyOf == [a \in {std, tex} |-> mod]
MCRootOf == [a \in {std, tex} |-> root1]
MCPluginRootOf == [n \in {mod, modTex} |-> root1]
Sources == Permutations({mesh, sound})

=============================================================================
