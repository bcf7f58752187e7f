------------------------- MODULE MCOptimizerBackend -------------------------
(* Small instances of OptimizerBackend for TLC. *)
EXTENDS OptimizerBackend

File(dir, stem, ext) == [dir |-> dir, stem |-> stem, ext |-> ext]
Reference(stem, ext) == [dir |-> <<"textures">>, stem |-> stem, ext |-> ext]

Tga(root) == File(root \o <<"textures">>, "a", "tga")
Dds(root) == File(root \o <<"textures">>, "a", "dds")
Mesh(root) == File(root \o <<"meshes">>, "x", "nif")
Face == File(<<"m1", "facegen">>, "y", "nif")
Terrain == File(<<"m1", "meshes">>, "t", "btr")
Inner == File(<<"m1", "textures">>, "b", "tga.dds")
Motion == File(<<"m1">>, "k", "hkx")
Lone == File(<<"m1", "textures">>, "c", "dds")
Menu == File(<<"m1", "interface">>, "c", "dds")

One == <<"m1">>
Two == <<"m2">>
Option == <<"m1", "opt">>

MCOrder == <<Motion, Face, Mesh(One), Terrain, Mesh(Option), Mesh(Two), Dds(One), Tga(One),
             Dds(Option), Tga(Option), Inner, Lone, Menu, Tga(Two), Dds(Two)>>

Square == [w |-> 4, h |-> 4, mips |-> 1, format |-> "rgba", cube |-> FALSE, opaque |-> FALSE]
Large == [Square EXCEPT !.w = 12, !.h = 12, !.cube = TRUE, !.opaque = TRUE]
Texture(image) == [image |-> image]
Nif(refs) == [refs |-> refs, sse |-> FALSE, valid |-> TRUE]

MCProfile == [supports |-> Capabilities, prefers |-> TRUE, extension |-> "bsa"]
SseProfile == [format |-> "bc7", unwanted |-> {"rgb"}, compressInterface |-> FALSE]
Textures(necessary, compress, mipmaps, resize) ==
  [necessary |-> necessary, compress |-> compress, mipmaps |-> mipmaps, resize |-> resize]
Plain == Textures(TRUE, FALSE, FALSE, Off)
MeshChoices(level, faces, resave) ==
  [level |-> level, headparts |-> faces, resave |-> resave, target |-> "SSE"]
NoPlugins == [p \in {} |-> {}]

(* Three places hold a TGA of one name; so do the Meshes that name it.      *)
Shared == {Reference("a", "tga")}
MeshFiles(roots, meshes) ==
  [p \in {Tga(r) : r \in roots} |-> Texture(Square)] @@ [p \in {Mesh(r) : r \in meshes} |-> Nif(Shared)]

MeshWorld(contents, modes, level) ==
  [files |-> contents, modes |-> modes, profile |-> SseProfile, textures |-> Plain, cancels |-> TRUE, faults |-> 2,
   meshes |-> MeshChoices(level, FALSE, FALSE), plugins |-> NoPlugins, custom |-> {},
   policy |-> Policy({"native", "standard"}, MCProfile)]

MeshWorlds ==
  {MeshWorld(MeshFiles({One, Option, Two} \ {r}, {One, Option, Two}), <<m, "Apply">>, 0) :
     r \in {One, Option, Two}, m \in {"Apply", "DryRun"}}
  \cup {MeshWorld(MeshFiles({One}, {One}) @@ (Dds(One) :> Texture(Square))
                    @@ (Inner :> Texture(Square)), <<"Apply", "Apply">>, 0)}

(* Two Meshes, plugins that name one, and every level.                      *)
HeadpartWorlds ==
  {[files |-> (Mesh(One) :> [refs |-> {Reference("b", "tga.dds")}, sse |-> s, valid |-> v])
                @@ (Face :> Nif({})) @@ (Motion :> [format |-> "win32"])
                @@ (Terrain :> Nif({})),
    modes |-> <<"DryRun", "Apply">>, profile |-> SseProfile, textures |-> Plain, cancels |-> TRUE, faults |-> 2,
    meshes |-> MeshChoices(l, h, r), custom |-> {[dir |-> <<"meshes">>, stem |-> "t"]},
    plugins |-> [p \in {"esp", "esm"} |-> IF p = "esp" THEN {GamePath(Mesh(One))} ELSE {}],
    policy |-> Policy(work, MCProfile)] :
      s \in BOOLEAN, v \in BOOLEAN, l \in 0 .. 3, h \in BOOLEAN, r \in BOOLEAN,
      work \in {{"standard", "animation"}, {"native", "standard", "terrain"}}}

(* One Texture, many images and choices: a Dry Run, then Apply three times. *)
MCImages ==
  {[w |-> s[1], h |-> s[2], mips |-> m, format |-> f, cube |-> c, opaque |-> c] :
     s \in {<<1, 1>>, <<2, 2>>, <<6, 6>>, <<8, 8>>, <<12, 12>>, <<16, 4>>, <<12, 24>>},
     m \in {1, 3}, f \in {"rgba", "bgra", "rgb", "bc7", "bc1"}, c \in BOOLEAN}

Size(w, h) == [kind |-> "size", w |-> w, h |-> h]
Ratio(w, h) == [kind |-> "ratio", w |-> w, h |-> h]

TextureWorlds ==
  {[files |-> (p :> Texture(i)), modes |-> <<"DryRun", "Apply", "Apply", "Apply">>,
    profile |-> [format |-> "bc7", unwanted |-> u, compressInterface |-> FALSE],
    textures |-> Textures(n, c, m, r), cancels |-> FALSE, faults |-> 0,
    meshes |-> MeshChoices(0, FALSE, FALSE), plugins |-> NoPlugins, custom |-> {},
    policy |-> Policy({"native"}, MCProfile)] :
      p \in {Lone, Menu}, i \in MCImages, u \in {{}, {"bgra", "bc1"}}, n \in BOOLEAN,
      c \in BOOLEAN, m \in BOOLEAN, r \in {Off, Size(4, 4), Size(6, 6), Ratio(2, 4)}}

(* A TGA is converted over the DDS beside it, before or after that DDS has  *)
(* its own attempt, for a profile that compresses and one that does not.    *)
PairWorlds ==
  {[files |-> (Tga(r) :> Texture(i)) @@ (Dds(r) :> Texture(j)),
    modes |-> <<"DryRun", "Apply", "Apply", "Apply">>, textures |-> Textures(TRUE, TRUE, m, Size(4, 4)),
    profile |-> [format |-> f, unwanted |-> {u}, compressInterface |-> FALSE],
    cancels |-> FALSE, faults |-> 1, meshes |-> MeshChoices(0, FALSE, FALSE),
    plugins |-> NoPlugins, custom |-> {}, policy |-> Policy({"native"}, MCProfile)] :
      r \in {One, Two}, i \in {Square, Large}, j \in {Square, Large, [Large EXCEPT !.format = "rgb"]},
      f \in {"bc7", "rgba"}, u \in {"rgb", "rgba"}, m \in BOOLEAN}

MCWorlds == MeshWorlds \cup HeadpartWorlds \cup TextureWorlds \cup PairWorlds
=============================================================================
