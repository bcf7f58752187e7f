---------------------------- MODULE MeshReferences ----------------------------
(***************************************************************************)
(* Mesh Reference Maintenance: which Texture names a Mesh gives up when    *)
(* TGA Textures become DDS, and which it keeps because that Texture's own  *)
(* conversion failed in this run.                                          *)
(*                                                                         *)
(* A path is its folders, outermost first and starting with the Mod Root,  *)
(* its stem and the rest of its name; case and separators are folded.  A   *)
(* reference is a path relative to some Data directory.                    *)
(***************************************************************************)
EXTENDS Sequences, SequencesExt

(* The endings of names that matter here: those of Assets, and one before  *)
(* the last.                                                               *)
Endings == {"tga", "dds", "tga.dds", "dds.dds", "nif", "btr", "bto", "hkx"}

References == [dir : Seq(STRING), stem : STRING, ext : Endings]

(* The rewrite finds ".tga" anywhere in a name, not only at its end.       *)
Rewritten == [ext \in {"tga", "tga.dds"} |-> IF ext = "tga" THEN "dds" ELSE "dds.dds"]

ContainsTga(reference) == reference.ext \in DOMAIN Rewritten

Replaced(reference) == [reference EXCEPT !.ext = Rewritten[@]]

(* Mutant: any Texture the reference may be the end of.                    *)
SameEnding(texture, reference, mesh) ==
  /\ texture.stem = reference.stem /\ texture.ext = reference.ext
  /\ IsSuffix(reference.dir, texture.dir)

(* What precedes the reference in the Texture's path is the Data directory *)
(* it was resolved against, and the Mesh must lie beneath it.              *)
NamesSameTexture(texture, reference, mesh) ==
  /\ texture.stem = reference.stem /\ texture.ext = reference.ext
  /\ IsSuffix(reference.dir, texture.dir)
  /\ IsPrefix(SubSeq(texture.dir, 1, Len(texture.dir) - Len(reference.dir)), mesh.dir)

Withholds(failed, reference, mesh) ==
  \E texture \in failed : NamesSameTexture(texture, reference, mesh)

(* The references a rewrite would replace.                                 *)
Eligible(references, failed, mesh) ==
  {r \in references : ContainsTga(r) /\ ~Withholds(failed, r, mesh)}

Maintained(references, failed, mesh) ==
  (references \ Eligible(references, failed, mesh))
    \cup {Replaced(r) : r \in Eligible(references, failed, mesh)}

(* Mutant: no failure is recorded.                                         *)
RecordNothing(failed, asset, result) == failed

(* A TGA that could not be removed once its DDS was committed safely is no *)
(* failed conversion.                                                      *)
RecordAttempt(failed, asset, result) ==
  IF \/ result.ok \/ ~asset.convertible
     \/ /\ result.failure = "SourceRemovalFailed"
        /\ result.mutation = "Committed" /\ result.safe
    THEN failed
    ELSE failed \cup {asset.path}
=============================================================================
