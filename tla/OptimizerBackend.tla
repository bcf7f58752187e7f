-------------------------- MODULE OptimizerBackend --------------------------
(***************************************************************************)
(* Processing Assets over the production backend, run after run on the     *)
(* same Mod Selection: the backend made for the first Asset once the       *)
(* plugins are scanned for Headpart Meshes, then every Texture, every Mesh *)
(* and every Animation of the Routing Ledger, one attempt after another.   *)
(*                                                                         *)
(* An attempt is one action, whose every way to end is a choice; its steps *)
(* against a changing disk are AssetExecution's.  The folders are those of *)
(* the loose files, each path a record of MeshReferences.                  *)
(***************************************************************************)
EXTENDS AssetRouting, TextureOptimizer, MeshReferences

CONSTANTS
  Worlds,        \* what the user chose, the profile, the files found, and
                 \* bounds: the modes of the runs, the failures of all of
                 \* them (faults) and whether a run may be cancelled (cancels)
  Order          \* every path, in the order the Ledger lists them

LoosePaths == ToSet(Order)

Extension(path) == IF path.ext = "tga.dds" \/ path.ext = "dds.dds" THEN "dds" ELSE path.ext

TargetOf(path) ==
  [texture |-> "Texture", mesh |-> "Mesh", animation |-> "Animation"][BuiltIn[Extension(path)]]

OutputOf(path) == IF path.ext = "tga" THEN [path EXCEPT !.ext = "dds"] ELSE path

(* What a file holds, by what optimizes it.                                 *)
Contents ==
  [Texture |-> [image : Images],
   Mesh |-> [refs : SUBSET References, sse : BOOLEAN, valid : BOOLEAN],
   Animation |-> [format : {"win32", "amd64"}]]

ASSUME OrderAssumption ==
  /\ Order \in Seq(References) /\ IsInjective(Order)
  /\ \A p \in LoosePaths : Extension(p) \in DOMAIN BuiltIn /\ OutputOf(p) \in LoosePaths

ASSUME WorldsAssumption ==
  \A w \in Worlds :
    /\ DOMAIN w.files \subseteq LoosePaths
    /\ \A p \in DOMAIN w.files : w.files[p] \in Contents[TargetOf(p)]
    /\ w.modes \in Seq({"Apply", "DryRun"}) /\ w.modes # <<>>
    /\ w.profile \in Targets /\ w.textures \in TextureChoices
    /\ w.meshes \in [level : Levels, headparts : BOOLEAN, resave : BOOLEAN, target : {"SK", "SSE"}]
    /\ w.policy \in [work : SUBSET Works, converts : BOOLEAN, extension : STRING]
    /\ w.cancels \in BOOLEAN /\ w.faults \in Nat

VARIABLES
  world,         \* the chosen world: settings, profile and first files
  files,         \* the content of every loose file
  aside,         \* the Assets renamed because they could not be loaded
  run,           \* the number of the run
  step,          \* where the Run Worker stands
  left,          \* the Routed Assets not attempted yet
  cancelled,     \* the run's Cancellation Token
  plugins,       \* the plugins the headpart scan has still to read
  headparts,     \* the Headpart Meshes listed so far
  unreadable,    \* the plugins that could not be read
  diagnostics,   \* the Run Diagnostics retained
  made,          \* whether the run has its backend
  failed,        \* the run's failed Texture conversions
  converter,     \* whether hkxcmd.exe was found, once looked for
  said,          \* the result of each attempt of this run
  previous,      \* the run before: its mode, results and if nothing failed
  settling,      \* how often a Texture's attempt succeeded in Apply, since a
                 \* conversion last wrote it
  faults         \* the failures so far

backendVars == <<world, files, aside, run, step, left, cancelled, plugins, headparts,
          unreadable, diagnostics, made, failed, converter, said, previous,
          settling, faults>>

Mode == world.modes[run]
Apply == Mode = "Apply"

OperationsOf(path) == Operations(world.policy, Extension(path))

Converting(path) == "conversion" \in OperationsOf(path)

Routed == {p \in DOMAIN files : OperationsOf(p) # {}}

Rank == [Texture |-> 1, Mesh |-> 2, Animation |-> 3]

Place(path) == CHOOSE i \in DOMAIN Order : Order[i] = path

(* Textures first, so that a Mesh is attempted once every failed conversion *)
(* is known; of one kind, in the order of the Ledger.                       *)
Before(p, q) ==
  \/ Rank[TargetOf(p)] < Rank[TargetOf(q)]
  \/ TargetOf(p) = TargetOf(q) /\ Place(p) < Place(q)

IsNext(path) == path \in left /\ \A q \in left \ {path} : Before(path, q)

NothingSaid == [p \in {} |-> p]

NoRunYet == [mode |-> "none", clean |-> FALSE, said |-> NothingSaid]

BackendInit ==
  /\ world \in Worlds
  /\ files = world.files /\ aside = {} /\ run = 1 /\ step = "open" /\ left = {}
  /\ cancelled = FALSE /\ plugins = {} /\ headparts = {} /\ unreadable = {}
  /\ diagnostics = {} /\ made = FALSE /\ failed = {} /\ converter = "unlooked"
  /\ said = NothingSaid /\ previous = NoRunYet
  /\ settling = [p \in LoosePaths |-> 0] /\ faults = 0

-----------------------------------------------------------------------------
(* The loop over the Ledger.                                                *)

(* The Ledger is frozen when the phase opens.                               *)
OpenProcessing ==
  /\ step = "open"
  /\ step' = "head" /\ left' = Routed
  /\ UNCHANGED <<world, files, aside, run, cancelled, plugins, headparts, unreadable,
                 diagnostics, made, failed, converter, said, previous, settling, faults>>

RequestCancellation ==
  /\ step # "over" /\ ~cancelled /\ world.cancels
  /\ cancelled' = TRUE
  /\ UNCHANGED <<world, files, aside, run, step, left, plugins, headparts, unreadable,
                 diagnostics, made, failed, converter, said, previous, settling, faults>>

(* Cancellation is seen before each attempt and after the last.             *)
EndLoop ==
  /\ step = "head" /\ (cancelled \/ left = {})
  /\ step' = "over"
  /\ UNCHANGED <<world, files, aside, run, left, cancelled, plugins, headparts, unreadable,
                 diagnostics, made, failed, converter, said, previous, settling, faults>>

(* The first Asset makes the backend; only the necessary level and above    *)
(* need the Headpart Meshes.                                                *)
NextAsset ==
  /\ step = "head" /\ ~cancelled /\ left # {}
  /\ step' = IF made THEN "attempt" ELSE "create"
  /\ IF ~made /\ world.meshes.level >= Necessary
       THEN plugins' = DOMAIN world.plugins /\ headparts' = world.custom
       ELSE UNCHANGED <<plugins, headparts>>
  /\ UNCHANGED <<world, files, aside, run, left, cancelled, unreadable, diagnostics,
                 made, failed, converter, said, previous, settling, faults>>

(* A plugin that cannot be read names no Headpart Mesh; the scan goes on.   *)
ScanPlugin(p) ==
  /\ step = "create" /\ p \in plugins /\ ~cancelled
  /\ plugins' = plugins \ {p}
  /\ \/ headparts' = headparts \cup world.plugins[p] /\ UNCHANGED <<unreadable, faults>>
     \/ /\ faults < world.faults /\ faults' = faults + 1
        /\ unreadable' = unreadable \cup {p} /\ UNCHANGED headparts
  /\ UNCHANGED <<world, files, aside, run, step, left, cancelled, diagnostics,
                 made, failed, converter, said, previous, settling>>

CancelScan ==
  /\ step = "create" /\ plugins # {} /\ cancelled
  /\ step' = "over"
  /\ UNCHANGED <<world, files, aside, run, left, cancelled, plugins, headparts, unreadable,
                 diagnostics, made, failed, converter, said, previous, settling, faults>>

(* The attempt follows at once: cancellation is not looked at again.        *)
MakeBackend ==
  /\ step = "create" /\ plugins = {}
  /\ step' = "attempt" /\ made' = TRUE
  /\ diagnostics' = diagnostics \cup unreadable
  /\ UNCHANGED <<world, files, aside, run, left, cancelled, plugins, headparts, unreadable,
                 failed, converter, said, previous, settling, faults>>

-----------------------------------------------------------------------------
(* Results of attempts.                                                     *)

Succeeded(changed) ==
  [ok |-> TRUE, changed |-> changed, failure |-> "none",
   mutation |-> IF changed /\ Apply THEN "Committed" ELSE "None", safe |-> TRUE]

Failed(failure, mutation, safe) ==
  [ok |-> FALSE, changed |-> FALSE, failure |-> failure, mutation |-> mutation, safe |-> safe]

(* An exception, of nifly or of a backend that could not be made, cannot    *)
(* say what it left behind.                                                 *)
BackendException == Failed("BackendException", "PartialOrUnknown", FALSE)

AssetOf(path) == [path |-> path, convertible |-> Converting(path)]

With(f, x, value) == [y \in DOMAIN f \cup {x} |-> IF y = x THEN value ELSE f[y]]

Without(f, x) == Restrict(f, DOMAIN f \ {x})

(* The backend is notified before Quarantine; an attempt that is not safe   *)
(* ends the phase.                                                          *)
Record(path, result) ==
  /\ said' = With(said, path, result)
  /\ failed' = RecordAttempt(failed, AssetOf(path), result)
  /\ left' = left \ {path}
  /\ faults' = faults + IF result.ok THEN 0 ELSE 1
  /\ faults' <= world.faults

Continue(result) == step' = IF result.safe THEN "head" ELSE "over"

(* A Texture or Mesh that cannot be loaded is renamed in Apply; if that     *)
(* fails the run must not go on to pack it.                                 *)
FailLoad(path) ==
  LET result == Failed("LoadFailed", "None", TRUE)
  IN /\ Record(path, result)
     /\ \/ Apply /\ files' = Without(files, path) /\ aside' = aside \cup {path} /\ step' = "head"
        \/ UNCHANGED <<files, aside>> /\ step' = IF Apply THEN "over" ELSE "head"

(* A step before the publication fails and nothing on disk changed.         *)
FailBefore(path, failure) ==
  LET result == Failed(failure, "None", TRUE)
  IN Record(path, result) /\ Continue(result) /\ UNCHANGED <<files, aside>>

(* The destination was replaced, but its Temporary Ownership not released.  *)
FailRelease(path, written) ==
  LET result == Failed("PublicationFailed", "Committed", FALSE)
  IN Record(path, result) /\ Continue(result) /\ files' = written /\ UNCHANGED aside

FailCreation(path) ==
  /\ step = "create" /\ plugins = {} /\ IsNext(path)
  /\ diagnostics' = diagnostics \cup unreadable
  /\ said' = With(said, path, BackendException)
  /\ faults < world.faults /\ faults' = faults + 1
  /\ left' = left \ {path} /\ step' = "over"
  /\ UNCHANGED <<world, files, aside, run, cancelled, plugins, headparts, unreadable,
                 made, failed, converter, previous, settling>>

Unattempted == UNCHANGED <<world, run, cancelled, plugins, headparts, unreadable,
                           diagnostics, made, previous>>

-----------------------------------------------------------------------------
(* One Texture.                                                             *)

VariantOf(path) == IF path.ext = "tga" THEN "convertible" ELSE "native"

IsInterface(path) == Contains(path.dir, "interface")

RequestOf(path) == TextureRequest(OperationsOf(path), world.textures, files[path].image)

OptimizeTexture(path) ==
  Optimized(files[path].image, VariantOf(path), IsInterface(path), world.profile, RequestOf(path))

TextureWouldChange(path) ==
  \/ WouldChange(Plan(files[path].image, VariantOf(path), IsInterface(path), world.profile,
                      RequestOf(path)))
  \/ Converting(path)

(* A conversion always writes a DDS, then removes its verified source.      *)
TextureChanges(path) ==
  IF Apply THEN OptimizeTexture(path).modified \/ Converting(path)
           ELSE TextureWouldChange(path)

WrittenTexture(path) ==
  With(files, OutputOf(path), [image |-> OptimizeTexture(path).image])

AttemptTexture(path) ==
  LET convert == Converting(path)
      changed == TextureChanges(path)
      written == WrittenTexture(path)
      anew == IF convert THEN [settling EXCEPT ![OutputOf(path)] = 0] ELSE settling
      succeed == Record(path, Succeeded(changed)) /\ step' = "head" /\ UNCHANGED aside
      keepSource(result) ==
        /\ Record(path, result) /\ Continue(result) /\ files' = written /\ settling' = anew
        /\ UNCHANGED aside
  IN /\ step = "attempt" /\ IsNext(path) /\ TargetOf(path) = "Texture"
     /\ \/ /\ ~(Apply /\ changed) /\ succeed /\ UNCHANGED files
           /\ settling' = [settling EXCEPT ![path] = @ + IF Apply THEN 1 ELSE 0]
        \/ /\ Apply /\ changed
           /\ \/ /\ succeed /\ files' = IF convert THEN Without(written, path) ELSE written
                 /\ settling' = [anew EXCEPT ![path] = @ + 1]
              \/ FailBefore(path, "SaveFailed") /\ UNCHANGED settling
              \/ FailRelease(path, written) /\ settling' = anew
              \/ convert /\ keepSource(Failed("SourceRemovalFailed", "Committed", TRUE))
              \/ convert /\ keepSource(Failed("SourceRemovalFailed", "PartialOrUnknown", FALSE))
        \/ Apply /\ FailBefore(path, "OperationFailed") /\ UNCHANGED settling
        \/ FailLoad(path) /\ UNCHANGED settling
     /\ Unattempted /\ UNCHANGED converter

-----------------------------------------------------------------------------
(* One Mesh.                                                                *)

GamePath(path) == [dir |-> Tail(path.dir), stem |-> path.stem]

Scan(mesh) ==
  IF ~mesh.valid THEN "DoNotProcess"
  ELSE IF ~mesh.sse \/ world.meshes.target = "SK" THEN "CriticalIssue" ELSE "Good"

IsHeadpart(path) ==
  /\ world.meshes.level >= Necessary
  /\ GamePath(path) \in headparts \/ Contains(GamePath(path).dir, "facegen")

(* Apply: what OptimizeFor is run on, and whether the Mesh must be saved.   *)
RunsOptimizeFor(path) ==
  LET scan == Scan(files[path])
  IN IF IsHeadpart(path) THEN world.meshes.headparts
     ELSE \/ scan = "Good" /\ world.meshes.level >= Full
          \/ scan = "CriticalIssue" /\ world.meshes.level >= Necessary

MeshModified(path) ==
  LET scan == Scan(files[path])
  IN /\ scan # "DoNotProcess"
     /\ \/ world.meshes.resave \/ world.meshes.level >= 2
        \/ world.meshes.level >= Necessary /\ scan = "CriticalIssue"
        \/ IsHeadpart(path) /\ RunsOptimizeFor(path)

(* Mutant: the facegen rule and the list are left to Apply.                 *)
DryRunWithoutHeadparts(path) ==
  LET scan == Scan(files[path])
  IN /\ scan # "DoNotProcess"
     /\ \/ world.meshes.resave
        \/ scan = "Good" /\ world.meshes.level >= 2
        \/ scan = "CriticalIssue" /\ world.meshes.level >= Necessary

DryRunMesh(path) ==
  LET scan == Scan(files[path])
  IN /\ scan # "DoNotProcess"
     /\ \/ IsHeadpart(path) /\ world.meshes.headparts
        \/ scan = "Good" /\ world.meshes.level >= 2
        \/ scan = "CriticalIssue" /\ world.meshes.level >= Necessary
        \/ world.meshes.resave

MaintainMeshReferences(path) ==
  IF "maintenance" \in OperationsOf(path)
    THEN Maintained(files[path].refs, failed, path) ELSE files[path].refs

MeshChanges(path) ==
  \/ MaintainMeshReferences(path) # files[path].refs
  \/ /\ "optimization" \in OperationsOf(path)
     /\ IF Apply THEN MeshModified(path) ELSE DryRunMesh(path)

WrittenMesh(path, sse) ==
  With(files, path, [files[path] EXCEPT !.refs = MaintainMeshReferences(path), !.sse = sse])

AttemptMesh(path) ==
  LET changed == MeshChanges(path)
      compatible == IF /\ "optimization" \in OperationsOf(path)
                       /\ files[path].valid /\ RunsOptimizeFor(path)
                      THEN {files[path].sse, TRUE} ELSE {files[path].sse}
      succeed == Record(path, Succeeded(changed)) /\ step' = "head" /\ UNCHANGED aside
  IN /\ step = "attempt" /\ IsNext(path) /\ TargetOf(path) = "Mesh"
     /\ \/ ~(Apply /\ changed) /\ succeed /\ UNCHANGED files
        \/ /\ Apply /\ changed
           /\ \/ \E sse \in compatible : \/ succeed /\ files' = WrittenMesh(path, sse)
                                        \/ FailRelease(path, WrittenMesh(path, sse))
              \/ FailBefore(path, "SaveFailed")
        \/ FailBefore(path, "OperationFailed")
        \/ FailLoad(path)
        \/ Record(path, BackendException) /\ step' = "over" /\ UNCHANGED <<files, aside>>
     /\ Unattempted /\ UNCHANGED <<converter, settling>>

-----------------------------------------------------------------------------
(* One Animation.  A Dry Run reports every Animation without starting the   *)
(* converter; Apply looks for it once.                                      *)

LookForConverter ==
  IF converter = "unlooked" THEN {"found", "missing"} ELSE {converter}

AttemptAnimation(path) ==
  LET converted == With(files, path, [files[path] EXCEPT !.format = "amd64"])
  IN /\ step = "attempt" /\ IsNext(path) /\ TargetOf(path) = "Animation"
     /\ \/ /\ ~Apply /\ Record(path, Succeeded(TRUE)) /\ step' = "head"
           /\ UNCHANGED <<files, aside, converter>>
        \/ /\ Apply /\ converter' \in LookForConverter
           /\ \/ /\ converter' = "found"
                 /\ \/ /\ Record(path, Succeeded(TRUE)) /\ step' = "head"
                       /\ files' = converted /\ UNCHANGED aside
                    \/ FailRelease(path, converted)
              \/ FailBefore(path, "OperationFailed")
     /\ Unattempted /\ UNCHANGED settling

-----------------------------------------------------------------------------
(* The next run of the same user choices starts with a fresh backend.       *)
Clean ==
  /\ ~cancelled /\ diagnostics = {} /\ left = {}
  /\ \A p \in DOMAIN said : said[p].ok

NextRun ==
  /\ step = "over" /\ run < Len(world.modes)
  /\ run' = run + 1 /\ step' = "open" /\ left' = {} /\ cancelled' = FALSE
  /\ plugins' = {} /\ headparts' = {} /\ unreadable' = {} /\ diagnostics' = {}
  /\ made' = FALSE /\ failed' = {} /\ converter' = "unlooked" /\ said' = NothingSaid
  /\ previous' = [mode |-> Mode, clean |-> Clean, said |-> said]
  /\ UNCHANGED <<world, files, aside, settling, faults>>

BackendNext ==
  \/ OpenProcessing \/ RequestCancellation \/ EndLoop \/ NextAsset
  \/ \E p \in DOMAIN world.plugins : ScanPlugin(p)
  \/ CancelScan \/ MakeBackend
  \/ \E path \in LoosePaths :
       FailCreation(path) \/ AttemptTexture(path) \/ AttemptMesh(path) \/ AttemptAnimation(path)
  \/ NextRun

BackendSpec == BackendInit /\ [][BackendNext]_backendVars

-----------------------------------------------------------------------------
(* The paths a reference of a Mesh may mean: one beneath each folder the    *)
(* Mesh lies in, any of which may be the Data directory.                    *)
Meant(mesh, reference) ==
  {[dir |-> SubSeq(mesh.dir, 1, k) \o reference.dir, stem |-> reference.stem,
    ext |-> reference.ext] : k \in 0 .. Len(mesh.dir)}

MaintainedMeshes ==
  {p \in DOMAIN said : /\ TargetOf(p) = "Mesh" /\ Apply /\ said[p].ok
                       /\ "maintenance" \in OperationsOf(p)}

(* A Mesh that was maintained names no Texture that is gone: a TGA it named *)
(* at first still is there under its old name, or is there as the DDS it    *)
(* became in this run or an earlier one, unless it was set aside as         *)
(* unloadable.  (mesh_references.rs, the order of process_assets)           *)
ReferencesResolve ==
  \A m \in MaintainedMeshes : \A o \in world.files[m].refs :
    o.ext = "tga" /\ Meant(m, o) \cap DOMAIN world.files # {} =>
      \/ \E r \in files[m].refs \cap {o, Replaced(o)} : Meant(m, r) \cap DOMAIN files # {}
      \/ (Meant(m, o) \cup Meant(m, Replaced(o))) \cap aside # {}

(* A maintained Mesh still names a TGA only because a conversion beneath    *)
(* one of its own folders failed in this very run: the failure of another   *)
(* mod, or of an earlier run, withholds nothing.  (names_same_texture)      *)
OwnFailureWithholds ==
  \A m \in MaintainedMeshes : \A r \in files[m].refs :
    ContainsTga(r) =>
      \E t \in Meant(m, r) \cap DOMAIN said : ~said[t].ok

(* Optimizing a Texture again comes to rest: its third successful attempt   *)
(* under the same choices writes nothing, so no run after run loses         *)
(* quality.  A ratio shrinks every time by design, and a profile that wants *)
(* its own target format gone never rests.  (plan, Texture::optimize)       *)
TexturesSettle ==
  Apply => \A p \in DOMAIN said :
    /\ said[p].ok /\ settling[p] >= 3
    /\ world.textures.resize.kind # "ratio" /\ world.profile.format \notin world.profile.unwanted
    => ~said[p].changed

(* What conversions of this run have written.                               *)
ConversionsWrote == {OutputOf(p) : p \in {q \in DOMAIN said : AssetOf(q).convertible}}

(* What a complete Dry Run without failures said of each Asset is what the  *)
(* Apply run after it does, as far as that run fails nothing.  Only a       *)
(* native Texture may turn out as it was: one to be compressed that cannot  *)
(* be, and has the format such a Texture gets.  (optimize_texture, optimize) *)
DryRunForetells ==
  /\ Apply /\ previous.mode = "DryRun" /\ previous.clean
  /\ diagnostics = {} /\ \A p \in DOMAIN said : said[p].ok
  => \A p \in DOMAIN said \ ConversionsWrote :
       /\ said[p].changed => previous.said[p].changed
       /\ previous.said[p].changed /\ ~said[p].changed =>
            Extension(p) = "dds" /\ files[p].image.format \in {Bgra, world.profile.format}
=============================================================================
