# Verification of the Cathedral Assets Optimizer

The Cathedral Assets Optimizer (CAO) optimizes the textures, meshes, animations
and archives of Bethesda game mods. It rewrites and deletes files in a user's
mod folder, in place, on Windows, from a GUI, while mod managers, virus
scanners and a second copy of the program may touch the same folder. What must
not go wrong is therefore not an answer but a file: an asset lost, a foreign
file deleted, a run that reports success over damage, a lock nobody frees.

This directory holds TLA+ models of the parts of the program where that is
decided, their TLC instances, and proofs checked by TLAPS. Paths below are
relative to `src/crates/`.

## 1. The system

### 1.1 Components, their state and their operations

| Component | Source | State | Operations |
|---|---|---|---|
| Optimization Run Service | `cao-core/src/run/service.rs`, `lifecycle.rs` | the process-wide `ACTIVE_RUN` slot, per run: published evidence, result, dispatcher, cancellation flag, join handle | `start`, event dispatch, `commit`, `wait`, `terminal_result`, cancel, both `Drop`s |
| Run Scheduler | `run/scheduler.rs` | the worker thread | `schedule`, `join` |
| Run Executor | `run/executor.rs` | stage of the traversal, `DeferredInvariant`, escapes | `execute`, containment of panics, Safety Cleanup, terminal classification |
| Work phases | `run/executor/work_phases.rs` | progress through one phase | prepare, discover, extract, build tree, process, finalize; token samples |
| Run Evidence | `run/evidence.rs`, `evidence/*` | phase records, attempt counts, facts, diagnostics, failures | recorders that accept or refuse a fact, publication of diagnostics |
| Staging ownership | `run/staging.rs` | `.cao-staging/` on disk: `owner.lock`, `ownership.manifest`, run child; in memory the `StagingScope` | prepare an area, register a temporary, publish the manifest, withdraw, release, clean up |
| Staging recovery | `run/staging/recovery.rs` | none (reads the area) | scan, lock, validate, delete what a crashed run left |
| Publication | `run/artifacts.rs`, `run/source_pin.rs` | registered artifacts, captured destinations, pins | capture a target, stage, save, publish by rename, release |
| Asset execution | `execution.rs`, `run/asset_attempt.rs` | one asset's attempt | load, optimize, save, publish, remove the converted source, quarantine a broken one |
| Archive extraction | `run/archives.rs` | preflight plan, staged tree, merge progress | preflight, extract, merge, back up or remove the archive |
| Archive Finalization | `run/finalization/*` | planned outputs, committed archives and loading plugins | plan, create, publish, verify, remove sources, prune folders |
| Capacity Check | `run/capacity.rs` | per-volume free space and reservations | estimate, reserve, recheck |
| Asset routing | `routing.rs` | none | path to Routed Asset, Skipped Asset, nothing |
| Preparation and choices | `run/preparation.rs`, `mod_selection.rs`, `work_choices.rs`, `toolset.rs`, `probes.rs` | immutable request and policy | resolve Mod Roots, compile the policy |
| GUI run lifecycle | `cao-gui/src/app/run.rs`, `run_view.rs` | active handle, window registry, view | Run, Cancel, close, events delivered to the UI thread |
| GUI forms, rules, dialogs | `cao-gui/src/*` | form fields | edit options |
| Application Log | `cao-optimizers/src/application_log.rs`, `cao-gui/src/log_tab.rs` | current file, level, session history, feed with its wake | redirect, write, drain, rotate |
| Optimizer backends | `cao-optimizers/src/*` | the run's failed conversions, headpart list, whether the converter was found; codec and device handles | scan plugins, optimize a texture, a mesh, an animation; withhold a mesh's references |
| Profiles | `cao-profiles/src/*` | `common.ini`, and per profile `profile.ini`, `settings.ini` and lists | list, load, save, create from another |
| Archive format, Windows facts | `cao-archive`, `cao-winfs` | none kept | read and write BSA/BA2; handles, locks, file ids |

### 1.2 How they interact

```
 GUI thread ── start / cancel / drop ──> RunService ── schedule ──> Run Worker (a thread)
     ^                                       ^                           │
     └───── events posted by the dispatcher ─┴──── Run Evidence <── Run Executor
                                                                         │ phases
                      StagingScope <── Publication <── assets, archives, finalization
                           │                 │
                 .cao-staging on disk     the mod's files  <── any other program
```

* *Shared state in the process*: `ACTIVE_RUN` (one mutex), the run's published
  state (a mutex and a condition variable), the join handle (a mutex), the
  cancellation token (an atomic flag, sampled at places the code chooses).
* *Callbacks*: the dispatcher runs on the Run Worker (or on the thread that
  called `start`, if the worker could not be spawned), outside every lock, and
  may call back into the service.
* *Shared state between processes*: the Mod Root. `owner.lock`, opened without
  sharing, is the only mutual exclusion; it disappears with its process.
* *Persistence*: only the Mod Root. A crash leaves the staging area, the
  manifest and whatever was staged; the next run has to prove that it owns
  each entry before it deletes it.

### 1.3 Where it is hard

1. A crash between any two file operations: the manifest must name a temporary
   before the temporary exists, and lose the name only after it is gone.
2. Collisions: a name drawn for a temporary may already be somebody's file, and
   by then it is registered.
3. The lifetime of a run: three threads may start, wait for, cancel and drop
   it, one of them from a callback on the run's own worker; panics may escape
   before or after cleanup; a worker may never start.
4. Cancellation races every step; an attempt in flight must still finish and be
   recorded, and a partial walk must never become work.
5. Publication checks a destination and then renames over it; two steps, with
   other programs between them. Deleting a source is only right after its
   replacement is durable.
6. Many early returns, each of which must leave something behind that makes the
   outcome tell the truth.
7. The window and the Run Worker talk by posted events: the terminal one arrives
   after the slot is free, perhaps while a dialog is open or a close is waiting.
8. Facts read twice: the window's profile and the one Preparing reads, a volume's
   identity asked for by two checks, the level of a log that is redirected.
9. What one run leaves is the next one's input: a failed conversion is remembered
   within its run only, and a texture must not be compressed again and again.

### 1.4 What makes each component correct

* **Staging**: every temporary on disk is named by the manifest on disk;
  whoever owns staged data holds the lock; a clean exit leaves nothing; an
  abandoned area can be proved and removed; no file of another program is
  deleted.
* **Service**: one run at a time; a visible result means the next start
  succeeds; Safety Cleanup runs exactly once on every path; events keep their
  order; no drop leaves a run executing; every call returns.
* **Executor and evidence**: the evidence store never has to refuse a fact; a
  completed run did everything; nothing is attempted after unsafe work;
  cancellation costs at most one attempt; diagnostics precede Safety Cleanup;
  leftovers are reported.
* **Publication and asset execution**: only the captured file is overwritten
  and only the converted file is deleted; the reported mutation is the real
  one; a failed load is not packed.
* **Extraction**: it moves where assets lie and never changes which ones the
  game sees, although archives shadow each other, fail half-way or change; a
  half-merged tree is never optimized.
* **Finalization**: sources go only after the archive that holds them is
  durable, verified and loadable; folders are pruned only after every output
  was attempted, without an unsafe end or a shortage.
* **Planning**: what the window shows is what the run is asked for, and a
  profile that changed meanwhile is refused for exactly what it lacks; no Mod
  Root holds another; the ledger holds exactly the paths work is owed on.
* **Capacity**: a check charges a volume with everything that lands on it,
  whatever answers came in which order; saturating sums never make a shortage
  look like room.
* **GUI**: the form unlocks exactly when no run is active; a run uses what the
  window saved, and its profile's file stays so; closing waits for the run; events of old runs change nothing;
  each failure is listed once; no profile's settings land in another's file; the
  Log tab misses no row.
* **Backends**: a maintained mesh names no texture that is gone, and gives up no
  name for the failure of a namesake; a texture comes to rest; a Dry Run
  foretells what Apply does.

## 2. Plan

In this order, so that what can destroy files or lose a run comes first:

| # | Module | Composes | Abstract specification | State |
|---|---|---|---|---|
| 1 | `StagingOwnership` | producer and recovery, in several processes | `TemporaryOwnership` | built, proved |
| 2 | `RunService` | service, scheduler, worker, handles, dispatcher | `SingleActiveRun` | built, proved |
| 3 | `RunExecutor` | `RunEvidence` (EXTENDS) | outcome against the work done | built, proved |
| 4 | `AssetExecution` | publication, source pins | invariants: an asset is its old or its new content | built, proved |
| 5 | `ArchiveFinalization` | publication steps, plugins, source cleanup | invariants: deleted bytes are in a published archive | built, proved |
| 6 | `ArchiveExtraction` | preflight, merge, source cleanup | the Effective Asset Tree never changes | built, proved |
| 7 | `RunPlanning` | `AssetRouting`, `ModSelection`, `CapacityCheck` (EXTENDS) | `CapacityCheck`'s own specification | built, proved |
| 8 | `MainWindow` | `ProfileStore`, `RunView`, `ApplicationLog` (pure parts) | the form is locked iff a run is active; liveness of closing | built, proved |
| 9 | `OptimizerBackend` | `AssetRouting`, `TextureOptimizer`, `MeshReferences` (pure parts) | what Apply does is what a Dry Run said | built, proved |

Theorems worth proving: for each state machine the type invariant, one
inductive invariant and from it every safety property its run checks, then the
refinement of the abstract specification. For `CapacityCheck` that any number of
checks over any roots and volumes agree on one identity per root and charge it
in full, and that one that says a run fits is right. For `OptimizerBackend`, that
the arithmetic of one image comes to rest, and its four invariants. All of these
are proved (section 5); liveness is left to the model checker.

## 3. The modules

A module `X` is the model, `MCX` its instance for TLC (with the symmetry sets),
`MCX.cfg` the bounds, `XProofs` the theorems. Definitions of the form
"Mutant: ..." in a model are plausible mistakes in the definition that follows
them; they are never part of `Next`.

### 3.1 StagingOwnership, TemporaryOwnership

*What it models.* `run/staging.rs` and `run/staging/recovery.rs`: several runs,
each in its own process, on one Mod Root. The disk is the area (`area`,
`manifest`, `scratch`, `children`, `conflict`), what lies under each temporary
name (`disk`), and an unregistered entry in the run child (`stray`). The
operating system keeps `holder` of `owner.lock`. A run's `StagingScope` is
`scope`, `mem`, `unknown`, `dirty`; `pc` and `op` are where its worker is.

*Correspondence.* One action is one file operation, or one read-only pass that
the held lock makes atomic to other runs. `ScanRoot` ... `CancelRecovery` are
`recover`; `CreateStagingDirectory` ... `NameChild` are `prepare_area`; the
scratch and replace steps are `publish_manifest`; the create, conflict and
withdraw steps are `create_registered_file` with its collision path; the
release steps are `release_file`, the cleanup and sweep steps
`cleanup_registered_run`. `Crash` ends a process between any two of them: the
lock goes, the disk stays. Other programs may put a file where a name of
`ForeignNames` will be drawn and entries into the run child.

*Abstractions.* The manifest's text is its set of records and its version
(`parse_manifest` accepts or refuses); the removal order among files is left
open; nonces are fresh; path confinement and links are checked by the
filesystem layer and left out.

*Abstract specification.* `TemporaryOwnership`: the durable claim is replaced
as a whole and never loses a name whose entry is still on disk, and an entry is
created only under a claimed name. Locks, scratch files, recovery and crashes
are how the detailed protocol keeps that.

### 3.2 RunService, SingleActiveRun

*What it models.* `service.rs`, `lifecycle.rs`, `scheduler.rs`: client threads
and one worker thread per run; `slot` is `ACTIVE_RUN`, `stage` is where the
worker is, `call` is the call a thread is in, `joining` the mutex of the join
handle, `seen` who has seen a result. A dispatcher is a thread that is its
run's host at stage `callback`; it may make any call a client may make.

*Correspondence.* `Admit`, `SpawnWorker`, `FailSchedule`, `ReturnHandle` are
`start`; `RecordFact` to `Salvage` are the worker's envelope around the
executor; `PublishResult`, `ReleaseSlot`, `Emit`, `FinishCommit` are `commit`
in its order; `CancelBeforeJoin` to `FinishJoin` are `cancel_and_join`;
`JoinRetained` and `FinishService` are the service's `Drop`.

*Abstractions.* A run's work is any number of facts. Contents of events are
their kind. Run ids count starts up to `MaxRuns`.

*Abstract specification.* `SingleActiveRun`: at most one run is active; its
outcome is published once, and only when it no longer is.

### 3.3 RunEvidence, RunExecutor

*What it models.* `RunEvidence` is the store: `May...` operators are what each
recorder of `evidence.rs` accepts, the others what it retains. `RunExecutor` is
`executor.rs` and `work_phases.rs`: both modes, from `Begin` to `Seal`, a step
from one token sample or component call to the next.

*Correspondence.* Each action is named for the function it models; a refused
fact sets `violation` (`DeferredInvariant`) as the code does; `EscapeWork` is a
panic or error at any working step; `SweepArtifacts` and `SweepService` are the
two containment boundaries of Safety Cleanup.

*Abstractions.* What an attempt does is one step with the outcomes its own
module will justify. Plans are counts. A cancelled walk may have been cut at
any entry, so it is complete or partial.

### 3.4 AssetExecution

*What it models.* `execution.rs`, `run/asset_attempt.rs` and the publication in
`run/artifacts.rs`: one attempt at one Routed Asset, from identity check to
Quarantine, in both modes, while another program edits, replaces, renames or
deletes files between any two of its steps. `kind` is the asset's control flow:
a texture conversion (publishes beside its source, then removes the source), an
in-place texture or mesh, an animation (staged before its tool runs). `disk` is
what each path names, `target` is `PublicationTarget`, `pin` is `PinnedSource`,
`result` is `AssetExecutionResult`.

*Correspondence.* `PinSource`, `CaptureTarget`, `Load`, `Operate` or
`OptimizeAnimation`, `Stage` and `Save` are the steps of an attempt up to its
staged output; `CheckDestination`, `RenameStaged`, `Release` are `publish`;
`VerifyConversion`, `RemoveVerified`, `DeleteByHandle`, `JudgeRemoval` are the
removal of a converted source; `FinishAttempt`, `OpenForQuarantine`, `SetAside`
are `asset_attempt.rs`; `Panic` is the containment of backend panics. `Foreign`
is the other program.

*Abstractions.* A file stands for its bytes: an edit in place is a new file.
An entry's `changed` is its change time, so that a rename is visible to a leaf
snapshot, which compares it, and not to a source pin, which compares file ids.
A mesh's two operations are one step. The history variables (`late`,
`displaced`, `spoiled`) record what the other program did where no check of the
code could still see it; the properties make an exception for just that.

*What must hold.* Not an abstract machine but invariants: a publication
overwrites only what the backend read; only the pinned source is deleted, and
only over a whole output; the reported mutation is the real one; nothing that
failed to load is packed.

### 3.5 ArchiveFinalization

*What it models.* `run/finalization` with the pins of `run/source_pin.rs`: the
whole phase, from planning to pruning, while a user cancels and another program
edits, creates or deletes sources, archives and plugins. `loose`, `archive` and
`plugin` are the disk; `frozen`, `fallback` and `allowance` are
`ArchiveFinalizationPlan`; `out`, `pins`, `held`, `left`, `loader` and
`mutation` belong to the attempt of one output; `attempts`, `account` and
`facts` are what Run Evidence is told.

*Correspondence.* `Begin` to `StopPlanning` are `run_phase`, `plan_finalization`
and the Dry Run's `plan_archive_creation`; `CheckCapacity` and `NextOutput` the
loop of `finalize_plan`; `SizeSources` to `PublishArchive` and `ReleaseArchive`
are `try_attempt` up to the archive, `ChooseLoader`, `CreatePlugin`,
`PinPlugin` its Loading Plugin, `ReleaseSource`, `RemoveSource` and
`JudgeCleanup` its sources. `Conclude` is the end of an attempt as
`attempt_output` and `finalize_plan` treat it, `PanicInAttempt` its containment
of panics. `MaintainRoot` to `RemoveDummy` are the maintenance of existing
archives and plugins, `PruneRoot` the pruning, `Escape` what no attempt
accounts for.

*Abstractions.* A number stands for a file's bytes, an edit writes a new one.
Which sources go into which archive, and its name, are a choice made at
planning; the order of outputs, sources, plugins and roots is open. The
Capacity Check fits or does not. A plugin is absent, exactly a Dummy Plugin,
another ordinary plugin, one that counts only at the weaker strength (a link, an
empty file), or something else. Evidence accepts every fact, which
`RunExecutorProofs` proves of the facts it gets. The temporary's ownership is
`StagingOwnership`.

*What must hold.* Every deleted source is, byte for byte, in an archive the
phase published; the published archive is not held open, so that another
program may take it (`taken`), and the property excuses just that. A plugin
loads the archive while its sources go. Empty directories survive any early
end. The evidence reports what was published, after panics too.

### 3.6 ArchiveExtraction

*What it models.* `run/archives.rs` with the Archive pass and the extraction
phase of `work_phases.rs`: discovery of one Mod Root, the preflight in both
modes, then each archive's attempt, while a user cancels and another program
changes Loose Assets and archives. `loose`, `bytes` and `entries` are the disk;
`found`, `unread` and `first` what discovery knows of it, `planned` and
`manifest` the `ArchiveExtractionPlan`s; `source`, `pin` and `left` belong to
an attempt; `attempts` is what Run Evidence is told.

*Correspondence.* `Walk` is `discover_archives`, `ReadManifest` the loop of
`preflight` over archives from high to low precedence, `MergeEntries` its
winners (`merge_entries`), `FreezeWinners` its end, `StopPreflight` any check
that fails. `NextArchive` is the loop of `extract_archives`; `PinSource`,
`CleanUpSource` and `JudgeCleanup` are `extract_archive`, `StageEntries` and
`MergeEntry` are `try_extract` in it. `Conclude` is the `AttemptOutcome` with
its verdict, as `extract_archives` obeys it.

*Abstractions.* A number stands for the bytes of a file, and for those of every
entry of an archive. The walk is one step, and so is reading one manifest with
its checks. Mod Roots share nothing here, so there is one. Unsafe or aliased
entry names, a file where a directory is needed, a wrong explicit order and a
shortage are a choice that stops the preflight. A backup takes the source's
name away as a deletion does. The temporaries are `StagingOwnership`.

*What must hold.* `KeepsTheTree`: what a game path holds (its Loose Asset, or
else the entry of the highest archive in place) is the same before and after
every step of extraction, also after a failure, and hence after a crash between
any two. Precedence is frozen in the preflight on purpose; `disturbed` records
the paths where another program undid what it was decided on (deleted the Loose
Asset, changed an archive that provides the path), and the property excuses
exactly those. `MergeIsReported`: an attempt that reports no mutation left
nothing, one that reports a committed one merged all it won, and the run is
over once an attempt was unsafe.

### 3.7 RunPlanning: AssetRouting, ModSelection, CapacityCheck

*What it models.* A run from the options form to its archive work, with no step
of it on a file. `AssetRouting` is pure: the Admission Rules (`admission.rs`),
the Run Request the form builds (`form.rs`, `run_request.rs`), the compilation
of the Routing Policy with every conflict it reports and the decision for a
path (`routing.rs`). `ModSelection` is the walk of the selected directory with
its exclusions and overlaps, `CapacityCheck` the checks of `capacity.rs` as
processes that share the frozen volume identities. `RunPlanning` composes them
in the order of `preparation.rs` and the phases.

*Correspondence.* `ListEntry` to `EndResolution` are `resolve_mod_roots`;
`Conflicts` is `RoutingPolicy::compile`, `Route` and `RouteAll`, the loop that
makes each path `Recorded`, are `AssetRouter`; `Peek`, `ProbeVolume` and `Freeze` are `volume_identity`, each
lookup of the lock a step and the probe between them another; `Sample` and
`Describe` are the rest of a check.

*Abstractions.* A path is its extension, a directory the set of directories it
lies in, a name what it links to. Estimates are sizes up to `MaxBytes`, which
plays the part of `u64::MAX`. Production runs one check at a time on one worker;
the lock, and the comment at it, allow several, and so does the model.

*What must hold.* `AdmittedWorkCompiles`: the request asks for the work the form
names that the capabilities the window read support; Preparing refuses exactly
what the profile it reads does not support, and nothing if that profile supports
all the window knew of. `WindowShowsTheRun`: what the form shows is what the
request carries. `RootsAreSafe`: each child directory is a root or an exclusion,
and only one of them, roots stand apart and keep the order of names.
`LedgerIsHonest`: what each path is owed is told from the work asked for (`Owed`),
without the router. The paths owed something are the ledger, each at the place
its position in the list gives it, in its phase and with exactly the operations
owed; every other recognized path is counted, as disabled exactly when nothing
of its kind is worked on. `ChargesItsVolume` and `FitsHasRoom` compare a check with the
volumes the roots are really on (`home`), which the code never sees at once.

### 3.8 MainWindow: ProfileStore, RunView, ApplicationLog

*What it models.* The main window from its start to its end (`app.rs`,
`app/run.rs`, `modal.rs`): the user's clicks, the event loop that delivers one
posted event at a time, the Run Worker as far as the window can tell (it streams
failures, stores its result, frees the slot, posts the terminal event), and two
threads that log. `ProfileStore` is the profile directory and what is read of
it, `RunView` the view built from events, `ApplicationLog` the sink with its
feed, all as functions of a state the composition holds in `store`, `view` and
`log`.

*Correspondence.* `StartRun` is `run_clicked` and `start_run`, with the save, the
stamp of the log and the start each able to fail; `Deliver` and `OnRunEvent` are
`deliver` and `on_run_event`, `EndRun` is `end_run`; `CloseDuringRun` and
`CloseWindow` are `may_close` and the close handler; `Select` is
`select_profile`, `Saving` is `save`. `NewProfile` is the button, which with Show
tutorials on only posts the tutorial's box (`Tutorial`) and keeps the rest for
when it was answered: `EndTutorial` is that continuation, on a later turn, and
`AskProfileName` what it calls. `Answers` is a dialog's own buttons, which the
blocked window does not take from it. `BeginRecord`, `WriteRecord`, `WakeTab`
are `Log::log` before, under and after its lock. What a terminal event's failures
do to the list is the loop `WithFailures`, one row `Absorb`ed after the other.

*Abstractions.* The settings of a profile are whether they can be read, whose
capabilities they have and a number that stands for the edited controls. The
stamps of two logs within one minute share a path, so a path is its profile.
Folder, mode and Dry Run stay editable during a run and are saved when it ends;
they are the edits of `options`. A full disk and a lost directory are `faults`.
A message box nothing follows is left out; a tutorial that is followed by a
dialog is not, and until its box is up or once it is dismissed the window takes
clicks, so `tutorials` counts those pending while anything else happens. Whether
Show tutorials is on is a choice at each click, as its check box is the user's.
`work.settings` and `work.tutorials` record what the start saved and whether a
tutorial was pending then; no step reads them.

*What must hold, and what does not.* See the properties at the end of the module.
`RunHoldsTheWindow` relates five of its parts (active handle, view, store, log,
controls) through a whole run: in any case the controls stay locked and the run's
`profile.ini` stays as the start saved it; profile, shown settings and log stay
too if no tutorial was pending at the start. Without that condition they do not,
although a comment says so (`LockedWindowShowsItsRun`, section 7).

### 3.9 OptimizerBackend: TextureOptimizer, MeshReferences

*What it models.* `backend.rs`, `composition.rs`'s backend factory and the
attempts of `execution.rs`, run after run over the same loose files: a backend
made at the first asset after the headpart scan, then every texture, mesh and
animation in that order. `TextureOptimizer` is what a texture becomes
(`textures.rs`), `MeshReferences` which names a mesh gives up
(`mesh_references.rs`); both are pure.

*Correspondence.* `OpenProcessing` freezes what is routed (`Routed`) and leaves
all of it to be attempted (`left`); an attempt takes the next in the order of
`process_assets` (`IsNext`: textures, meshes, animations, of one kind in the
ledger's order). `NextAsset`, `ScanPlugin`, `MakeBackend`, `FailCreation` are
`AssetAttemptAdapter::attempt`, `list_headparts` and `scan_headparts`;
`AttemptTexture`, `AttemptMesh`, `AttemptAnimation` are `execute_texture`,
`execute_mesh`, `execute_animation` with every way they end; `Record` is
`attempt_finished` and the loop; `NextRun` starts the same choices again with a
new backend.

*Abstractions.* An attempt is one action: its steps against a changing disk are
`AssetExecution`'s. An image is its metadata. A mesh is whether it loads, its
version and its texture names; a path is its folders, stem and extension.

*What must hold, and what does not.* `ReferencesResolve` speaks of names that
end in `.tga`. The rewrite replaces `.tga` anywhere in a name, so that
`a.tga.dds` becomes `a.dds.dds` though its texture keeps its name; the property
leaves such names out, the model does not. A mesh whose own save fails keeps the
old names until a later run. `DryRunForetells` excuses one case: a native
texture that is to be compressed, cannot be, and has already the format such a
texture gets is announced and left as it is. It leaves out paths that a conversion of
the Apply run wrote, which the Dry Run never saw. `TexturesSettle` asks for rest at
the third attempt and not the second: a side of 6 is resized to 8 and halved to
4 by the next run. It counts from the last conversion that wrote the texture,
and leaves out a ratio, which shrinks every time by design, and a profile whose
target format is one it does not want.

## 4. What is model-checked

| Run | Question | Bounds and why they are enough |
|---|---|---|
| `staging` | Does staging keep its promise over crashes, collisions, recovery and failed cleanup, and does every run end, whatever fails? | Two processes, because the lock admits one at a time and every hand-over is between two; a name of each kind (top of the root, subfolder, run child), since the code treats just these differently; two files for one run, so one is staged while another collides, and one for the other, before, after or between; without symmetry, for liveness |
| `service` | One run at a time, ordered events, no abandoned run, and does every call return, over all interleavings? | One client and two workers, whose dispatchers call back: the races are start against commit, wait against drop, drop against drop, callback against client, each between two parties; without symmetry, for liveness. The proofs cover any number of clients |
| `executor_safety` | Does the outcome tell the truth, over every early return, panic and cancellation? | Two items of work, so that an attempt is followed by another one and by none |
| `asset_safety` | Does an attempt destroy only what it converted, and report what it did, whatever another program does meanwhile? | Three changes by others: the longest pattern that hides from a check is rename away, put another file there, rename back |
| `asset_pinned` | Are the loaded bytes those of the pinned source, as a comment says? | Violated; see section 7 |
| `finalization_safety` | Does finalization lose bytes, delete before an archive loads, prune too early or hide a mutation? | Two outputs that share a Dummy Plugin name, one with two sources, so that a cleanup fails half-way and an attempt follows another; one change by others, since every window (release to reopen, look-up to pin, publication to cleanup) needs only one, and the proofs cover any number; one Mod Root, because roots share only the account |
| `finalization_loadable` | Do sources go only once their archive is loadable, as a comment says? | Violated; see section 7 |
| `extraction_safety` | Does extraction change what the game sees, or misreport a half-merged archive? | Two archives and two game paths: every combination of shadowing, of loose and archived, and a second entry after the first was published; two changes by others, since a window of the code is closed by one comparison |
| `run_planning` | Is what the window shows what the run does, are the roots apart, the ledger honest and the checks right? | Every combination of groups under both modes and a form for each way to be refused; eight sets of capabilities; five directory entries that link anywhere; two volumes, two roots with work, two checks at once, sizes up to saturation |
| `main_window` | Do a run, the profiles, the dialogs, the log and a close keep out of each other's way? | Two profiles in four conditions, two runs of up to two failures, two threads that log. The whole product is out of reach, so that each initial state has a budget of clicks and faults (`MCBudgets`): one for each pair of things that race |
| `main_window_stray` | Does a locked window show the settings its run was started with, as a comment says? | Violated; see section 7 |
| `optimizer_backend` | Do meshes keep their textures, do textures come to rest, does a Dry Run foretell? | One TGA name in three places (two mods, a folder in one), which is every relation of a mesh to a failure; two runs with two failures; every level and choice for headparts; 140 images with sides on both sides of 4, powers of two and not, under every choice, through four runs; a TGA converted over a DDS beside it, in either order, with one failure |

`CHECK_DEADLOCK FALSE` in the configurations: runs end, a window is closed, the
last run of a list is over, and then nothing is left to do.

The type invariants, and what the theorems of section 5 state beyond the
properties in the configurations (`OwnerHoldsLock`, `CleanExit`, `OneCleanup`,
`CancellationIsPrompt`, `MutationsAreReported`, `OneIdentity`, ...), are proved
and left out of the runs; each was checked there before its proof.

Each property of a passing run has a mutant in `PROJECT.json`: a plausible
mistake in one definition under which TLC finds the property violated.

### Fairness

* *Staging* (`FairSpec`): the steps of each run, once it has started recovery,
  are weakly fair: a worker thread is scheduled. Crashes, foreign programs and
  starting another operation are not fair.
* *Service* (`FairSpec`): threads are scheduled, dispatchers return or panic,
  and a run's work ends (strong fairness of leaving the recording loop, which
  the finite plan of a run justifies). New calls are not fair.
* *Window* (`FairSpec`): the event loop runs what was posted to it, and the Run
  Worker goes on. What the user does is not fair, so `WindowCloses` holds of a
  user who asks once and then does nothing.

## 5. What is proved

For every value of the constants, under the modules' assumptions on them
(names of the three kinds are disjoint, the bounds are numbers, model values are
distinct; the disks, budgets, paths and entries of the inputs are of their kind;
a failure's row is not one of the two other rows; the feed holds a row):

* **StagingOwnershipProofs.** `TypeCorrect`, then `OwnershipInvariant`: the
  inductive invariant relates, for each stage of a run, the manifest on disk to
  what the scope has in memory. It is needed because `EveryTemporaryIsNamed`
  alone is not inductive: a step that deletes a name from the manifest
  preserves it only since the run that takes it holds the lock, knows all its
  temporaries and has removed this one. From it follow
  `TemporariesAreNamed`, `OwnersHoldTheLock`, `OwnersKnowTheirFiles`,
  `CleanExits`, `ForeignSurvival`, `AbandonedIsProvable`, the action properties
  `ConflictPreserves` and `OnlyOwnersRewrite`, and `ImplementsPromise`, the
  refinement of `TemporaryOwnership`.
* **RunServiceProofs.** `TypeCorrect`; `CallInvariant` (a thread's call agrees
  with the state of the handle and of the join lock it is about) and
  `PhaseInvariant` (a run's stage agrees with its result, its cleanups and the
  slot). They give `ResultFreesTheSlot`, `CleansOnce`, `DropsJoin`,
  `EventsAdvance` and `ImplementsSingleActiveRun`.
* **RunExecutorProofs.** `TypeCorrect`; `ExecutorInvariant` says what has been
  recorded at each stage, which is what the guards of Run Evidence ask:
  `NothingIsRefused`, `CompletionIsEarned`, `CancelsPromptly`,
  `DiagnosticsComeFirst`, `LeftoversAreReported`, `UnsafeWorkStops`.
* **AssetProofs**, of `AssetExecution`: `TypeCorrect`; `AttemptInvariant` says, for each
  stage, what the attempt has pinned, captured, loaded, published and reported.
  The properties alone are not inductive: what a rename overwrites is right
  only because the leaf still was the captured one at the last check, and the
  backend read between the two. They are projections of it:
  `OverwritesOnlyInput`, `RemovesOnlySource`, `AssetStaysWhole`,
  `ReportsMutation`, `QuarantinesFailedLoads`, for any number of changes made
  by another program.
  Of `OptimizerBackend`, over any world of files, choices and plugins, any
  order of the ledger, any number of runs and failures:
  - Every attempt, of whichever kind and however it ends, is one `Attempted`
    (`TextureAttempted`, `MeshAttempted`, `AnimationAttempted`): nothing to
    change, published, failed untouched, set aside, or published and failed
    after that. The invariants are proved of that and of the steps between
    (`StepCases`), once instead of once per kind.
  - `BackendInvariant`: the loop is where it says (`LoopInv`), a failed
    conversion left its source or had it set aside and one that did not fail
    left a DDS (`ConversionInv`), no TGA found at first is lost under both its
    names (`FilesInv`), and each mesh names what it named at first, or what is
    right, or what was set aside (`NamesInv`). `ReferencesResolve` is not
    inductive: it speaks of meshes that were maintained in this run, and a mesh
    that gives up a name in a later run relies on files of earlier ones, after
    failures nobody remembers. The step that matters is `NameReplaced`: what a
    mesh may mean was attempted before it. It rests on lemmas about paths
    (`SplitPath`, `MeantNames`): the comparison of path ends in
    `names_same_texture` is what a reference resolved from one of the mesh's
    own folders means. `AllReferencesResolve` and `OwnFailuresWithhold` follow.
  - `DryRunsForetell` needs what a plugin scan has listed at each point
    (`ScanInv`), that a Dry Run's word is a function of each file alone once
    nothing failed (`DryRunInv`), and that this word stands until the Apply run
    attempts that file (`ForetoldInv`).
  - `TexturesRest` rests on the lemma `ComesToRest`: whatever an image's sides
    and format, after one pass of the optimizer halving is left only to sides
    that are powers of two, and after the next one nothing at all. Below it are
    the powers of two (`Powers`, `PowersMultiply`, `NextPower`), what halving
    leaves (`HalvedSide`, `HalvedPower`, `HalvingsStop`) and what one pass makes
    (`OptimizedImage`). Induction is by the least exception, as below. `RestInv`
    then counts the passes: a conversion over a texture starts its count anew.
* **ArchiveFinalizationProofs.** `TypeCorrect`, which needs to know that an
  attempt has an output (`OutputOfStage`); `FinalizationInvariant` in five
  parts: what evidence holds of what was published, why the phase still goes
  on, what is pinned and packed, what deleted bytes are in, and which plugin is
  held. `NothingPackedIsLost` alone is not inductive: the bytes deleted are
  those compared with the pin, the pin's those that were packed, only since the
  source was held from pinning to packing. From it follow `NothingIsLost`,
  `LoadsBeforeDeleting`, `PrunesLast` and `ReportsMutations`, for any number of
  outputs, roots and changes by another program. `ConcludeInv` treats the ends
  of all attempts at once.
* **ArchiveExtractionProofs.** `TypeCorrect`; `ExtractionInvariant` in four
  parts: how the plan ranks archives (`PlanOfStage`), that what was decided on
  is still there (`DecisionsStand`), how far the merge is (`MergeOfStage`) and
  what evidence holds of it (`EvidenceOfStage`). `KeepsTheTree` is a property
  of steps: publishing keeps the tree since an archive that won a path is the
  highest that provides it (`WinnerIsTop`), and taking a source away does since
  by then all it won is loose (`WinnersAreLoose`). `TreeIsKept` and
  `MergesAreReported` follow, for any archives, game paths and changes by
  another program.

* **RunPlanningProofs.** Of the request, `Requested` says what each phase knows
  of form, capabilities and policy: `AdmittedCompiles`, `WindowShows`. Of the
  walk, `Accounted`: the listing has met each name once, and resolving has
  settled every child that stands before those left, in the order of names.
  `RootsAreSafe` speaks of the end of the walk only and is not inductive; that
  roots stand apart needs that each later child was compared with all before it.
  It gives `RootsHold`. `LedgerHolds` is about the loop over paths of any number:
  the places of the first k paths are what the ledger tells (`Tells`), by the
  least k that would be wrong.

  For `CapacityCheck` alone, `CapacityInvariant`: what is
  recorded of a root is the truth or unknown, what a check has gathered follows
  from what is recorded, and an answer in flight, asked outside the lock, is the
  truth or unknown too. The last part is what makes the rest inductive: two
  checks may hold answers for one root, and whichever comes second must not
  change what the first has used. From it `OneIdentityHolds`, `VolumeIsCharged`
  and `FrozenOnce`. `FitsIsRoom` adds `Roomy`: the volumes a check has passed have
  room for all that lands on them. It compares a sum over the check's sharing
  roots with one over the roots truly on the volume, so it rests on lemmas about
  folds over finite sets in any order (`FoldExists`, `TotalTakesAny`,
  `TotalGrows`, `TotalAgrees`), and on what a demand's total is with saturation
  (`Summed`). `RunChecksCapacity` shows that no other step of a run
  touches the checks, and `RunChargesVolumes` and `RunHasRoom` conclude for the
  whole run, for any roots, volumes, sizes and number of checks.
* **MainWindowProofs.** `WindowTypes`, and an inductive invariant of seven parts;
  each step of the window is looked at once per part.
  - `Guarded`: the depth counts the dialogs open or to be torn down, and the
    window is blocked while it is positive.
  - `Posting` and `InFlight`: the events still to be delivered are the last of
    the run's, the terminal one the very last; there is a run in the window as
    long as the worker is at it or an event waits, and the slot is taken only
    while the worker is. `StartIsNeverRefused` is not inductive without them:
    the form unlocks on the terminal event, and only its place, after the
    worker's last step and before no other event, tells that the slot is free.
    They give `StartNeverRefused` and `CancellationReaches`.
  - `Holding`: what a run in flight holds of store, log and controls. `RunHolds`
    needs its part that, if no tutorial was pending at the start, no dialog but
    About is open by then: each of the others may change the profiles or the
    controls when it closes. If one was, the run's `profile.ini` still stays, since
    a locked window saves no settings and creating a profile only writes what is
    not there.
  - `Listing`: each posted event carries on where the one before leaves the list
    of rows. `FailuresListed` follows: the run's result, taken over what was
    streamed, lists each text as often as it failed.
  - `AtHome`: what was loaded of a profile that can be read is still that
    profile's, so what is saved keeps its file's capabilities: the action
    property `SettingsStay`.
  - `Tabbed`: the log's rows shown, with the lines that wait in the feed, come to
    the session's newest, and no queue is longer than the feed may be; `Woken`:
    a drain is posted, or the next line posts one, or a thread is about to. The
    bounds and the split into log rows and details are what `TabTells` lacks to
    be inductive: a row that falls out of a full feed is one that the tab drops.

Rows, events, paths and sums have any length here. The library's induction
theorems cannot be instantiated, so the lemmas about a loop take the least
position at which the claim would fail (the order of the natural numbers is
well-founded) and look at the one before it.

The refinements are proved for the initial state and every step. Liveness
(`RunEnds`, `CallsReturn`, `WindowCloses`) is only model-checked: fairness and
ENABLED are out of the prover's reach. Every safety property a run checks is
proved. The inductive invariants were checked by TLC over the instances of
section 4 before they were proved.

## 6. What is not modelled, and why

* Codecs, pixels, the GPU or CPU device, nifly's geometry, archive byte formats,
  generated Slint code and vendored C++: sequential data conversion, or
  third-party code; their errors are outcomes of the callers' steps. The pipes
  and the timeout of `hkxcmd.exe` are one failing outcome.
* The grammar of INI files and of the ownership manifest: what it yields is a
  choice, including what cannot be read. Edits of INI files by other programs
  while the window is open: a profile is re-read by every run, which
  `RunPlanning` covers by a profile that differs from the window's.
* Files of the Application Log: naming, rolling, and a failing write, which the
  code swallows. Message boxes, folder drops, tab order, the About dialogs'
  content: single-threaded wiring without rules worth a model.
* A dispatcher whose captured values panic as they are dropped would unwind past
  the point where the worker reports its last event (`service.rs`, commit); what
  an adapter captures is outside the code.
* Windows calls: what a call may return is part of the step that makes it.

## 7. Findings

The comment on `PinnedSource` (`execution.rs`) says that since write sharing is
denied, the loaded bytes cannot change underneath the pin. The pin shares
deletion, which lets another program rename the file away, and the backend
loads by path: a program that renames the source away, puts another file there
while it is loaded, and renames the first one back has the pinned file deleted
though another one was converted (`asset_pinned`). `RemovesOnlyWhatItConverted`
states what does hold. In-place publication is not exposed, because its leaf
snapshot compares the change time too.

`ArchiveFinalizationChoices` says of `delete_sources` that packed Loose Assets
are deleted once their archive is loadable. With `create_dummy_plugins` off, no
Loading Plugin is looked for, created or pinned, and the sources go at once
(`finalization_loadable`): no bytes are lost, but no game loads them until the
user provides a plugin. `DeletesOnlyWhatLoads` states what holds where Dummy
Plugins are wanted.

`save` leaves a profile's files alone under a run because, its comment says, a
run holds the controls, so the window still shows the settings saved when it
started. New Profile asks whether a run is on when it is clicked; with Show
tutorials on, the rest waits for the tutorial's box and asks no more. Run clicked
before the box is up, or after it is dismissed, starts a run; the dialogs then
open over it, and the profile they create is selected: the locked window shows
its settings, `common.ini` remembers it and the Application Log goes to its file
while the run of the other profile goes on (`main_window_stray`). The run keeps
the request it was started with, and its profile's settings are not overwritten:
`RunHoldsTheWindow` states what does hold.

One more, met while modelling and stated without a run: `create_registered_file`
says of a colliding name that the entry was not created by this run and is never
deleted. The withdrawal of the colliding record takes several file operations; a
crash in the middle, before the conflict control is on disk, leaves a manifest
that names the foreign entry, and the next run's recovery deletes it. The window
is one of a few file operations and the name is random. `ForeignEntriesSurvive`
states the exact promise that does hold, checked and proved: outside an
unfinished withdrawal, no foreign entry is lost.
