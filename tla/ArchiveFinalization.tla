------------------------- MODULE ArchiveFinalization -------------------------
(***************************************************************************)
(* Archive Finalization (run/finalization, run/source_pin.rs): the phase   *)
(* that packs Loose Assets into new Archives, sees that a Loading Plugin   *)
(* loads each of them, deletes the packed sources, maintains the plugins   *)
(* of existing Archives and prunes empty directories, while another        *)
(* program changes the Mod Roots and a user cancels.  Every state is also  *)
(* what a crash would leave.                                               *)
(*                                                                         *)
(* Abstractions.  A number stands for a file's bytes.  Outputs, sources,   *)
(* plugins and roots are taken in any order.  The Capacity Check fits, or  *)
(* does not.  Run Evidence accepts every fact (RunExecutor proves that it  *)
(* does).  The temporary's ownership is StagingOwnership.                  *)
(***************************************************************************)
EXTENDS Naturals, FiniteSets

CONSTANTS
    Files, Archives, Plugins, Roots,
    FilesOf,        \* the sources the packer puts into an Archive
    NamesOf,        \* the recognized Loading Plugin names of an Archive
    DummyOf,        \* the last of them, where its Dummy Plugin goes
    RootOf,         \* the Mod Root of an Archive
    PluginRootOf,   \* the Mod Root of a plugin
    Nothing,        \* no Archive, no plugin, no file
    MaxEdits        \* bound: what the other program does

ASSUME ConstantsAssumption ==
    /\ FilesOf \in [Archives -> SUBSET Files]
    /\ NamesOf \in [Archives -> SUBSET Plugins]
    /\ DummyOf \in [Archives -> Plugins]
    /\ \A a \in Archives : DummyOf[a] \in NamesOf[a]
    /\ RootOf \in [Archives -> Roots]
    /\ PluginRootOf \in [Plugins -> Roots]
    /\ Nothing \notin Files \cup Archives \cup Plugins
    /\ MaxEdits \in Nat

VARIABLES
    choices,        \* ArchiveFinalizationChoices, the request and the mode
    cancelRequested,
    loose,          \* the bytes of each Loose Asset, 0 when it is absent
    archive,        \* what each Archive's path names
    packed,         \* the bytes the Archive staged for a path holds
    plugin,         \* what each plugin name names
    pruned,         \* Mod Roots whose empty directories are gone
    edits,          \* the other program's steps
    stage,          \* the step to come
    frozen,         \* the plan: each output's sources
    fallback,       \* the outputs for which planning found no Loading Plugin
    allowance,      \* the Mod Roots whose existing Archives may need plugins
    todo,           \* planned outputs not yet attempted
    out,            \* the output being attempted
    pins,           \* the bytes of each source when it was pinned
    held,           \* sources whose read pin is held
    left,           \* the output's sources still to be deleted
    removing,       \* the source being deleted
    loader,         \* the plugin that loads the output, or is to be created
    mutation,       \* AttemptProgress: the durable mutation so far
    attempts,       \* what Run Evidence holds of each output
    account,        \* ArchiveFinalizationAccount: its failure and verdicts
    facts,          \* its mutations: the plugins reported as created
    roots,          \* Mod Roots still to maintain, or to prune
    listed,         \* Archives or plugins listed and still to maintain
    (* History *)
    published,      \* Archives the phase published
    created,        \* plugins the phase published
    deleted,        \* sources the phase deleted, with their bytes
    unloadable,     \* sources deleted while no plugin loaded their Archive
    taken           \* published Archives another program took

input == <<choices, frozen, fallback, allowance>>
disk == <<loose, archive, plugin>>
attempt == <<out, pins, held, left, removing, loader, mutation>>
progress == <<todo, roots, listed>>
evidence == <<attempts, account, facts>>
history == <<published, created, deleted, unloadable, taken>>
vars == <<input, cancelRequested, disk, packed, pruned, edits, stage, attempt, progress,
          evidence, history>>

Stages == {"begin", "plan", "check", "outputs", "size", "pin", "write", "publish",
           "release", "choose", "create", "pinPlugin", "clean", "remove", "verify",
           "maintain", "archives", "fillIn", "plugins", "prune", "done"}
Failures == {"none", "InsufficientCapacity", "WriteFailed", "CommitFailed",
             "PluginCreationFailed", "PluginRemovalFailed", "SourceCleanupFailed",
             "UnexpectedException"}
Mutations == {"None", "Committed"}

(* A Dummy Plugin; another plugin; a link to a plugin or an empty file;    *)
(* anything else, such as a directory.                                     *)
PluginKinds == {"none", "dummy", "plugin", "weak", "other"}
ArchiveKinds == {"none", "ours", "foreign"}

Choices == [requested : BOOLEAN, apply : BOOLEAN, delete : BOOLEAN, create : BOOLEAN]
Attempts == [failure : Failures, mutation : Mutations, safe : BOOLEAN]
NoAttempt == [failure |-> "none", mutation |-> "None", safe |-> TRUE]

TypeOK ==
    /\ choices \in Choices
    /\ cancelRequested \in BOOLEAN
    /\ loose \in [Files -> Nat]
    /\ archive \in [Archives -> ArchiveKinds]
    /\ packed \in [Archives -> [Files -> Nat]]
    /\ plugin \in [Plugins -> PluginKinds]
    /\ pruned \in SUBSET Roots
    /\ edits \in Nat
    /\ stage \in Stages
    /\ frozen \in [Archives -> SUBSET Files]
    /\ fallback \in SUBSET Archives
    /\ allowance \in SUBSET Roots
    /\ todo \in SUBSET Archives
    /\ out \in Archives \cup {Nothing}
    /\ pins \in [Files -> Nat]
    /\ held \in SUBSET Files
    /\ left \in SUBSET Files
    /\ removing \in Files \cup {Nothing}
    /\ loader \in Plugins \cup {Nothing}
    /\ mutation \in Mutations
    /\ attempts \in [Archives -> Attempts]
    /\ account \in [failure : Failures, cancelled : BOOLEAN, safe : BOOLEAN]
    /\ facts \in SUBSET Plugins
    /\ roots \in SUBSET Roots
    /\ listed \in SUBSET (Archives \cup Plugins)
    /\ published \in SUBSET Archives
    /\ created \in SUBSET Plugins
    /\ deleted \in SUBSET (Files \X Nat)
    /\ unloadable \in SUBSET Files
    /\ taken \in SUBSET Archives

Init ==
    /\ choices \in Choices
    /\ cancelRequested = FALSE
    /\ loose = [f \in Files |-> 1]
    /\ archive \in [Archives -> {"none", "foreign"}]
    /\ packed = [a \in Archives |-> [f \in Files |-> 0]]
    /\ plugin \in [Plugins -> PluginKinds]
    /\ pruned = {} /\ edits = 0 /\ stage = "begin"
    /\ frozen = [a \in Archives |-> {}] /\ fallback = {}
    /\ allowance = {} /\ todo = {}
    /\ out = Nothing /\ pins = [f \in Files |-> 0] /\ held = {} /\ left = {}
    /\ removing = Nothing /\ loader = Nothing /\ mutation = "None"
    /\ attempts = [a \in Archives |-> NoAttempt]
    /\ account = [failure |-> "none", cancelled |-> FALSE, safe |-> TRUE]
    /\ facts = {}
    /\ roots = {} /\ listed = {}
    /\ published = {} /\ created = {} /\ deleted = {} /\ unloadable = {} /\ taken = {}

At(s) == stage = s
Goto(s) == stage' = s

(* is_loading_plugin, at either strength.                                  *)
Durable(n) == plugin[n] \in {"dummy", "plugin"}
Present(n) == Durable(n) \/ plugin[n] = "weak"
Loads(n) == IF choices.delete THEN Durable(n) ELSE Present(n)

-----------------------------------------------------------------------------
(* The phase up to its first output.                                       *)

(* The phase ends.                                                         *)
Finish(failure, cancelled, safe) ==
    /\ account' = [failure |-> failure, cancelled |-> cancelled, safe |-> safe]
    /\ Goto("done")

Cancel == cancelRequested /\ Finish(account.failure, TRUE, account.safe)

(* What the phase's own bookkeeping leaves alone.                          *)
Quiet == UNCHANGED <<cancelRequested, disk, packed, pruned, edits, history>>

(* Without a request for Archives, an Apply run only prunes.               *)
Begin ==
    /\ At("begin")
    /\ IF choices.requested THEN Goto("plan") /\ UNCHANGED roots
       ELSE IF choices.apply THEN Goto("prune") /\ roots' = Roots
       ELSE Goto("done") /\ UNCHANGED roots
    /\ Quiet /\ UNCHANGED <<input, attempt, todo, listed, evidence>>

(* collect_sources: what the packer may put into an Archive.               *)
Packable(a) == {f \in FilesOf[a] : loose[f] # 0}

(* plan_finalization: each output has a free name and the sources that are *)
(* not excluded; whether a plugin loads it is known.                       *)
FreezePlan ==
    /\ \E plan \in [Archives -> SUBSET Files] :
         /\ \A a \in Archives : /\ plan[a] \subseteq Packable(a)
                                /\ plan[a] = {} \/ archive[a] = "none"
         /\ frozen' = plan
         /\ todo' = {a \in Archives : plan[a] # {}}
         /\ fallback' = {a \in Archives : /\ choices.create /\ plan[a] # {}
                                          /\ \A n \in NamesOf[a] : ~Present(n)}
    /\ allowance' = {r \in Roots : /\ choices.create
                                   /\ \E a \in Archives : RootOf[a] = r /\ archive[a] # "none"}
    /\ Quiet /\ UNCHANGED <<choices, attempt, roots, listed, evidence>>

Plan == At("plan") /\ choices.apply /\ FreezePlan /\ Goto("check")

(* A Dry Run stops where the phase would start mutating.                   *)
PlanCreation == At("plan") /\ ~choices.apply /\ FreezePlan /\ Goto("done")

(* Cancelled planning has no plan; failed planning escapes.                *)
StopPlanning ==
    /\ At("plan")
    /\ Cancel \/ Finish("UnexpectedException", FALSE, FALSE)
    /\ Quiet /\ UNCHANGED <<input, attempt, progress, attempts, facts>>

Unattempted(a, failure) ==
    attempts' = [attempts EXCEPT ![a] = [failure |-> failure, mutation |-> "None",
                                         safe |-> TRUE]]

(* The whole phase must fit before anything is written.  A shortage is the *)
(* attempt of an output of its root, or the phase's failure.               *)
CheckCapacity ==
    /\ At("check")
    /\ \/ Cancel /\ UNCHANGED attempts
       \/ ~cancelRequested /\ Goto("outputs") /\ UNCHANGED <<account, attempts>>
       \/ /\ ~cancelRequested
          /\ \E a \in todo : Unattempted(a, "InsufficientCapacity")
          /\ Goto("done") /\ UNCHANGED account
       \/ /\ ~cancelRequested /\ UNCHANGED attempts
          /\ \E r \in allowance : \A a \in todo : RootOf[a] # r
          /\ Finish("InsufficientCapacity", FALSE, account.safe)
    /\ Quiet /\ UNCHANGED <<input, attempt, progress, facts>>

NextOutput ==
    /\ At("outputs")
    /\ \/ Cancel /\ UNCHANGED <<out, left, todo, roots>>
       \/ /\ ~cancelRequested
          /\ \E a \in todo : /\ out' = a /\ todo' = todo \ {a}
                             /\ left' = IF choices.delete THEN frozen[a] ELSE {}
          /\ Goto("size") /\ UNCHANGED <<account, roots>>
       \/ /\ ~cancelRequested /\ todo = {}
          /\ Goto("maintain") /\ roots' = Roots
          /\ UNCHANGED <<account, out, left, todo>>
    /\ Quiet
    /\ UNCHANGED <<input, pins, held, removing, loader, mutation, listed, attempts, facts>>

-----------------------------------------------------------------------------
(* One output's attempt, which no cancellation interrupts.                 *)

(* Its pins are dropped when it ends.                                      *)
DropPins ==
    /\ out' = Nothing /\ held' = {} /\ left' = {} /\ removing' = Nothing
    /\ loader' = Nothing /\ mutation' = "None" /\ pins' = [f \in Files |-> 0]

(* Mutant: the attempt's own claim never stops the phase.                  *)
KeepGoing(failure, mutated, safe) ==
    /\ attempts' = [attempts EXCEPT ![out] = [failure |-> failure, mutation |-> mutated,
                                              safe |-> safe]]
    /\ account' = [account EXCEPT !.safe = safe]
    /\ IF failure = "InsufficientCapacity" THEN Goto("done") ELSE Goto("outputs")
    /\ DropPins

(* A capacity rejection ends the phase, an unsafe attempt too.             *)
Conclude(failure, mutated, safe) ==
    /\ attempts' = [attempts EXCEPT ![out] = [failure |-> failure, mutation |-> mutated,
                                              safe |-> safe]]
    /\ IF failure = "InsufficientCapacity" THEN Goto("done") /\ UNCHANGED account
       ELSE IF safe THEN Goto("outputs") /\ account' = [account EXCEPT !.safe = TRUE]
       ELSE Finish(account.failure, cancelRequested, FALSE)
    /\ DropPins

FailWrite == Conclude("WriteFailed", "None", TRUE)

(* The sources are sized again, and the output's volume checked.           *)
SizeSources ==
    /\ At("size")
    /\ \/ /\ \A f \in frozen[out] : loose[f] # 0
          /\ Goto(IF choices.delete THEN "pin" ELSE "write")
          /\ UNCHANGED <<attempt, attempts, account>>
       \/ FailWrite \/ Conclude("InsufficientCapacity", "None", TRUE)
    /\ Quiet /\ UNCHANGED <<input, progress, facts>>

(* SourceFilePin: nobody writes, renames or deletes the source meanwhile.  *)
PinSource ==
    /\ At("pin")
    /\ \/ /\ \E f \in frozen[out] \ held :
               /\ loose[f] # 0
               /\ held' = held \cup {f} /\ pins' = [pins EXCEPT ![f] = loose[f]]
          /\ Goto(IF frozen[out] \subseteq held' THEN "write" ELSE "pin")
          /\ UNCHANGED <<out, left, removing, loader, mutation, attempts, account>>
       \/ FailWrite
    /\ Quiet /\ UNCHANGED <<input, progress, facts>>

WriteArchive ==
    /\ At("write")
    /\ \/ /\ \A f \in frozen[out] : loose[f] # 0
          /\ packed' = [packed EXCEPT ![out] = [f \in Files |-> IF f \in frozen[out]
                                                               THEN loose[f] ELSE 0]]
          /\ Goto("publish") /\ UNCHANGED <<attempt, attempts, account>>
       \/ FailWrite /\ UNCHANGED packed
    /\ UNCHANGED <<cancelRequested, disk, pruned, edits, history, input, progress, facts>>

(* The rename refuses an occupied name.                                    *)
PublishArchive ==
    /\ At("publish")
    /\ \/ /\ archive[out] = "none"
          /\ archive' = [archive EXCEPT ![out] = "ours"]
          /\ published' = published \cup {out}
          /\ Goto("release") /\ UNCHANGED <<attempt, attempts, account>>
       \/ Conclude("CommitFailed", "None", TRUE) /\ UNCHANGED <<archive, published>>
    /\ UNCHANGED <<cancelRequested, loose, plugin, packed, pruned, edits, input, progress,
                   facts, created, deleted, unloadable, taken>>

ReleaseArchive ==
    /\ At("release")
    /\ \/ /\ mutation' = "Committed" /\ Goto(IF choices.create THEN "choose" ELSE "clean")
          /\ UNCHANGED <<out, pins, held, left, removing, loader, attempts, account>>
       \/ Conclude("CommitFailed", "Committed", FALSE)
    /\ Quiet /\ UNCHANGED <<input, progress, facts>>

-----------------------------------------------------------------------------
(* The output's Loading Plugin.                                            *)

(* A failed Loading Plugin is never safe.                                  *)
FailPlugin == Conclude("PluginCreationFailed", "Committed", FALSE)

LoadedElsewhere == {n \in NamesOf[out] \ {DummyOf[out]} : Loads(n)}

(* Before sources are deleted, a link or an empty file is no Dummy Plugin: *)
(* another name is taken.                                                  *)
Destinations ==
    LET dummy == DummyOf[out] IN
    IF choices.delete /\ plugin[dummy] # "none" /\ ~Loads(dummy)
    THEN {n \in NamesOf[out] : plugin[n] = "none"} ELSE {dummy}

WithLoader == Goto(IF choices.delete THEN "pinPlugin" ELSE "clean")

(* ensure_output_loading_plugin, up to the publication of a Dummy Plugin.  *)
ChooseLoader ==
    /\ At("choose")
    /\ \/ /\ loader' \in LoadedElsewhere /\ WithLoader
          /\ UNCHANGED <<out, pins, held, left, removing, mutation, attempts, account>>
       \/ /\ LoadedElsewhere = {} /\ loader' \in Destinations
          /\ \/ plugin[loader'] = "none" /\ Goto("create")
             \/ /\ plugin[loader'] \notin {"none", "other"}
                /\ out \in fallback => plugin[loader'] = "dummy"
                /\ WithLoader
          /\ UNCHANGED <<out, pins, held, left, removing, mutation, attempts, account>>
       \/ FailPlugin
    /\ Quiet /\ UNCHANGED <<input, progress, facts>>

(* publish_dummy_plugin: no entry is replaced.                             *)
PublishDummy ==
    /\ plugin[loader] = "none"
    /\ plugin' = [plugin EXCEPT ![loader] = "dummy"]
    /\ created' = created \cup {loader} /\ facts' = facts \cup {loader}

NoDummy == UNCHANGED <<plugin, created, facts>>

CreatePlugin ==
    /\ At("create")
    /\ \/ PublishDummy /\ WithLoader /\ UNCHANGED <<attempt, attempts, account>>
       \/ PublishDummy /\ FailPlugin
       \/ NoDummy /\ FailPlugin
    /\ UNCHANGED <<cancelRequested, loose, archive, packed, pruned, edits, input, progress,
                   published, deleted, unloadable, taken>>

(* LoadingPluginPin: a nonempty ordinary file, held until the last source  *)
(* is gone.                                                                *)
PinPlugin ==
    /\ At("pinPlugin")
    /\ \/ Durable(loader) /\ Goto("clean") /\ UNCHANGED <<attempt, attempts, account>>
       \/ FailPlugin
    /\ Quiet /\ UNCHANGED <<input, progress, facts>>

(* Mutant: the plugin is looked at, and not held.                          *)
NotPinned(n) == FALSE

PluginPinned(n) == loader = n /\ choices.delete /\ stage \in {"clean", "remove"}

-----------------------------------------------------------------------------
(* The output's sources.                                                   *)

(* The read pin gives way to a handle that may delete.                     *)
ReleaseSource ==
    /\ At("clean")
    /\ \/ /\ \E f \in left : removing' = f /\ held' = held \ {f}
          /\ Goto("remove")
          /\ UNCHANGED <<out, pins, left, loader, mutation, attempts, account>>
       \/ left = {} /\ Conclude("none", "Committed", TRUE)
    /\ Quiet /\ UNCHANGED <<input, progress, facts>>

(* Mutant: whatever the path names is deleted.                             *)
StillThere == loose[removing] # 0

(* unchanged_since: the pinned file object, unchanged.                     *)
Unchanged == loose[removing] = pins[removing] /\ loose[removing] # 0

RemoveSource ==
    /\ At("remove")
    /\ \/ /\ Unchanged
          /\ loose' = [loose EXCEPT ![removing] = 0]
          /\ deleted' = deleted \cup {<<removing, loose[removing]>>}
          /\ unloadable' = IF \E n \in NamesOf[out] : Durable(n) THEN unloadable
                           ELSE unloadable \cup {removing}
          /\ left' = left \ {removing}
          /\ Goto("clean") /\ UNCHANGED <<held, loader>>
       \/ /\ Goto("verify") /\ held' = {} /\ loader' = Nothing
          /\ UNCHANGED <<loose, deleted, unloadable, left>>
    /\ removing' = Nothing
    /\ UNCHANGED <<cancelRequested, archive, plugin, packed, pruned, edits, input, progress,
                   evidence, out, pins, mutation, published, created, taken>>

(* A failed cleanup goes on only while the Archive reads back and every    *)
(* source left is readable.                                                *)
JudgeCleanup ==
    /\ At("verify")
    /\ \E safe \in BOOLEAN :
         /\ safe => archive[out] # "none" /\ \A f \in left : loose[f] # 0
         /\ Conclude("SourceCleanupFailed", "Committed", safe)
    /\ Quiet /\ UNCHANGED <<input, progress, facts>>

(* A panic in an attempt keeps the mutation.                               *)
PanicInAttempt ==
    /\ stage \in {"size", "pin", "write", "publish", "choose", "create", "pinPlugin",
                  "clean", "remove"}
    /\ Conclude("UnexpectedException", mutation, FALSE)
    /\ Quiet /\ UNCHANGED <<input, progress, facts>>

-----------------------------------------------------------------------------
(* After the last output: plugins of existing Archives, then pruning.      *)

FailMaintenance(failure, safe) == Finish(failure, cancelRequested, safe)

(* A root is listed once its plugin allowance still fits.                  *)
MaintainRoot ==
    /\ At("maintain")
    /\ \/ roots # {} /\ Cancel /\ UNCHANGED <<roots, listed>>
       \/ /\ \E r \in roots :
               /\ roots' = roots \ {r}
               /\ listed' = IF choices.create
                            THEN {a \in Archives : RootOf[a] = r /\ archive[a] # "none"}
                            ELSE {n \in Plugins : PluginRootOf[n] = r /\ plugin[n] # "none"}
          /\ ~cancelRequested /\ UNCHANGED account
          /\ Goto(IF choices.create THEN "archives" ELSE "plugins")
       \/ /\ roots # {} /\ UNCHANGED <<roots, listed>>
          /\ \/ roots \cap allowance # {} /\ Finish("InsufficientCapacity", FALSE, account.safe)
             \/ choices.create /\ Finish("UnexpectedException", FALSE, FALSE)
             \/ ~choices.create /\ FailMaintenance("PluginRemovalFailed", account.safe)
       \/ roots = {} /\ roots' = Roots /\ Goto("prune") /\ UNCHANGED <<account, listed>>
    /\ Quiet /\ UNCHANGED <<input, attempt, todo, attempts, facts>>

(* create_missing_dummy_plugins.                                           *)
MaintainArchive ==
    /\ At("archives")
    /\ \/ listed = {} /\ Goto("maintain") /\ UNCHANGED <<listed, loader, account>>
       \/ listed # {} /\ Cancel /\ UNCHANGED <<listed, loader>>
       \/ /\ ~cancelRequested /\ UNCHANGED account
          /\ \E a \in listed :
               /\ listed' = listed \ {a}
               /\ \/ (\E n \in NamesOf[a] : Present(n)) /\ Goto("archives")
                     /\ UNCHANGED loader
                  \/ /\ \A n \in NamesOf[a] : ~Present(n)
                     /\ plugin[DummyOf[a]] = "none"
                     /\ loader' = DummyOf[a] /\ Goto("fillIn")
       \/ /\ listed # {} /\ FailMaintenance("PluginCreationFailed", account.safe)
          /\ UNCHANGED <<listed, loader>>
    /\ Quiet
    /\ UNCHANGED <<input, out, pins, held, left, removing, mutation, todo, roots, attempts,
                   facts>>

FillIn ==
    /\ At("fillIn")
    /\ \/ PublishDummy /\ Goto("archives") /\ UNCHANGED account
       \/ PublishDummy /\ FailMaintenance("PluginCreationFailed", FALSE)
       \/ NoDummy /\ FailMaintenance("PluginCreationFailed", TRUE)
    /\ loader' = Nothing
    /\ UNCHANGED <<cancelRequested, loose, archive, packed, pruned, edits, input, progress,
                   out, pins, held, left, removing, mutation, attempts,
                   published, deleted, unloadable, taken>>

(* remove_dummy_plugins: a pinned handle reads, compares and deletes.      *)
RemoveDummy ==
    /\ At("plugins")
    /\ \/ listed = {} /\ Goto("maintain") /\ UNCHANGED <<listed, plugin, account>>
       \/ listed # {} /\ Cancel /\ UNCHANGED <<listed, plugin>>
       \/ /\ ~cancelRequested /\ UNCHANGED account /\ Goto("plugins")
          /\ \E n \in listed :
               /\ listed' = listed \ {n}
               /\ \/ plugin[n] = "dummy" /\ plugin' = [plugin EXCEPT ![n] = "none"]
                  \/ plugin[n] \in {"plugin", "weak"} /\ UNCHANGED plugin
       \/ /\ listed # {} /\ FailMaintenance("PluginRemovalFailed", account.safe)
          /\ UNCHANGED <<listed, plugin>>
    /\ UNCHANGED <<cancelRequested, loose, archive, packed, pruned, edits, history, input,
                   attempt, todo, roots, attempts, facts>>

(* A panic or an error that no attempt accounts for.                       *)
Escape ==
    /\ stage \in {"maintain", "archives", "fillIn", "plugins", "prune"}
    /\ Finish("UnexpectedException", account.cancelled, FALSE)
    /\ Quiet /\ UNCHANGED <<input, attempt, progress, attempts, facts>>

(* prune_empty_directories; a root may have none.                          *)
PruneRoot ==
    /\ At("prune")
    /\ \/ roots = {} /\ Goto("done") /\ UNCHANGED <<roots, pruned, account>>
       \/ roots # {} /\ Cancel /\ UNCHANGED <<roots, pruned>>
       \/ /\ ~cancelRequested /\ Goto("prune") /\ UNCHANGED account
          /\ \E r \in roots : /\ roots' = roots \ {r}
                              /\ pruned' = pruned \cup {r} \/ UNCHANGED pruned
    /\ UNCHANGED <<cancelRequested, disk, packed, edits, history, input, attempt, todo,
                   listed, attempts, facts>>

-----------------------------------------------------------------------------
(* The user, and another program.                                          *)

RequestCancel ==
    /\ ~At("done") /\ ~cancelRequested /\ cancelRequested' = TRUE
    /\ UNCHANGED <<disk, packed, pruned, edits, stage, input, attempt, progress, evidence,
                   history>>

Edit ==
    /\ ~At("done") /\ edits < MaxEdits
    /\ edits' = edits + 1
    /\ UNCHANGED <<cancelRequested, packed, pruned, stage, input, attempt, progress, evidence,
                   published, created, deleted, unloadable>>

(* It edits, replaces, creates or deletes a source nobody holds.           *)
ForeignSource ==
    /\ Edit
    /\ \E f \in Files \ held, bytes \in {0, 1 + edits'} :
         loose' = [loose EXCEPT ![f] = bytes]
    /\ UNCHANGED <<archive, plugin, taken>>

ForeignArchive ==
    /\ Edit
    /\ \E a \in Archives, k \in {"none", "foreign"} :
         /\ archive' = [archive EXCEPT ![a] = k]
         /\ taken' = IF archive[a] = "ours" THEN taken \cup {a} ELSE taken
    /\ UNCHANGED <<loose, plugin>>

ForeignPlugin ==
    /\ Edit
    /\ \E n \in Plugins, k \in PluginKinds :
         ~PluginPinned(n) /\ plugin' = [plugin EXCEPT ![n] = k]
    /\ UNCHANGED <<loose, archive, taken>>

Finalize ==
    \/ Begin \/ Plan \/ PlanCreation \/ StopPlanning \/ CheckCapacity \/ NextOutput \/ SizeSources
    \/ PinSource \/ WriteArchive \/ PublishArchive \/ ReleaseArchive \/ ChooseLoader
    \/ CreatePlugin \/ PinPlugin \/ ReleaseSource \/ RemoveSource \/ JudgeCleanup
    \/ PanicInAttempt \/ MaintainRoot \/ MaintainArchive \/ FillIn \/ RemoveDummy
    \/ Escape \/ PruneRoot

Next == Finalize \/ RequestCancel \/ ForeignSource \/ ForeignArchive \/ ForeignPlugin

Spec == Init /\ [][Next]_vars

-----------------------------------------------------------------------------
(* Properties                                                              *)

(* "The Archive holds exactly the bytes deleted": every deleted source is  *)
(* in an Archive the phase published, which is in place unless another     *)
(* program took it.                                                        *)
NothingPackedIsLost ==
    \A d \in deleted : \E a \in published :
        packed[a][d[1]] = d[2] /\ (archive[a] = "ours" \/ a \in taken)

(* "The plugin must not disappear ... before the last source is gone":     *)
(* where Dummy Plugins are wanted, no source is deleted unless an ordinary *)
(* plugin loads its Archive at that moment.                                *)
DeletesOnlyWhatLoads == choices.create => unloadable = {}

(* Empty directories are source evidence of a failed attempt: they go only *)
(* after every planned output was attempted, none of them unsafe or short  *)
(* of space, and plugin maintenance did not fail.                          *)
PrunesOnlyWhatIsSettled ==
    pruned # {} =>
        /\ todo = {}
        /\ \A a \in Archives : /\ attempts[a].safe
                               /\ attempts[a].failure # "InsufficientCapacity"
        /\ account.failure \in {"none", "UnexpectedException"}

(* Between attempts, and at the end, the evidence is the truth: an output  *)
(* is reported as committed exactly when it was published, after a failed  *)
(* release and a panic too; only a failed cleanup of its sources may be    *)
(* followed by another output; and every plugin created is on record.      *)
MutationsAreReported ==
    /\ out = Nothing => \A a \in Archives :
         attempts[a].mutation = "Committed" <=> a \in published
    /\ \A a \in Archives : attempts[a].safe /\ attempts[a].mutation = "Committed" =>
         attempts[a].failure \in {"none", "SourceCleanupFailed"}
    /\ created \subseteq facts

(* The comment on delete_sources: "Delete packed Loose Assets once their   *)
(* Archive is loadable".                                                   *)
DeletedOnceLoadable == unloadable = {}

=============================================================================
