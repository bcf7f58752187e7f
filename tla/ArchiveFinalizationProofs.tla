---------------------- MODULE ArchiveFinalizationProofs ----------------------
(***************************************************************************)
(* Proofs about ArchiveFinalization, for any Files, Archives, plugins and  *)
(* Mod Roots and any number of changes another program makes.              *)
(* FinalizationInv says what the phase has pinned, packed, published and   *)
(* recorded at each stage; the safety properties are projections.          *)
(***************************************************************************)
EXTENDS ArchiveFinalization, TLAPS

Unpublished == {"size", "pin", "write", "publish"}
Committed == {"choose", "create", "pinPlugin", "clean", "remove", "verify"}
Attempting == Unpublished \cup Committed \cup {"release"}
Maintaining == {"maintain", "archives", "fillIn", "plugins", "prune"}

(* An attempt has an output, its steps their plugin and source, and        *)
(* maintenance a list.                                                     *)
OutputOfStage ==
    /\ IF stage \in Attempting THEN out \in Archives ELSE out = Nothing
    /\ stage \in {"create", "fillIn"} => loader \in Plugins
    /\ At("remove") => removing \in left
    /\ stage \in {"archives", "fillIn"} => listed \subseteq Archives
    /\ At("plugins") => listed \subseteq Plugins

(* What was published is on record, or about to be.                        *)
EvidenceOfStage ==
    /\ \A a \in Archives : attempts[a].mutation = "Committed" => a \in published
    /\ \A a \in published : attempts[a].mutation = "Committed" \/ a = out
    /\ \A a \in Archives : attempts[a].safe /\ attempts[a].mutation = "Committed" =>
         attempts[a].failure \in {"none", "SourceCleanupFailed"}
    /\ todo \cap published = {} /\ out \notin todo
    /\ stage \in {"begin", "plan", "check"} => published = {}
    /\ stage \in Unpublished => out \notin published
    /\ stage \in Committed \cup {"release"} => out \in published
    /\ mutation = IF stage \in Committed THEN "Committed" ELSE "None"
    /\ created \subseteq facts

(* The phase goes on only while nothing failed that stops it.              *)
ProgressOfStage ==
    /\ ~At("done") => /\ account.failure = "none"
                      /\ \A a \in Archives : attempts[a].safe
                      /\ \A a \in Archives : attempts[a].failure # "InsufficientCapacity"
    /\ stage \in Maintaining \cup {"begin"} => todo = {}
    /\ pruned # {} => stage \in {"prune", "done"}
    /\ PrunesOnlyWhatIsSettled

(* The sources still to delete are in the output as they were pinned.      *)
SourcesOfStage ==
    /\ left # {} => stage \in Attempting /\ choices.delete /\ left \subseteq frozen[out]
    /\ \A f \in held : loose[f] = pins[f]
    /\ At("remove") => removing \notin held
    /\ At("write") /\ choices.delete => frozen[out] \subseteq held
    /\ stage \in Committed \cup {"publish", "release"} =>
         \A f \in left : packed[out][f] = pins[f]

(* Deleted sources are in Archives that nobody else took.                  *)
PackedOfStage ==
    /\ \A a \in published : archive[a] = "ours" \/ a \in taken
    /\ \A d \in deleted : \E a \in published : packed[a][d[1]] = d[2]

(* The plugin that loads the output is pinned while sources go.            *)
LoaderOfStage ==
    /\ stage \in {"create", "pinPlugin"} => loader \in NamesOf[out]
    /\ stage \in {"clean", "remove"} /\ choices.delete /\ choices.create =>
         loader \in NamesOf[out] /\ Durable(loader)
    /\ DeletesOnlyWhatLoads

FinalizationInv ==
    /\ EvidenceOfStage /\ ProgressOfStage /\ SourcesOfStage /\ PackedOfStage
    /\ LoaderOfStage

(***************************************************************************)
(* Type correctness.                                                       *)
(***************************************************************************)

(* The labels the actions use.                                             *)
LEMMA Names ==
    /\ \A s \in {"begin", "plan", "check", "outputs", "size", "pin", "write", "publish",
                  "release", "choose", "create", "pinPlugin", "clean", "remove", "verify",
                  "maintain", "archives", "fillIn", "plugins", "prune", "done"} : s \in Stages
    /\ \A f \in {"none", "InsufficientCapacity", "WriteFailed", "CommitFailed",
                  "PluginCreationFailed", "PluginRemovalFailed", "SourceCleanupFailed",
                  "UnexpectedException"} : f \in Failures
    /\ \A m \in {"None", "Committed"} : m \in Mutations
BY DEF Stages, Failures, Mutations

(* What the phase leaves when it ends.                                     *)
LEMMA FinishType ==
    ASSUME NEW f \in Failures, NEW c \in BOOLEAN, NEW s \in BOOLEAN, Finish(f, c, s)
    PROVE  /\ account' \in [failure : Failures, cancelled : BOOLEAN, safe : BOOLEAN]
           /\ stage' = "done"
BY DEF Finish, Goto

LEMMA CancelType ==
    ASSUME TypeOK, Cancel
    PROVE  /\ account' \in [failure : Failures, cancelled : BOOLEAN, safe : BOOLEAN]
           /\ stage' = "done"
<1>1. account.failure \in Failures /\ account.safe \in BOOLEAN
  BY DEF TypeOK
<1>2. QED
  BY <1>1, FinishType DEF Cancel

(* What an attempt leaves when it ends.                                    *)
LEMMA ConcludeType ==
    ASSUME TypeOK, out \in Archives, NEW f \in Failures, NEW m \in Mutations,
           NEW s \in BOOLEAN, Conclude(f, m, s)
    PROVE  /\ attempts' \in [Archives -> Attempts]
           /\ account' \in [failure : Failures, cancelled : BOOLEAN, safe : BOOLEAN]
           /\ stage' \in {"done", "outputs"}
           /\ out' = Nothing /\ pins' \in [Files -> Nat] /\ held' = {} /\ left' = {}
           /\ removing' = Nothing /\ loader' = Nothing /\ mutation' = "None"
<1>1. attempts' \in [Archives -> Attempts]
  BY DEF TypeOK, Conclude, Attempts
<1>2. account' \in [failure : Failures, cancelled : BOOLEAN, safe : BOOLEAN]
  <2>1. account.failure \in Failures /\ cancelRequested \in BOOLEAN
    BY DEF TypeOK
  <2>2. CASE Finish(account.failure, cancelRequested, FALSE)
    BY <2>1, <2>2, FinishType
  <2>3. CASE UNCHANGED account \/ account' = [account EXCEPT !.safe = TRUE]
    BY <2>3 DEF TypeOK
  <2>4. QED
    BY <2>2, <2>3 DEF Conclude
<1>3. stage' \in {"done", "outputs"}
  BY DEF Conclude, Finish, Goto
<1>4. pins' \in [Files -> Nat]
  BY DEF Conclude, DropPins
<1>5. QED
  BY <1>1, <1>2, <1>3, <1>4 DEF Conclude, DropPins

LEMMA FailPluginType ==
    ASSUME TypeOK, out \in Archives, FailPlugin
    PROVE  /\ attempts' \in [Archives -> Attempts]
           /\ account' \in [failure : Failures, cancelled : BOOLEAN, safe : BOOLEAN]
           /\ stage' \in {"done", "outputs"}
           /\ out' = Nothing /\ pins' \in [Files -> Nat] /\ held' = {} /\ left' = {}
           /\ removing' = Nothing /\ loader' = Nothing /\ mutation' = "None"
<1>1. "PluginCreationFailed" \in Failures /\ "Committed" \in Mutations
  BY Names
<1>2. QED
  BY <1>1, ConcludeType DEF FailPlugin

LEMMA ReplaceTypes ==
    ASSUME NEW S, NEW T, NEW g \in [S -> T], NEW x \in S, NEW y \in T
    PROVE  [g EXCEPT ![x] = y] \in [S -> T]
OBVIOUS

LEMMA InitType == Init => TypeOK /\ OutputOfStage
<1> SUFFICES ASSUME Init PROVE TypeOK /\ OutputOfStage
  OBVIOUS
<1>1. attempts \in [Archives -> Attempts] /\ archive \in [Archives -> ArchiveKinds]
  BY Names DEF Init, NoAttempt, Attempts, ArchiveKinds
<1>2. account \in [failure : Failures, cancelled : BOOLEAN, safe : BOOLEAN]
  BY Names DEF Init
<1>3. packed \in [Archives -> [Files -> Nat]]
  BY DEF Init
<1>4. OutputOfStage
  BY DEF Init, OutputOfStage, Attempting, Unpublished, Committed, At
<1>5. QED
  BY <1>1, <1>2, <1>3, <1>4, Names, ConstantsAssumption DEF Init, TypeOK

(* Every action keeps every variable in its type.                          *)
LEMMA TypeStep == TypeOK /\ OutputOfStage /\ [Next]_vars => TypeOK' /\ OutputOfStage'
<1> SUFFICES ASSUME TypeOK, OutputOfStage, [Next]_vars PROVE TypeOK' /\ OutputOfStage'
  OBVIOUS
<1> USE ConstantsAssumption DEF TypeOK, At, Goto, input, disk, attempt, progress, evidence, history
<1>1. CASE Begin
  <2>1. attempts' \in [Archives -> Attempts]
    BY <1>1, Names DEF Begin, Quiet, Attempts
  <2>2. account' \in [failure : Failures, cancelled : BOOLEAN, safe : BOOLEAN]
    <3>1. account.safe \in BOOLEAN /\ account.cancelled \in BOOLEAN /\ cancelRequested \in BOOLEAN
      OBVIOUS
    <3>2. QED
      BY <1>1, <3>1, Names, FinishType, CancelType DEF Begin, Quiet
  <2>3. stage' \in Stages
    BY <1>1, Names DEF Begin, Quiet
  <2>4. loose' \in [Files -> Nat] /\ archive' \in [Archives -> ArchiveKinds] /\ plugin' \in [Plugins -> PluginKinds]
    BY <1>1 DEF Begin, Quiet, OutputOfStage, Attempting, Unpublished, Committed,
       PluginKinds, ArchiveKinds
  <2>5. TypeOK'
    BY <1>1, <2>1, <2>2, <2>3, <2>4, Names DEF Begin, Quiet, OutputOfStage, Attempting,
       Unpublished, Committed
  <2>6. OutputOfStage'
    BY <1>1, Names DEF Begin, Quiet, OutputOfStage, Attempting, Unpublished, Committed
  <2>7. QED
    BY <2>5, <2>6
<1>2. CASE Plan
  <2>1. attempts' \in [Archives -> Attempts]
    BY <1>2, Names DEF Plan, FreezePlan, Packable, Quiet, Present, Durable, Attempts
  <2>2. account' \in [failure : Failures, cancelled : BOOLEAN, safe : BOOLEAN]
    <3>1. account.safe \in BOOLEAN /\ account.cancelled \in BOOLEAN /\ cancelRequested \in BOOLEAN
      OBVIOUS
    <3>2. QED
      BY <1>2, <3>1, Names, FinishType, CancelType DEF Plan, FreezePlan, Packable, Quiet,
         Present, Durable
  <2>3. stage' \in Stages
    BY <1>2, Names DEF Plan, FreezePlan, Packable, Quiet, Present, Durable
  <2>4. loose' \in [Files -> Nat] /\ archive' \in [Archives -> ArchiveKinds] /\ plugin' \in [Plugins -> PluginKinds]
    BY <1>2 DEF Plan, FreezePlan, Packable, Quiet, Present, Durable, OutputOfStage,
       Attempting, Unpublished, Committed, PluginKinds, ArchiveKinds
  <2>5. TypeOK'
    BY <1>2, <2>1, <2>2, <2>3, <2>4, Names DEF Plan, FreezePlan, Packable, Quiet, Present,
       Durable, OutputOfStage, Attempting, Unpublished, Committed
  <2>6. OutputOfStage'
    BY <1>2, Names DEF Plan, FreezePlan, Packable, Quiet, Present, Durable, OutputOfStage,
       Attempting, Unpublished, Committed
  <2>7. QED
    BY <2>5, <2>6
<1>3. CASE PlanCreation
  <2>1. attempts' \in [Archives -> Attempts]
    BY <1>3, Names DEF PlanCreation, FreezePlan, Packable, Quiet, Present, Durable, Attempts
  <2>2. account' \in [failure : Failures, cancelled : BOOLEAN, safe : BOOLEAN]
    <3>1. account.safe \in BOOLEAN /\ account.cancelled \in BOOLEAN /\ cancelRequested \in BOOLEAN
      OBVIOUS
    <3>2. QED
      BY <1>3, <3>1, Names, FinishType, CancelType DEF PlanCreation, FreezePlan, Packable,
         Quiet, Present, Durable
  <2>3. stage' \in Stages
    BY <1>3, Names DEF PlanCreation, FreezePlan, Packable, Quiet, Present, Durable
  <2>4. loose' \in [Files -> Nat] /\ archive' \in [Archives -> ArchiveKinds] /\ plugin' \in [Plugins -> PluginKinds]
    BY <1>3 DEF PlanCreation, FreezePlan, Packable, Quiet, Present, Durable, OutputOfStage,
       Attempting, Unpublished, Committed, PluginKinds, ArchiveKinds
  <2>5. TypeOK'
    BY <1>3, <2>1, <2>2, <2>3, <2>4, Names DEF PlanCreation, FreezePlan, Packable, Quiet,
       Present, Durable, OutputOfStage, Attempting, Unpublished, Committed
  <2>6. OutputOfStage'
    BY <1>3, Names DEF PlanCreation, FreezePlan, Packable, Quiet, Present, Durable,
       OutputOfStage, Attempting, Unpublished, Committed
  <2>7. QED
    BY <2>5, <2>6
<1>4. CASE StopPlanning
  <2>1. attempts' \in [Archives -> Attempts]
    BY <1>4, Names DEF StopPlanning, Cancel, Finish, Quiet, Attempts
  <2>2. account' \in [failure : Failures, cancelled : BOOLEAN, safe : BOOLEAN]
    <3>1. account.safe \in BOOLEAN /\ account.cancelled \in BOOLEAN /\ cancelRequested \in BOOLEAN
      OBVIOUS
    <3>2. QED
      BY <1>4, <3>1, Names, FinishType, CancelType DEF StopPlanning, Quiet
  <2>3. stage' \in Stages
    BY <1>4, Names DEF StopPlanning, Cancel, Finish, Quiet
  <2>4. loose' \in [Files -> Nat] /\ archive' \in [Archives -> ArchiveKinds] /\ plugin' \in [Plugins -> PluginKinds]
    BY <1>4 DEF StopPlanning, Cancel, Finish, Quiet, OutputOfStage, Attempting, Unpublished,
       Committed, PluginKinds, ArchiveKinds
  <2>5. TypeOK'
    BY <1>4, <2>1, <2>2, <2>3, <2>4, Names DEF StopPlanning, Cancel, Finish, Quiet,
       OutputOfStage, Attempting, Unpublished, Committed
  <2>6. OutputOfStage'
    BY <1>4, Names DEF StopPlanning, Cancel, Finish, Quiet, OutputOfStage, Attempting,
       Unpublished, Committed
  <2>7. QED
    BY <2>5, <2>6
<1>5. CASE CheckCapacity
  <2>1. attempts' \in [Archives -> Attempts]
    <3>1. [failure |-> "InsufficientCapacity", mutation |-> "None", safe |-> TRUE] \in Attempts
      BY Names DEF Attempts
    <3>2. ASSUME NEW a \in todo, Unattempted(a, "InsufficientCapacity")
          PROVE  attempts' \in [Archives -> Attempts]
      BY <3>1, <3>2 DEF Unattempted
    <3>3. CASE UNCHANGED attempts
      BY <3>3
    <3>4. QED
      BY <1>5, <3>2, <3>3 DEF CheckCapacity, Cancel
  <2>2. account' \in [failure : Failures, cancelled : BOOLEAN, safe : BOOLEAN]
    <3>1. account.safe \in BOOLEAN /\ account.cancelled \in BOOLEAN /\ cancelRequested \in BOOLEAN
      OBVIOUS
    <3>2. CASE Finish("InsufficientCapacity", FALSE, account.safe)
      BY <3>1, <3>2, Names DEF Finish
    <3>3. CASE Cancel
      BY <3>3, CancelType
    <3>4. CASE UNCHANGED account
      BY <3>4
    <3>5. QED
      BY <1>5, <3>2, <3>3, <3>4 DEF CheckCapacity, Quiet, Unattempted
  <2>3. stage' \in Stages
    BY <1>5, Names DEF CheckCapacity, Cancel, Finish, Quiet, Unattempted
  <2>4. loose' \in [Files -> Nat] /\ archive' \in [Archives -> ArchiveKinds] /\ plugin' \in [Plugins -> PluginKinds]
    BY <1>5 DEF CheckCapacity, Cancel, Finish, Quiet, Unattempted, OutputOfStage,
       Attempting, Unpublished, Committed, PluginKinds, ArchiveKinds
  <2>5. TypeOK'
    BY <1>5, <2>1, <2>2, <2>3, <2>4, Names DEF CheckCapacity, Cancel, Finish, Quiet,
       Unattempted, OutputOfStage, Attempting, Unpublished, Committed
  <2>6. OutputOfStage'
    BY <1>5, Names DEF CheckCapacity, Cancel, Finish, Quiet, Unattempted, OutputOfStage,
       Attempting, Unpublished, Committed
  <2>7. QED
    BY <2>5, <2>6
<1>6. CASE NextOutput
  <2>1. attempts' \in [Archives -> Attempts]
    BY <1>6, Names DEF NextOutput, Cancel, Finish, Quiet, Attempts
  <2>2. account' \in [failure : Failures, cancelled : BOOLEAN, safe : BOOLEAN]
    <3>1. account.safe \in BOOLEAN /\ account.cancelled \in BOOLEAN /\ cancelRequested \in BOOLEAN
      OBVIOUS
    <3>2. QED
      BY <1>6, <3>1, Names, FinishType, CancelType DEF NextOutput, Quiet
  <2>3. stage' \in Stages
    BY <1>6, Names DEF NextOutput, Cancel, Finish, Quiet
  <2>4. loose' \in [Files -> Nat] /\ archive' \in [Archives -> ArchiveKinds] /\ plugin' \in [Plugins -> PluginKinds]
    BY <1>6 DEF NextOutput, Cancel, Finish, Quiet, OutputOfStage, Attempting, Unpublished,
       Committed, PluginKinds, ArchiveKinds
  <2>5. TypeOK'
    BY <1>6, <2>1, <2>2, <2>3, <2>4, Names DEF NextOutput, Cancel, Finish, Quiet,
       OutputOfStage, Attempting, Unpublished, Committed
  <2>6. OutputOfStage'
    BY <1>6, Names DEF NextOutput, Cancel, Finish, Quiet, OutputOfStage, Attempting,
       Unpublished, Committed
  <2>7. QED
    BY <2>5, <2>6
<1>7. CASE SizeSources
  <2>1. out \in Archives
    BY <1>7 DEF SizeSources, OutputOfStage, Attempting, Unpublished, Committed
  <2>2. attempts' \in [Archives -> Attempts]
    BY <1>7, <2>1, ConcludeType, Names DEF SizeSources, FailWrite, Quiet, Attempts
  <2>3. account' \in [failure : Failures, cancelled : BOOLEAN, safe : BOOLEAN]
    BY <1>7, <2>1, ConcludeType, Names DEF SizeSources, FailWrite, Quiet
  <2>4. stage' \in Stages
    BY <1>7, <2>1, ConcludeType, Names DEF SizeSources, FailWrite, Quiet
  <2>5. loose' \in [Files -> Nat] /\ archive' \in [Archives -> ArchiveKinds] /\ plugin' \in [Plugins -> PluginKinds]
    BY <1>7, <2>1, ConcludeType DEF SizeSources, FailWrite, Quiet, OutputOfStage,
       Attempting, Unpublished, Committed, PluginKinds, ArchiveKinds
  <2>6. TypeOK'
    BY <1>7, <2>1, ConcludeType, <2>2, <2>3, <2>4, <2>5, Names DEF SizeSources, FailWrite,
       Quiet, OutputOfStage, Attempting, Unpublished, Committed
  <2>7. OutputOfStage'
    BY <1>7, <2>1, ConcludeType, Names DEF SizeSources, FailWrite, Quiet, OutputOfStage,
       Attempting, Unpublished, Committed
  <2>8. QED
    BY <2>6, <2>7
<1>8. CASE PinSource
  <2>1. out \in Archives
    BY <1>8 DEF PinSource, OutputOfStage, Attempting, Unpublished, Committed
  <2>2. attempts' \in [Archives -> Attempts]
    BY <1>8, <2>1, ConcludeType, Names DEF PinSource, FailWrite, Quiet, Attempts
  <2>3. account' \in [failure : Failures, cancelled : BOOLEAN, safe : BOOLEAN]
    BY <1>8, <2>1, ConcludeType, Names DEF PinSource, FailWrite, Quiet
  <2>4. stage' \in Stages
    BY <1>8, <2>1, ConcludeType, Names DEF PinSource, FailWrite, Quiet
  <2>5. loose' \in [Files -> Nat] /\ archive' \in [Archives -> ArchiveKinds] /\ plugin' \in [Plugins -> PluginKinds]
    BY <1>8, <2>1, ConcludeType DEF PinSource, FailWrite, Quiet, OutputOfStage, Attempting,
       Unpublished, Committed, PluginKinds, ArchiveKinds
  <2>6. pins' \in [Files -> Nat] /\ held' \in SUBSET Files
    <3>1. CASE FailWrite
      BY <3>1, <2>1, ConcludeType, Names DEF FailWrite
    <3>2. ASSUME NEW f \in frozen[out] \ held, held' = held \cup {f},
                 pins' = [pins EXCEPT ![f] = loose[f]]
          PROVE  pins' \in [Files -> Nat] /\ held' \in SUBSET Files
      <4>1. f \in Files /\ loose[f] \in Nat
        BY <2>1
      <4>2. QED
        BY <3>2, <4>1
    <3>3. QED
      BY <1>8, <3>1, <3>2 DEF PinSource
  <2>7. TypeOK'
    BY <1>8, <2>1, ConcludeType, <2>2, <2>3, <2>4, <2>5, <2>6, Names DEF PinSource,
       FailWrite, Quiet, OutputOfStage, Attempting, Unpublished, Committed
  <2>8. OutputOfStage'
    BY <1>8, <2>1, ConcludeType, Names DEF PinSource, FailWrite, Quiet, OutputOfStage,
       Attempting, Unpublished, Committed
  <2>9. QED
    BY <2>7, <2>8
<1>9. CASE WriteArchive
  <2>1. out \in Archives
    BY <1>9 DEF WriteArchive, OutputOfStage, Attempting, Unpublished, Committed
  <2>2. attempts' \in [Archives -> Attempts]
    BY <1>9, <2>1, ConcludeType, Names DEF WriteArchive, FailWrite, Attempts
  <2>3. account' \in [failure : Failures, cancelled : BOOLEAN, safe : BOOLEAN]
    BY <1>9, <2>1, ConcludeType, Names DEF WriteArchive, FailWrite
  <2>4. stage' \in Stages
    BY <1>9, <2>1, ConcludeType, Names DEF WriteArchive, FailWrite
  <2>5. loose' \in [Files -> Nat] /\ archive' \in [Archives -> ArchiveKinds] /\ plugin' \in [Plugins -> PluginKinds]
    BY <1>9, <2>1, ConcludeType DEF WriteArchive, FailWrite, OutputOfStage, Attempting,
       Unpublished, Committed, PluginKinds, ArchiveKinds
  <2>6. packed' \in [Archives -> [Files -> Nat]]
    <3>1. [f \in Files |-> IF f \in frozen[out] THEN loose[f] ELSE 0] \in [Files -> Nat]
      OBVIOUS
    <3>2. CASE UNCHANGED packed
      BY <3>2
    <3>3. CASE packed' = [packed EXCEPT ![out] = [f \in Files |-> IF f \in frozen[out]
                                                                THEN loose[f] ELSE 0]]
      BY <3>1, <3>3
    <3>4. QED
      BY <1>9, <3>2, <3>3 DEF WriteArchive
  <2>7. TypeOK'
    BY <1>9, <2>1, ConcludeType, <2>2, <2>3, <2>4, <2>5, <2>6, Names DEF WriteArchive,
       FailWrite, OutputOfStage, Attempting, Unpublished, Committed
  <2>8. OutputOfStage'
    BY <1>9, <2>1, ConcludeType, Names DEF WriteArchive, FailWrite, OutputOfStage,
       Attempting, Unpublished, Committed
  <2>9. QED
    BY <2>7, <2>8
<1>10. CASE PublishArchive
  <2>1. out \in Archives
    BY <1>10 DEF PublishArchive, OutputOfStage, Attempting, Unpublished, Committed
  <2>2. attempts' \in [Archives -> Attempts]
    BY <1>10, <2>1, ConcludeType, Names DEF PublishArchive, Attempts
  <2>3. account' \in [failure : Failures, cancelled : BOOLEAN, safe : BOOLEAN]
    BY <1>10, <2>1, ConcludeType, Names DEF PublishArchive
  <2>4. stage' \in Stages
    BY <1>10, <2>1, ConcludeType, Names DEF PublishArchive
  <2>5. loose' \in [Files -> Nat] /\ archive' \in [Archives -> ArchiveKinds] /\ plugin' \in [Plugins -> PluginKinds]
    <3>2. loose' \in [Files -> Nat]
      BY <1>10 DEF PublishArchive
    <3>3. archive' \in [Archives -> ArchiveKinds]
      <4>1. archive' = archive \/ archive' = [archive EXCEPT ![out] = "ours"]
        BY <1>10 DEF PublishArchive
      <4>2. "ours" \in ArchiveKinds /\ archive \in [Archives -> ArchiveKinds]
        BY DEF ArchiveKinds
      <4>3. QED
        <5> HIDE DEF TypeOK
        <5>1. CASE archive' = archive
          BY <4>2, <5>1
        <5>2. CASE archive' = [archive EXCEPT ![out] = "ours"]
          BY <2>1, <4>2, <5>2, ReplaceTypes
        <5>3. QED
          BY <4>1, <5>1, <5>2
    <3>4. plugin' \in [Plugins -> PluginKinds]
      BY <1>10 DEF PublishArchive
    <3>5. QED
      BY <3>2, <3>3, <3>4
  <2>6. TypeOK'
    BY <1>10, <2>1, ConcludeType, <2>2, <2>3, <2>4, <2>5, Names DEF PublishArchive,
       OutputOfStage, Attempting, Unpublished, Committed
  <2>7. OutputOfStage'
    BY <1>10, <2>1, ConcludeType, Names DEF PublishArchive, OutputOfStage, Attempting,
       Unpublished, Committed
  <2>8. QED
    BY <2>6, <2>7
<1>11. CASE ReleaseArchive
  <2>1. out \in Archives
    BY <1>11 DEF ReleaseArchive, OutputOfStage, Attempting, Unpublished, Committed
  <2>2. attempts' \in [Archives -> Attempts]
    BY <1>11, <2>1, ConcludeType, Names DEF ReleaseArchive, Quiet, Attempts
  <2>3. account' \in [failure : Failures, cancelled : BOOLEAN, safe : BOOLEAN]
    BY <1>11, <2>1, ConcludeType, Names DEF ReleaseArchive, Quiet
  <2>4. stage' \in Stages
    BY <1>11, <2>1, ConcludeType, Names DEF ReleaseArchive, Quiet
  <2>5. loose' \in [Files -> Nat] /\ archive' \in [Archives -> ArchiveKinds] /\ plugin' \in [Plugins -> PluginKinds]
    BY <1>11, <2>1, ConcludeType DEF ReleaseArchive, Quiet, OutputOfStage, Attempting,
       Unpublished, Committed, PluginKinds, ArchiveKinds
  <2>6. TypeOK'
    BY <1>11, <2>1, ConcludeType, <2>2, <2>3, <2>4, <2>5, Names DEF ReleaseArchive, Quiet,
       OutputOfStage, Attempting, Unpublished, Committed
  <2>7. OutputOfStage'
    BY <1>11, <2>1, ConcludeType, Names DEF ReleaseArchive, Quiet, OutputOfStage,
       Attempting, Unpublished, Committed
  <2>8. QED
    BY <2>6, <2>7
<1>12. CASE ChooseLoader
  <2>1. out \in Archives /\ NamesOf[out] \subseteq Plugins /\ DummyOf[out] \in Plugins
    BY <1>12 DEF ChooseLoader, OutputOfStage, Attempting, Unpublished, Committed
  <2>2. UNCHANGED <<cancelRequested, loose, archive, plugin, packed, pruned, edits, published,
                    created, deleted, unloadable, taken, choices, frozen, fallback,
                    allowance, todo, roots, listed, facts>>
    BY <1>12 DEF ChooseLoader, Quiet
  <2>3. CASE FailPlugin
    <3>1. /\ attempts' \in [Archives -> Attempts]
          /\ account' \in [failure : Failures, cancelled : BOOLEAN, safe : BOOLEAN]
          /\ stage' \in {"done", "outputs"}
          /\ out' = Nothing /\ pins' \in [Files -> Nat] /\ held' = {} /\ left' = {}
          /\ removing' = Nothing /\ loader' = Nothing /\ mutation' = "None"
      BY <2>1, <2>3, FailPluginType
    <3>2. stage' \in Stages /\ "None" \in Mutations
      BY <3>1, Names
    <3>3. TypeOK'
      BY <2>2, <3>1, <3>2
    <3>4. OutputOfStage'
      BY <3>1 DEF OutputOfStage, Attempting, Unpublished, Committed
    <3>5. QED
      BY <3>3, <3>4
  <2>4. CASE /\ loader' \in Plugins /\ stage' \in {"pinPlugin", "clean", "create"}
             /\ UNCHANGED <<out, pins, held, left, removing, mutation, attempts, account>>
    <3>1. stage' \in Stages
      BY <2>4, Names
    <3>2. TypeOK'
      BY <2>2, <2>4, <3>1
    <3>3. OutputOfStage'
      BY <2>1, <2>4 DEF OutputOfStage, Attempting, Unpublished, Committed
    <3>4. QED
      BY <3>2, <3>3
  <2>5. LoadedElsewhere \subseteq Plugins /\ Destinations \subseteq Plugins
    BY <2>1 DEF LoadedElsewhere, Destinations
  <2>6. QED
    BY <1>12, <2>3, <2>4, <2>5 DEF ChooseLoader, WithLoader
<1>13. CASE CreatePlugin
  <2>1. out \in Archives /\ loader \in Plugins /\ stage = "create"
    BY <1>13 DEF CreatePlugin, OutputOfStage, Attempting, Unpublished, Committed
  <2>2. UNCHANGED <<cancelRequested, loose, archive, packed, pruned, edits, choices, frozen,
                    fallback, allowance, todo, roots, listed, published, deleted, unloadable,
                    taken>>
    BY <1>13 DEF CreatePlugin
  <2>3. /\ plugin' \in [Plugins -> PluginKinds]
        /\ created' \in SUBSET Plugins /\ facts' \in SUBSET Plugins
    <3>1. CASE PublishDummy
      BY <2>1, <3>1 DEF PublishDummy, PluginKinds
    <3>2. CASE NoDummy
      BY <3>2 DEF NoDummy
    <3>3. QED
      BY <1>13, <3>1, <3>2, Zenon DEF CreatePlugin
  <2>4. CASE FailPlugin
    <3>1. /\ attempts' \in [Archives -> Attempts]
          /\ account' \in [failure : Failures, cancelled : BOOLEAN, safe : BOOLEAN]
          /\ stage' \in {"done", "outputs"}
          /\ out' = Nothing /\ pins' \in [Files -> Nat] /\ held' = {} /\ left' = {}
          /\ removing' = Nothing /\ loader' = Nothing /\ mutation' = "None"
      BY <2>1, <2>4, FailPluginType
    <3>2. stage' \in Stages /\ "None" \in Mutations
      BY <3>1, Names
    <3>3. TypeOK'
      BY <2>2, <2>3, <3>1, <3>2
    <3>4. OutputOfStage'
      BY <3>1 DEF OutputOfStage, Attempting, Unpublished, Committed
    <3>5. QED
      BY <3>3, <3>4
  <2>5. CASE WithLoader /\ UNCHANGED <<attempt, attempts, account>>
    <3>1. stage' \in {"pinPlugin", "clean"}
      BY <2>5 DEF WithLoader
    <3>2. stage' \in Stages
      BY <3>1, Names
    <3>3. TypeOK'
      BY <2>2, <2>3, <2>5, <3>2
    <3>4. OutputOfStage'
      BY <2>1, <2>5, <3>1 DEF OutputOfStage, Attempting, Unpublished, Committed
    <3>5. QED
      BY <3>3, <3>4
  <2>6. QED
    BY <1>13, <2>4, <2>5, Zenon DEF CreatePlugin
<1>14. CASE PinPlugin
  <2>1. out \in Archives
    BY <1>14 DEF PinPlugin, OutputOfStage, Attempting, Unpublished, Committed
  <2>2. attempts' \in [Archives -> Attempts]
    BY <1>14, <2>1, ConcludeType, Names DEF PinPlugin, FailPlugin, Quiet, Durable, Attempts
  <2>3. account' \in [failure : Failures, cancelled : BOOLEAN, safe : BOOLEAN]
    BY <1>14, <2>1, ConcludeType, Names DEF PinPlugin, FailPlugin, Quiet, Durable
  <2>4. stage' \in Stages
    BY <1>14, <2>1, ConcludeType, Names DEF PinPlugin, FailPlugin, Quiet, Durable
  <2>5. loose' \in [Files -> Nat] /\ archive' \in [Archives -> ArchiveKinds] /\ plugin' \in [Plugins -> PluginKinds]
    BY <1>14, <2>1, ConcludeType DEF PinPlugin, FailPlugin, Quiet, Durable, OutputOfStage,
       Attempting, Unpublished, Committed, PluginKinds, ArchiveKinds
  <2>6. TypeOK'
    BY <1>14, <2>1, ConcludeType, <2>2, <2>3, <2>4, <2>5, Names DEF PinPlugin, FailPlugin,
       Quiet, Durable, OutputOfStage, Attempting, Unpublished, Committed
  <2>7. OutputOfStage'
    BY <1>14, <2>1, ConcludeType, Names DEF PinPlugin, FailPlugin, Quiet, Durable,
       OutputOfStage, Attempting, Unpublished, Committed
  <2>8. QED
    BY <2>6, <2>7
<1>15. CASE ReleaseSource
  <2>1. out \in Archives
    BY <1>15 DEF ReleaseSource, OutputOfStage, Attempting, Unpublished, Committed
  <2>2. attempts' \in [Archives -> Attempts]
    BY <1>15, <2>1, ConcludeType, Names DEF ReleaseSource, Quiet, Attempts
  <2>3. account' \in [failure : Failures, cancelled : BOOLEAN, safe : BOOLEAN]
    BY <1>15, <2>1, ConcludeType, Names DEF ReleaseSource, Quiet
  <2>4. stage' \in Stages
    BY <1>15, <2>1, ConcludeType, Names DEF ReleaseSource, Quiet
  <2>5. loose' \in [Files -> Nat] /\ archive' \in [Archives -> ArchiveKinds] /\ plugin' \in [Plugins -> PluginKinds]
    BY <1>15, <2>1, ConcludeType DEF ReleaseSource, Quiet, OutputOfStage, Attempting,
       Unpublished, Committed, PluginKinds, ArchiveKinds
  <2>6. TypeOK'
    BY <1>15, <2>1, ConcludeType, <2>2, <2>3, <2>4, <2>5, Names DEF ReleaseSource, Quiet,
       OutputOfStage, Attempting, Unpublished, Committed
  <2>7. OutputOfStage'
    BY <1>15, <2>1, ConcludeType, Names DEF ReleaseSource, Quiet, OutputOfStage, Attempting,
       Unpublished, Committed
  <2>8. QED
    BY <2>6, <2>7
<1>16. CASE RemoveSource
  <2>1. attempts' \in [Archives -> Attempts]
    BY <1>16, Names DEF RemoveSource, Unchanged, Attempts
  <2>2. account' \in [failure : Failures, cancelled : BOOLEAN, safe : BOOLEAN]
    <3>1. account.safe \in BOOLEAN /\ account.cancelled \in BOOLEAN /\ cancelRequested \in BOOLEAN
      OBVIOUS
    <3>2. QED
      BY <1>16, <3>1, Names, FinishType, CancelType DEF RemoveSource, Unchanged
  <2>3. stage' \in Stages
    BY <1>16, Names DEF RemoveSource, Unchanged
  <2>4. loose' \in [Files -> Nat] /\ archive' \in [Archives -> ArchiveKinds] /\ plugin' \in [Plugins -> PluginKinds]
    <3>2. loose' \in [Files -> Nat]
      BY <1>16 DEF RemoveSource, Unchanged, OutputOfStage, Attempting, Unpublished,
         Committed
    <3>3. archive' \in [Archives -> ArchiveKinds]
      BY <1>16 DEF RemoveSource, Unchanged, OutputOfStage, Attempting, Unpublished,
         Committed, ArchiveKinds
    <3>4. plugin' \in [Plugins -> PluginKinds]
      BY <1>16 DEF RemoveSource, Unchanged, OutputOfStage, Attempting, Unpublished,
         Committed, PluginKinds
    <3>5. QED
      BY <3>2, <3>3, <3>4
  <2>5. TypeOK'
    BY <1>16, <2>1, <2>2, <2>3, <2>4, Names DEF RemoveSource, Unchanged, OutputOfStage,
       Attempting, Unpublished, Committed
  <2>6. OutputOfStage'
    BY <1>16, Names DEF RemoveSource, Unchanged, OutputOfStage, Attempting, Unpublished,
       Committed
  <2>7. QED
    BY <2>5, <2>6
<1>17. CASE JudgeCleanup
  <2>1. out \in Archives
    BY <1>17 DEF JudgeCleanup, OutputOfStage, Attempting, Unpublished, Committed
  <2>2. PICK safe \in BOOLEAN : Conclude("SourceCleanupFailed", "Committed", safe)
    BY <1>17 DEF JudgeCleanup
  <2>3. Quiet /\ UNCHANGED <<input, progress, facts>>
    BY <1>17 DEF JudgeCleanup
  <2>4. /\ attempts' \in [Archives -> Attempts]
        /\ account' \in [failure : Failures, cancelled : BOOLEAN, safe : BOOLEAN]
        /\ stage' \in {"done", "outputs"}
        /\ out' = Nothing /\ pins' \in [Files -> Nat] /\ held' = {} /\ left' = {}
        /\ removing' = Nothing /\ loader' = Nothing /\ mutation' = "None"
    <3>1. "SourceCleanupFailed" \in Failures /\ "Committed" \in Mutations
      BY Names
    <3>2. QED
      BY <2>1, <2>2, <3>1, ConcludeType
  <2>5. TypeOK'
    BY <2>3, <2>4, Names DEF Quiet
  <2>6. OutputOfStage'
    BY <2>4 DEF OutputOfStage, Attempting, Unpublished, Committed
  <2>7. QED
    BY <2>5, <2>6
<1>18. CASE PanicInAttempt
  <2>1. out \in Archives
    BY <1>18 DEF PanicInAttempt, OutputOfStage, Attempting, Unpublished, Committed
  <2>2. attempts' \in [Archives -> Attempts]
    BY <1>18, <2>1, ConcludeType, Names DEF PanicInAttempt, Quiet, Attempts
  <2>3. account' \in [failure : Failures, cancelled : BOOLEAN, safe : BOOLEAN]
    BY <1>18, <2>1, ConcludeType, Names DEF PanicInAttempt, Quiet
  <2>4. stage' \in Stages
    BY <1>18, <2>1, ConcludeType, Names DEF PanicInAttempt, Quiet
  <2>5. loose' \in [Files -> Nat] /\ archive' \in [Archives -> ArchiveKinds] /\ plugin' \in [Plugins -> PluginKinds]
    BY <1>18, <2>1, ConcludeType DEF PanicInAttempt, Quiet, OutputOfStage, Attempting,
       Unpublished, Committed, PluginKinds, ArchiveKinds
  <2>6. TypeOK'
    BY <1>18, <2>1, ConcludeType, <2>2, <2>3, <2>4, <2>5, Names DEF PanicInAttempt, Quiet,
       OutputOfStage, Attempting, Unpublished, Committed
  <2>7. OutputOfStage'
    BY <1>18, <2>1, ConcludeType, Names DEF PanicInAttempt, Quiet, OutputOfStage,
       Attempting, Unpublished, Committed
  <2>8. QED
    BY <2>6, <2>7
<1>19. CASE MaintainRoot
  <2>1. attempts' \in [Archives -> Attempts]
    BY <1>19, Names DEF MaintainRoot, Cancel, Finish, FailMaintenance, Quiet, Attempts
  <2>2. account' \in [failure : Failures, cancelled : BOOLEAN, safe : BOOLEAN]
    <3>1. account.safe \in BOOLEAN /\ account.cancelled \in BOOLEAN /\ cancelRequested \in BOOLEAN
      OBVIOUS
    <3>2. CASE Finish("InsufficientCapacity", FALSE, account.safe)
      BY <3>1, <3>2, Names DEF Finish
    <3>3. CASE Finish("UnexpectedException", FALSE, FALSE)
      BY <3>1, <3>3, Names DEF Finish
    <3>4. CASE Finish("PluginRemovalFailed", cancelRequested, account.safe)
      BY <3>1, <3>4, Names DEF Finish
    <3>5. CASE Cancel
      BY <3>5, CancelType
    <3>6. CASE UNCHANGED account
      BY <3>6
    <3>7. QED
      BY <1>19, <3>2, <3>3, <3>4, <3>5, <3>6 DEF MaintainRoot, FailMaintenance, Quiet
  <2>3. stage' \in Stages
    BY <1>19, Names DEF MaintainRoot, Cancel, Finish, FailMaintenance, Quiet
  <2>4. loose' \in [Files -> Nat] /\ archive' \in [Archives -> ArchiveKinds] /\ plugin' \in [Plugins -> PluginKinds]
    BY <1>19 DEF MaintainRoot, Cancel, Finish, FailMaintenance, Quiet, OutputOfStage,
       Attempting, Unpublished, Committed, PluginKinds, ArchiveKinds
  <2>5. TypeOK'
    BY <1>19, <2>1, <2>2, <2>3, <2>4, Names DEF MaintainRoot, Cancel, Finish,
       FailMaintenance, Quiet, OutputOfStage, Attempting, Unpublished, Committed
  <2>6. OutputOfStage'
    BY <1>19, Names DEF MaintainRoot, Cancel, Finish, FailMaintenance, Quiet, OutputOfStage,
       Attempting, Unpublished, Committed
  <2>7. QED
    BY <2>5, <2>6
<1>20. CASE MaintainArchive
  <2>1. attempts' \in [Archives -> Attempts]
    BY <1>20, Names DEF MaintainArchive, Cancel, Finish, FailMaintenance, Quiet, Present,
       Durable, Attempts
  <2>2. account' \in [failure : Failures, cancelled : BOOLEAN, safe : BOOLEAN]
    <3>1. account.safe \in BOOLEAN /\ account.cancelled \in BOOLEAN /\ cancelRequested \in BOOLEAN
      OBVIOUS
    <3>2. QED
      BY <1>20, <3>1, Names, FinishType, CancelType DEF MaintainArchive, FailMaintenance,
         Quiet, Present, Durable
  <2>3. stage' \in Stages
    BY <1>20, Names DEF MaintainArchive, Cancel, Finish, FailMaintenance, Quiet, Present,
       Durable
  <2>4. loose' \in [Files -> Nat] /\ archive' \in [Archives -> ArchiveKinds] /\ plugin' \in [Plugins -> PluginKinds]
    BY <1>20 DEF MaintainArchive, Cancel, Finish, FailMaintenance, Quiet, Present, Durable,
       OutputOfStage, Attempting, Unpublished, Committed, PluginKinds, ArchiveKinds
  <2>5. TypeOK'
    BY <1>20, <2>1, <2>2, <2>3, <2>4, Names DEF MaintainArchive, Cancel, Finish,
       FailMaintenance, Quiet, Present, Durable, OutputOfStage, Attempting, Unpublished,
       Committed
  <2>6. OutputOfStage'
    BY <1>20, Names DEF MaintainArchive, Cancel, Finish, FailMaintenance, Quiet, Present,
       Durable, OutputOfStage, Attempting, Unpublished, Committed
  <2>7. QED
    BY <2>5, <2>6
<1>21. CASE FillIn
  <2>1. attempts' \in [Archives -> Attempts]
    BY <1>21, Names DEF FillIn, PublishDummy, NoDummy, Finish, FailMaintenance, Attempts
  <2>2. account' \in [failure : Failures, cancelled : BOOLEAN, safe : BOOLEAN]
    <3>1. account.safe \in BOOLEAN /\ account.cancelled \in BOOLEAN /\ cancelRequested \in BOOLEAN
      OBVIOUS
    <3>2. CASE Finish("PluginCreationFailed", cancelRequested, FALSE)
      BY <3>1, <3>2, Names DEF Finish
    <3>3. CASE Finish("PluginCreationFailed", cancelRequested, TRUE)
      BY <3>1, <3>3, Names DEF Finish
    <3>4. CASE Cancel
      BY <3>4, CancelType
    <3>5. CASE UNCHANGED account
      BY <3>5
    <3>6. QED
      BY <1>21, <3>2, <3>3, <3>4, <3>5 DEF FillIn, PublishDummy, NoDummy, FailMaintenance
  <2>3. stage' \in Stages
    BY <1>21, Names DEF FillIn, PublishDummy, NoDummy, Finish, FailMaintenance
  <2>4. loose' \in [Files -> Nat] /\ archive' \in [Archives -> ArchiveKinds] /\ plugin' \in [Plugins -> PluginKinds]
    BY <1>21 DEF FillIn, PublishDummy, NoDummy, Finish, FailMaintenance, OutputOfStage,
       Attempting, Unpublished, Committed, PluginKinds, ArchiveKinds
  <2>5. created' \in SUBSET Plugins /\ facts' \in SUBSET Plugins
    BY <1>21 DEF FillIn, PublishDummy, NoDummy, Finish, FailMaintenance, OutputOfStage,
       Attempting, Unpublished, Committed
  <2>6. TypeOK'
    BY <1>21, <2>1, <2>2, <2>3, <2>4, <2>5, Names DEF FillIn, PublishDummy, NoDummy, Finish,
       FailMaintenance, OutputOfStage, Attempting, Unpublished, Committed
  <2>7. OutputOfStage'
    BY <1>21, Names DEF FillIn, PublishDummy, NoDummy, Finish, FailMaintenance,
       OutputOfStage, Attempting, Unpublished, Committed
  <2>8. QED
    BY <2>6, <2>7
<1>22. CASE RemoveDummy
  <2>1. attempts' \in [Archives -> Attempts]
    BY <1>22, Names DEF RemoveDummy, Cancel, Finish, FailMaintenance, Attempts
  <2>2. account' \in [failure : Failures, cancelled : BOOLEAN, safe : BOOLEAN]
    <3>1. account.safe \in BOOLEAN /\ account.cancelled \in BOOLEAN /\ cancelRequested \in BOOLEAN
      OBVIOUS
    <3>2. QED
      BY <1>22, <3>1, Names, FinishType, CancelType DEF RemoveDummy, FailMaintenance
  <2>3. stage' \in Stages
    BY <1>22, Names DEF RemoveDummy, Cancel, Finish, FailMaintenance
  <2>4. loose' \in [Files -> Nat] /\ archive' \in [Archives -> ArchiveKinds] /\ plugin' \in [Plugins -> PluginKinds]
    BY <1>22 DEF RemoveDummy, Cancel, Finish, FailMaintenance, OutputOfStage, Attempting,
       Unpublished, Committed, PluginKinds, ArchiveKinds
  <2>5. TypeOK'
    BY <1>22, <2>1, <2>2, <2>3, <2>4, Names DEF RemoveDummy, Cancel, Finish,
       FailMaintenance, OutputOfStage, Attempting, Unpublished, Committed
  <2>6. OutputOfStage'
    BY <1>22, Names DEF RemoveDummy, Cancel, Finish, FailMaintenance, OutputOfStage,
       Attempting, Unpublished, Committed
  <2>7. QED
    BY <2>5, <2>6
<1>23. CASE Escape
  <2>1. attempts' \in [Archives -> Attempts]
    BY <1>23, Names DEF Escape, Finish, Quiet, Attempts
  <2>2. account' \in [failure : Failures, cancelled : BOOLEAN, safe : BOOLEAN]
    <3>1. account.safe \in BOOLEAN /\ account.cancelled \in BOOLEAN /\ cancelRequested \in BOOLEAN
      OBVIOUS
    <3>2. CASE Finish("UnexpectedException", account.cancelled, FALSE)
      BY <3>1, <3>2, Names DEF Finish
    <3>3. CASE Cancel
      BY <3>3, CancelType
    <3>4. CASE UNCHANGED account
      BY <3>4
    <3>5. QED
      BY <1>23, <3>2, <3>3, <3>4 DEF Escape, Quiet
  <2>3. stage' \in Stages
    BY <1>23, Names DEF Escape, Finish, Quiet
  <2>4. loose' \in [Files -> Nat] /\ archive' \in [Archives -> ArchiveKinds] /\ plugin' \in [Plugins -> PluginKinds]
    BY <1>23 DEF Escape, Finish, Quiet, OutputOfStage, Attempting, Unpublished, Committed,
       PluginKinds, ArchiveKinds
  <2>5. TypeOK'
    BY <1>23, <2>1, <2>2, <2>3, <2>4, Names DEF Escape, Finish, Quiet, OutputOfStage,
       Attempting, Unpublished, Committed
  <2>6. OutputOfStage'
    BY <1>23, Names DEF Escape, Finish, Quiet, OutputOfStage, Attempting, Unpublished,
       Committed
  <2>7. QED
    BY <2>5, <2>6
<1>24. CASE PruneRoot
  <2>1. attempts' \in [Archives -> Attempts]
    BY <1>24, Names DEF PruneRoot, Cancel, Finish, Attempts
  <2>2. account' \in [failure : Failures, cancelled : BOOLEAN, safe : BOOLEAN]
    <3>1. account.safe \in BOOLEAN /\ account.cancelled \in BOOLEAN /\ cancelRequested \in BOOLEAN
      OBVIOUS
    <3>2. QED
      BY <1>24, <3>1, Names, FinishType, CancelType DEF PruneRoot
  <2>3. stage' \in Stages
    BY <1>24, Names DEF PruneRoot, Cancel, Finish
  <2>4. loose' \in [Files -> Nat] /\ archive' \in [Archives -> ArchiveKinds] /\ plugin' \in [Plugins -> PluginKinds]
    BY <1>24 DEF PruneRoot, Cancel, Finish, OutputOfStage, Attempting, Unpublished,
       Committed, PluginKinds, ArchiveKinds
  <2>5. TypeOK'
    BY <1>24, <2>1, <2>2, <2>3, <2>4, Names DEF PruneRoot, Cancel, Finish, OutputOfStage,
       Attempting, Unpublished, Committed
  <2>6. OutputOfStage'
    BY <1>24, Names DEF PruneRoot, Cancel, Finish, OutputOfStage, Attempting, Unpublished,
       Committed
  <2>7. QED
    BY <2>5, <2>6
<1>25. CASE RequestCancel
  <2>1. attempts' \in [Archives -> Attempts]
    BY <1>25, Names DEF RequestCancel, Attempts
  <2>2. account' \in [failure : Failures, cancelled : BOOLEAN, safe : BOOLEAN]
    <3>1. account.safe \in BOOLEAN /\ account.cancelled \in BOOLEAN /\ cancelRequested \in BOOLEAN
      OBVIOUS
    <3>2. QED
      BY <1>25, <3>1, Names, FinishType, CancelType DEF RequestCancel
  <2>3. stage' \in Stages
    BY <1>25, Names DEF RequestCancel
  <2>4. loose' \in [Files -> Nat] /\ archive' \in [Archives -> ArchiveKinds] /\ plugin' \in [Plugins -> PluginKinds]
    BY <1>25 DEF RequestCancel, OutputOfStage, Attempting, Unpublished, Committed,
       PluginKinds, ArchiveKinds
  <2>5. TypeOK'
    BY <1>25, <2>1, <2>2, <2>3, <2>4, Names DEF RequestCancel, OutputOfStage, Attempting,
       Unpublished, Committed
  <2>6. OutputOfStage'
    BY <1>25, Names DEF RequestCancel, OutputOfStage, Attempting, Unpublished, Committed
  <2>7. QED
    BY <2>5, <2>6
<1>26. CASE ForeignSource
  <2>1. attempts' \in [Archives -> Attempts]
    BY <1>26, Names DEF ForeignSource, Edit, Attempts
  <2>2. account' \in [failure : Failures, cancelled : BOOLEAN, safe : BOOLEAN]
    <3>1. account.safe \in BOOLEAN /\ account.cancelled \in BOOLEAN /\ cancelRequested \in BOOLEAN
      OBVIOUS
    <3>2. QED
      BY <1>26, <3>1, Names, FinishType, CancelType DEF ForeignSource, Edit
  <2>3. stage' \in Stages
    BY <1>26, Names DEF ForeignSource, Edit
  <2>4. loose' \in [Files -> Nat] /\ archive' \in [Archives -> ArchiveKinds] /\ plugin' \in [Plugins -> PluginKinds]
    <3>1. \A b \in {0, 1 + edits'} : b \in Nat
      BY <1>26 DEF ForeignSource, Edit
    <3>2. QED
      BY <1>26, <3>1 DEF ForeignSource, Edit
  <2>5. TypeOK'
    BY <1>26, <2>1, <2>2, <2>3, <2>4, Names DEF ForeignSource, Edit, OutputOfStage,
       Attempting, Unpublished, Committed
  <2>6. OutputOfStage'
    BY <1>26, Names DEF ForeignSource, Edit, OutputOfStage, Attempting, Unpublished,
       Committed
  <2>7. QED
    BY <2>5, <2>6
<1>27. CASE ForeignArchive
  <2>1. attempts' \in [Archives -> Attempts]
    BY <1>27, Names DEF ForeignArchive, Edit, Attempts
  <2>2. account' \in [failure : Failures, cancelled : BOOLEAN, safe : BOOLEAN]
    <3>1. account.safe \in BOOLEAN /\ account.cancelled \in BOOLEAN /\ cancelRequested \in BOOLEAN
      OBVIOUS
    <3>2. QED
      BY <1>27, <3>1, Names, FinishType, CancelType DEF ForeignArchive, Edit
  <2>3. stage' \in Stages
    BY <1>27, Names DEF ForeignArchive, Edit
  <2>4. loose' \in [Files -> Nat] /\ archive' \in [Archives -> ArchiveKinds] /\ plugin' \in [Plugins -> PluginKinds]
    <3>1. \A k \in {"none", "foreign"} : k \in ArchiveKinds
      BY DEF ArchiveKinds
    <3>2. QED
      BY <1>27, <3>1 DEF ForeignArchive, Edit
  <2>5. TypeOK'
    BY <1>27, <2>1, <2>2, <2>3, <2>4, Names DEF ForeignArchive, Edit, OutputOfStage,
       Attempting, Unpublished, Committed
  <2>6. OutputOfStage'
    BY <1>27, Names DEF ForeignArchive, Edit, OutputOfStage, Attempting, Unpublished,
       Committed
  <2>7. QED
    BY <2>5, <2>6
<1>28. CASE ForeignPlugin
  <2>1. attempts' \in [Archives -> Attempts]
    BY <1>28, Names DEF ForeignPlugin, Edit, PluginPinned, Attempts
  <2>2. account' \in [failure : Failures, cancelled : BOOLEAN, safe : BOOLEAN]
    <3>1. account.safe \in BOOLEAN /\ account.cancelled \in BOOLEAN /\ cancelRequested \in BOOLEAN
      OBVIOUS
    <3>2. QED
      BY <1>28, <3>1, Names, FinishType, CancelType DEF ForeignPlugin, Edit, PluginPinned
  <2>3. stage' \in Stages
    BY <1>28, Names DEF ForeignPlugin, Edit, PluginPinned
  <2>4. loose' \in [Files -> Nat] /\ archive' \in [Archives -> ArchiveKinds] /\ plugin' \in [Plugins -> PluginKinds]
    BY <1>28 DEF ForeignPlugin, Edit, PluginPinned, OutputOfStage, Attempting, Unpublished,
       Committed, PluginKinds, ArchiveKinds
  <2>5. TypeOK'
    BY <1>28, <2>1, <2>2, <2>3, <2>4, Names DEF ForeignPlugin, Edit, PluginPinned,
       OutputOfStage, Attempting, Unpublished, Committed
  <2>6. OutputOfStage'
    BY <1>28, Names DEF ForeignPlugin, Edit, PluginPinned, OutputOfStage, Attempting,
       Unpublished, Committed
  <2>7. QED
    BY <2>5, <2>6
<1>29. CASE UNCHANGED vars
  BY <1>29 DEF vars, OutputOfStage, Attempting, Unpublished, Committed
<1>30. QED
  BY <1>1, <1>2, <1>3, <1>4, <1>5, <1>6, <1>7, <1>8, <1>9, <1>10, <1>11, <1>12, <1>13,
     <1>14, <1>15, <1>16, <1>17, <1>18, <1>19, <1>20, <1>21, <1>22, <1>23, <1>24, <1>25,
     <1>26, <1>27, <1>28, <1>29 DEF Next, Finalize

(* Every variable keeps its type.                                          *)
THEOREM TypeCorrect == Spec => []TypeOK
<1>1. Spec => [](TypeOK /\ OutputOfStage)
  BY InitType, TypeStep, PTL DEF Spec
<1>2. QED
  BY <1>1, PTL

(***************************************************************************)
(* The inductive invariant.                                                *)
(***************************************************************************)

LEMMA InitInv == Init => FinalizationInv
<1> SUFFICES ASSUME Init PROVE FinalizationInv
  OBVIOUS
<1> USE DEF Init, At, NoAttempt, Unpublished, Committed, Attempting, Maintaining
<1>1. EvidenceOfStage
  BY ConstantsAssumption DEF EvidenceOfStage
<1>2. ProgressOfStage
  BY ConstantsAssumption DEF ProgressOfStage, PrunesOnlyWhatIsSettled
<1>3. SourcesOfStage
  BY ConstantsAssumption DEF SourcesOfStage
<1>4. PackedOfStage
  BY ConstantsAssumption DEF PackedOfStage
<1>5. LoaderOfStage
  BY ConstantsAssumption DEF LoaderOfStage, DeletesOnlyWhatLoads, Durable
<1>6. QED
  BY <1>1, <1>2, <1>3, <1>4, <1>5 DEF FinalizationInv

(* However an attempt ends, the invariant holds after it, provided it      *)
(* reports the mutation it made.                                           *)
LEMMA ConcludeInv ==
    ASSUME TypeOK, OutputOfStage, FinalizationInv, stage \in Attempting,
           NEW f \in Failures, NEW m \in Mutations, NEW s \in BOOLEAN, Conclude(f, m, s),
           UNCHANGED <<input, todo, loose, archive, packed, pruned, published, deleted,
                       unloadable, taken>>,
           created' \subseteq facts',
           m = "Committed" <=> out \in published,
           m = "Committed" /\ s => f \in {"none", "SourceCleanupFailed"}
    PROVE  FinalizationInv'
<1> USE DEF TypeOK, FinalizationInv, At, Goto, input
<1>1. /\ out \in Archives /\ stage' \in {"done", "outputs"} /\ out' = Nothing
      /\ held' = {} /\ left' = {} /\ mutation' = "None" /\ Nothing \notin Archives
  BY ConcludeType, ConstantsAssumption DEF OutputOfStage
<1>2. attempts' = [attempts EXCEPT ![out] = [failure |-> f, mutation |-> m, safe |-> s]]
  BY DEF Conclude
<1>3. EvidenceOfStage'
  BY <1>1, <1>2 DEF EvidenceOfStage, Unpublished, Committed
<1>4. ProgressOfStage'
  <2>1. ~At("done") /\ pruned' = {}
    BY DEF ProgressOfStage, Attempting, Unpublished, Committed
  <2>2. stage' = "outputs" => s /\ f # "InsufficientCapacity" /\ account'.failure = account.failure
    BY DEF Conclude, Finish
  <2>3. QED
    BY <1>1, <1>2, <2>1, <2>2 DEF ProgressOfStage, PrunesOnlyWhatIsSettled, Maintaining
<1>5. SourcesOfStage' /\ PackedOfStage'
  BY <1>1 DEF SourcesOfStage, PackedOfStage, Committed
<1>6. LoaderOfStage'
  BY <1>1 DEF LoaderOfStage, DeletesOnlyWhatLoads
<1>7. QED
  BY <1>3, <1>4, <1>5, <1>6

(* One step per action; under it, one per part of the invariant.           *)
LEMMA InvStep ==
    TypeOK /\ OutputOfStage /\ FinalizationInv /\ [Next]_vars => FinalizationInv'
<1> SUFFICES ASSUME TypeOK, OutputOfStage, FinalizationInv, [Next]_vars
             PROVE  FinalizationInv'
  OBVIOUS
<1> USE ConstantsAssumption
    DEF TypeOK, OutputOfStage, FinalizationInv, At, Goto, input, disk, attempt, progress,
        evidence, history
<1>1. CASE Begin
  <2>1. EvidenceOfStage'
    BY <1>1 DEF Begin, Quiet, EvidenceOfStage, ProgressOfStage, Unpublished, Committed,
       Attempting, Maintaining
  <2>2. ProgressOfStage'
    BY <1>1 DEF Begin, Quiet, ProgressOfStage, PrunesOnlyWhatIsSettled, EvidenceOfStage,
       Unpublished, Committed, Attempting, Maintaining
  <2>3. SourcesOfStage'
    BY <1>1 DEF Begin, Quiet, SourcesOfStage, Unpublished, Committed, Attempting,
       Maintaining
  <2>4. PackedOfStage'
    BY <1>1 DEF Begin, Quiet, PackedOfStage, EvidenceOfStage, SourcesOfStage, Unpublished,
       Committed, Attempting, Maintaining
  <2>5. LoaderOfStage'
    BY <1>1 DEF Begin, Quiet, LoaderOfStage, DeletesOnlyWhatLoads, Durable, SourcesOfStage,
       Unpublished, Committed, Attempting, Maintaining
  <2>6. QED
    BY <2>1, <2>2, <2>3, <2>4, <2>5
<1>2. CASE Plan
  <2>1. EvidenceOfStage'
    BY <1>2 DEF Plan, FreezePlan, Packable, Quiet, Present, Durable, EvidenceOfStage,
       ProgressOfStage, Unpublished, Committed, Attempting, Maintaining
  <2>2. ProgressOfStage'
    BY <1>2 DEF Plan, FreezePlan, Packable, Quiet, Present, Durable, ProgressOfStage,
       PrunesOnlyWhatIsSettled, EvidenceOfStage, Unpublished, Committed, Attempting,
       Maintaining
  <2>3. SourcesOfStage'
    BY <1>2 DEF Plan, FreezePlan, Packable, Quiet, Present, Durable, SourcesOfStage,
       Unpublished, Committed, Attempting, Maintaining
  <2>4. PackedOfStage'
    BY <1>2 DEF Plan, FreezePlan, Packable, Quiet, Present, Durable, PackedOfStage,
       EvidenceOfStage, SourcesOfStage, Unpublished, Committed, Attempting, Maintaining
  <2>5. LoaderOfStage'
    BY <1>2 DEF Plan, FreezePlan, Packable, Quiet, Present, Durable, LoaderOfStage,
       DeletesOnlyWhatLoads, Durable, SourcesOfStage, Unpublished, Committed, Attempting,
       Maintaining
  <2>6. QED
    BY <2>1, <2>2, <2>3, <2>4, <2>5
<1>3. CASE PlanCreation
  <2>1. EvidenceOfStage'
    BY <1>3 DEF PlanCreation, FreezePlan, Packable, Quiet, Present, Durable,
       EvidenceOfStage, ProgressOfStage, Unpublished, Committed, Attempting, Maintaining
  <2>2. ProgressOfStage'
    BY <1>3 DEF PlanCreation, FreezePlan, Packable, Quiet, Present, Durable,
       ProgressOfStage, PrunesOnlyWhatIsSettled, EvidenceOfStage, Unpublished, Committed,
       Attempting, Maintaining
  <2>3. SourcesOfStage'
    BY <1>3 DEF PlanCreation, FreezePlan, Packable, Quiet, Present, Durable, SourcesOfStage,
       Unpublished, Committed, Attempting, Maintaining
  <2>4. PackedOfStage'
    BY <1>3 DEF PlanCreation, FreezePlan, Packable, Quiet, Present, Durable, PackedOfStage,
       EvidenceOfStage, SourcesOfStage, Unpublished, Committed, Attempting, Maintaining
  <2>5. LoaderOfStage'
    BY <1>3 DEF PlanCreation, FreezePlan, Packable, Quiet, Present, Durable, LoaderOfStage,
       DeletesOnlyWhatLoads, Durable, SourcesOfStage, Unpublished, Committed, Attempting,
       Maintaining
  <2>6. QED
    BY <2>1, <2>2, <2>3, <2>4, <2>5
<1>4. CASE StopPlanning
  <2>1. EvidenceOfStage'
    BY <1>4 DEF StopPlanning, Cancel, Finish, Quiet, EvidenceOfStage, ProgressOfStage,
       Unpublished, Committed, Attempting, Maintaining
  <2>2. ProgressOfStage'
    BY <1>4 DEF StopPlanning, Cancel, Finish, Quiet, ProgressOfStage,
       PrunesOnlyWhatIsSettled, EvidenceOfStage, Unpublished, Committed, Attempting,
       Maintaining
  <2>3. SourcesOfStage'
    BY <1>4 DEF StopPlanning, Cancel, Finish, Quiet, SourcesOfStage, Unpublished, Committed,
       Attempting, Maintaining
  <2>4. PackedOfStage'
    BY <1>4 DEF StopPlanning, Cancel, Finish, Quiet, PackedOfStage, EvidenceOfStage,
       SourcesOfStage, Unpublished, Committed, Attempting, Maintaining
  <2>5. LoaderOfStage'
    BY <1>4 DEF StopPlanning, Cancel, Finish, Quiet, LoaderOfStage, DeletesOnlyWhatLoads,
       Durable, SourcesOfStage, Unpublished, Committed, Attempting, Maintaining
  <2>6. QED
    BY <2>1, <2>2, <2>3, <2>4, <2>5
<1>5. CASE CheckCapacity
  <2>1. EvidenceOfStage'
    <3>1. CASE Cancel /\ UNCHANGED attempts
      BY <1>5, <3>1 DEF CheckCapacity, Cancel, Finish, Quiet, Unattempted, EvidenceOfStage,
         ProgressOfStage, Unpublished, Committed, Attempting, Maintaining
    <3>2. CASE UNCHANGED attempts
      BY <1>5, <3>2 DEF CheckCapacity, Cancel, Finish, Quiet, Unattempted, EvidenceOfStage,
         ProgressOfStage, Unpublished, Committed, Attempting, Maintaining
    <3>3. CASE \E a \in todo : Unattempted(a, "InsufficientCapacity")
      BY <1>5, <3>3 DEF CheckCapacity, Cancel, Finish, Quiet, Unattempted, EvidenceOfStage,
         ProgressOfStage, Unpublished, Committed, Attempting, Maintaining
    <3>4. QED
      BY <1>5, <3>1, <3>2, <3>3 DEF CheckCapacity
  <2>2. ProgressOfStage'
    BY <1>5 DEF CheckCapacity, Cancel, Finish, Quiet, Unattempted, ProgressOfStage,
       PrunesOnlyWhatIsSettled, EvidenceOfStage, Unpublished, Committed, Attempting,
       Maintaining
  <2>3. SourcesOfStage'
    BY <1>5 DEF CheckCapacity, Cancel, Finish, Quiet, Unattempted, SourcesOfStage,
       Unpublished, Committed, Attempting, Maintaining
  <2>4. PackedOfStage'
    BY <1>5 DEF CheckCapacity, Cancel, Finish, Quiet, Unattempted, PackedOfStage,
       EvidenceOfStage, SourcesOfStage, Unpublished, Committed, Attempting, Maintaining
  <2>5. LoaderOfStage'
    BY <1>5 DEF CheckCapacity, Cancel, Finish, Quiet, Unattempted, LoaderOfStage,
       DeletesOnlyWhatLoads, Durable, SourcesOfStage, Unpublished, Committed, Attempting,
       Maintaining
  <2>6. QED
    BY <2>1, <2>2, <2>3, <2>4, <2>5
<1>6. CASE NextOutput
  <2>1. EvidenceOfStage'
    <3>1. CASE Cancel /\ UNCHANGED <<out, left, todo, roots>>
      BY <1>6, <3>1 DEF NextOutput, Cancel, Finish, Quiet, EvidenceOfStage, ProgressOfStage,
         Unpublished, Committed, Attempting, Maintaining
    <3>2. CASE /\ \E a \in todo : /\ out' = a /\ todo' = todo \ {a}
                              /\ left' = IF choices.delete THEN frozen[a] ELSE {}
             /\ Goto("size") /\ UNCHANGED <<account, roots>>
      BY <1>6, <3>2 DEF NextOutput, Cancel, Finish, Quiet, EvidenceOfStage, ProgressOfStage,
         Unpublished, Committed, Attempting, Maintaining
    <3>3. CASE /\ Goto("maintain") /\ UNCHANGED <<account, out, left, todo>>
      BY <1>6, <3>3 DEF NextOutput, Cancel, Finish, Quiet, EvidenceOfStage, ProgressOfStage,
         Unpublished, Committed, Attempting, Maintaining
    <3>4. QED
      BY <1>6, <3>1, <3>2, <3>3 DEF NextOutput
  <2>2. ProgressOfStage'
    BY <1>6 DEF NextOutput, Cancel, Finish, Quiet, ProgressOfStage, PrunesOnlyWhatIsSettled,
       EvidenceOfStage, Unpublished, Committed, Attempting, Maintaining
  <2>3. SourcesOfStage'
    BY <1>6 DEF NextOutput, Cancel, Finish, Quiet, SourcesOfStage, Unpublished, Committed,
       Attempting, Maintaining
  <2>4. PackedOfStage'
    BY <1>6 DEF NextOutput, Cancel, Finish, Quiet, PackedOfStage, EvidenceOfStage,
       SourcesOfStage, Unpublished, Committed, Attempting, Maintaining
  <2>5. LoaderOfStage'
    BY <1>6 DEF NextOutput, Cancel, Finish, Quiet, LoaderOfStage, DeletesOnlyWhatLoads,
       Durable, SourcesOfStage, Unpublished, Committed, Attempting, Maintaining
  <2>6. QED
    BY <2>1, <2>2, <2>3, <2>4, <2>5
<1>7. CASE SizeSources
  <2>1. CASE /\ \A f \in frozen[out] : loose[f] # 0
             /\ Goto(IF choices.delete THEN "pin" ELSE "write")
             /\ UNCHANGED <<attempt, attempts, account>>
    <3>1. EvidenceOfStage'
      BY <1>7, <2>1 DEF SizeSources, Quiet, EvidenceOfStage, ProgressOfStage, Unpublished,
         Committed, Attempting, Maintaining
    <3>2. ProgressOfStage'
      BY <1>7, <2>1 DEF SizeSources, Quiet, ProgressOfStage, PrunesOnlyWhatIsSettled,
         EvidenceOfStage, Unpublished, Committed, Attempting, Maintaining
    <3>3. SourcesOfStage'
      BY <1>7, <2>1 DEF SizeSources, Quiet, SourcesOfStage, Unpublished, Committed,
         Attempting, Maintaining
    <3>4. PackedOfStage'
      BY <1>7, <2>1 DEF SizeSources, Quiet, PackedOfStage, EvidenceOfStage, SourcesOfStage,
         Unpublished, Committed, Attempting, Maintaining
    <3>5. LoaderOfStage'
      BY <1>7, <2>1 DEF SizeSources, Quiet, LoaderOfStage, DeletesOnlyWhatLoads, Durable,
         SourcesOfStage, Unpublished, Committed, Attempting, Maintaining
    <3>6. QED
      BY <3>1, <3>2, <3>3, <3>4, <3>5
  <2>2. CASE FailWrite
    BY <1>7, <2>2, ConcludeInv, Names DEF SizeSources, FailWrite, Quiet, EvidenceOfStage,
       Unpublished, Committed, Attempting, Maintaining
  <2>3. CASE Conclude("InsufficientCapacity", "None", TRUE)
    BY <1>7, <2>3, ConcludeInv, Names DEF SizeSources, FailWrite, Quiet, EvidenceOfStage,
       Unpublished, Committed, Attempting, Maintaining
  <2>4. QED
    BY <1>7, <2>1, <2>2, <2>3 DEF SizeSources
<1>8. CASE PinSource
  <2>1. CASE /\ \E f \in frozen[out] \ held :
                  /\ loose[f] # 0
                  /\ held' = held \cup {f} /\ pins' = [pins EXCEPT ![f] = loose[f]]
             /\ Goto(IF frozen[out] \subseteq held' THEN "write" ELSE "pin")
             /\ UNCHANGED <<out, left, removing, loader, mutation, attempts, account>>
    <3>1. EvidenceOfStage'
      BY <1>8, <2>1 DEF PinSource, Quiet, EvidenceOfStage, ProgressOfStage, Unpublished,
         Committed, Attempting, Maintaining
    <3>2. ProgressOfStage'
      BY <1>8, <2>1 DEF PinSource, Quiet, ProgressOfStage, PrunesOnlyWhatIsSettled,
         EvidenceOfStage, Unpublished, Committed, Attempting, Maintaining
    <3>3. SourcesOfStage'
      BY <1>8, <2>1 DEF PinSource, Quiet, SourcesOfStage, Unpublished, Committed,
         Attempting, Maintaining
    <3>4. PackedOfStage'
      BY <1>8, <2>1 DEF PinSource, Quiet, PackedOfStage, EvidenceOfStage, SourcesOfStage,
         Unpublished, Committed, Attempting, Maintaining
    <3>5. LoaderOfStage'
      BY <1>8, <2>1 DEF PinSource, Quiet, LoaderOfStage, DeletesOnlyWhatLoads, Durable,
         SourcesOfStage, Unpublished, Committed, Attempting, Maintaining
    <3>6. QED
      BY <3>1, <3>2, <3>3, <3>4, <3>5
  <2>2. CASE FailWrite
    BY <1>8, <2>2, ConcludeInv, Names DEF PinSource, FailWrite, Quiet, EvidenceOfStage,
       Unpublished, Committed, Attempting, Maintaining
  <2>3. QED
    BY <1>8, <2>1, <2>2 DEF PinSource
<1>9. CASE WriteArchive
  <2>1. CASE /\ \A f \in frozen[out] : loose[f] # 0
             /\ packed' = [packed EXCEPT ![out] = [f \in Files |-> IF f \in frozen[out]
                                                                  THEN loose[f] ELSE 0]]
             /\ Goto("publish") /\ UNCHANGED <<attempt, attempts, account>>
    <3>1. EvidenceOfStage'
      BY <1>9, <2>1 DEF WriteArchive, EvidenceOfStage, ProgressOfStage, Unpublished,
         Committed, Attempting, Maintaining
    <3>2. ProgressOfStage'
      BY <1>9, <2>1 DEF WriteArchive, ProgressOfStage, PrunesOnlyWhatIsSettled,
         EvidenceOfStage, Unpublished, Committed, Attempting, Maintaining
    <3>3. SourcesOfStage'
      BY <1>9, <2>1 DEF WriteArchive, SourcesOfStage, Unpublished, Committed, Attempting,
         Maintaining
    <3>4. PackedOfStage'
      BY <1>9, <2>1 DEF WriteArchive, PackedOfStage, EvidenceOfStage, SourcesOfStage,
         Unpublished, Committed, Attempting, Maintaining
    <3>5. LoaderOfStage'
      BY <1>9, <2>1 DEF WriteArchive, LoaderOfStage, DeletesOnlyWhatLoads, Durable,
         SourcesOfStage, Unpublished, Committed, Attempting, Maintaining
    <3>6. QED
      BY <3>1, <3>2, <3>3, <3>4, <3>5
  <2>2. CASE FailWrite /\ UNCHANGED packed
    BY <1>9, <2>2, ConcludeInv, Names DEF WriteArchive, FailWrite, EvidenceOfStage,
       Unpublished, Committed, Attempting, Maintaining
  <2>3. QED
    BY <1>9, <2>1, <2>2 DEF WriteArchive
<1>10. CASE PublishArchive
  <2>1. CASE /\ archive[out] = "none"
             /\ archive' = [archive EXCEPT ![out] = "ours"]
             /\ published' = published \cup {out}
             /\ Goto("release") /\ UNCHANGED <<attempt, attempts, account>>
    <3>1. EvidenceOfStage'
      BY <1>10, <2>1 DEF PublishArchive, EvidenceOfStage, ProgressOfStage, Unpublished,
         Committed, Attempting, Maintaining
    <3>2. ProgressOfStage'
      BY <1>10, <2>1 DEF PublishArchive, ProgressOfStage, PrunesOnlyWhatIsSettled,
         EvidenceOfStage, Unpublished, Committed, Attempting, Maintaining
    <3>3. SourcesOfStage'
      BY <1>10, <2>1 DEF PublishArchive, SourcesOfStage, Unpublished, Committed, Attempting,
         Maintaining
    <3>4. PackedOfStage'
      BY <1>10, <2>1 DEF PublishArchive, PackedOfStage, EvidenceOfStage, SourcesOfStage,
         Unpublished, Committed, Attempting, Maintaining
    <3>5. LoaderOfStage'
      BY <1>10, <2>1 DEF PublishArchive, LoaderOfStage, DeletesOnlyWhatLoads, Durable,
         SourcesOfStage, Unpublished, Committed, Attempting, Maintaining
    <3>6. QED
      BY <3>1, <3>2, <3>3, <3>4, <3>5
  <2>2. CASE Conclude("CommitFailed", "None", TRUE) /\ UNCHANGED <<archive, published>>
    BY <1>10, <2>2, ConcludeInv, Names DEF PublishArchive, EvidenceOfStage, Unpublished,
       Committed, Attempting, Maintaining
  <2>3. QED
    BY <1>10, <2>1, <2>2 DEF PublishArchive
<1>11. CASE ReleaseArchive
  <2>1. CASE /\ mutation' = "Committed" /\ Goto(IF choices.create THEN "choose" ELSE "clean")
             /\ UNCHANGED <<out, pins, held, left, removing, loader, attempts, account>>
    <3>1. EvidenceOfStage'
      BY <1>11, <2>1 DEF ReleaseArchive, Quiet, EvidenceOfStage, ProgressOfStage,
         Unpublished, Committed, Attempting, Maintaining
    <3>2. ProgressOfStage'
      BY <1>11, <2>1 DEF ReleaseArchive, Quiet, ProgressOfStage, PrunesOnlyWhatIsSettled,
         EvidenceOfStage, Unpublished, Committed, Attempting, Maintaining
    <3>3. SourcesOfStage'
      BY <1>11, <2>1 DEF ReleaseArchive, Quiet, SourcesOfStage, Unpublished, Committed,
         Attempting, Maintaining
    <3>4. PackedOfStage'
      BY <1>11, <2>1 DEF ReleaseArchive, Quiet, PackedOfStage, EvidenceOfStage,
         SourcesOfStage, Unpublished, Committed, Attempting, Maintaining
    <3>5. LoaderOfStage'
      BY <1>11, <2>1 DEF ReleaseArchive, Quiet, LoaderOfStage, DeletesOnlyWhatLoads,
         Durable, SourcesOfStage, Unpublished, Committed, Attempting, Maintaining
    <3>6. QED
      BY <3>1, <3>2, <3>3, <3>4, <3>5
  <2>2. CASE Conclude("CommitFailed", "Committed", FALSE)
    BY <1>11, <2>2, ConcludeInv, Names DEF ReleaseArchive, Quiet, EvidenceOfStage,
       Unpublished, Committed, Attempting, Maintaining
  <2>3. QED
    BY <1>11, <2>1, <2>2 DEF ReleaseArchive
<1>12. CASE ChooseLoader
  <2>1. CASE /\ loader' \in LoadedElsewhere /\ WithLoader
             /\ UNCHANGED <<out, pins, held, left, removing, mutation, attempts, account>>
    <3>1. EvidenceOfStage'
      BY <1>12, <2>1 DEF ChooseLoader, Quiet, LoadedElsewhere, Destinations, WithLoader,
         Loads, Present, Durable, EvidenceOfStage, ProgressOfStage, Unpublished, Committed,
         Attempting, Maintaining
    <3>2. ProgressOfStage'
      BY <1>12, <2>1 DEF ChooseLoader, Quiet, LoadedElsewhere, Destinations, WithLoader,
         Loads, Present, Durable, ProgressOfStage, PrunesOnlyWhatIsSettled, EvidenceOfStage,
         Unpublished, Committed, Attempting, Maintaining
    <3>3. SourcesOfStage'
      BY <1>12, <2>1 DEF ChooseLoader, Quiet, LoadedElsewhere, Destinations, WithLoader,
         Loads, Present, Durable, SourcesOfStage, Unpublished, Committed, Attempting,
         Maintaining
    <3>4. PackedOfStage'
      BY <1>12, <2>1 DEF ChooseLoader, Quiet, LoadedElsewhere, Destinations, WithLoader,
         Loads, Present, Durable, PackedOfStage, EvidenceOfStage, SourcesOfStage,
         Unpublished, Committed, Attempting, Maintaining
    <3>5. LoaderOfStage'
      BY <1>12, <2>1 DEF ChooseLoader, Quiet, LoadedElsewhere, Destinations, WithLoader,
         Loads, Present, Durable, LoaderOfStage, DeletesOnlyWhatLoads, Durable,
         SourcesOfStage, Unpublished, Committed, Attempting, Maintaining
    <3>6. QED
      BY <3>1, <3>2, <3>3, <3>4, <3>5
  <2>2. CASE /\ LoadedElsewhere = {} /\ loader' \in Destinations
             /\ \/ plugin[loader'] = "none" /\ Goto("create")
                \/ /\ plugin[loader'] \notin {"none", "other"}
                   /\ out \in fallback => plugin[loader'] = "dummy"
                   /\ WithLoader
             /\ UNCHANGED <<out, pins, held, left, removing, mutation, attempts, account>>
    <3>1. EvidenceOfStage'
      BY <1>12, <2>2 DEF ChooseLoader, Quiet, LoadedElsewhere, Destinations, WithLoader,
         Loads, Present, Durable, EvidenceOfStage, ProgressOfStage, Unpublished, Committed,
         Attempting, Maintaining
    <3>2. ProgressOfStage'
      BY <1>12, <2>2 DEF ChooseLoader, Quiet, LoadedElsewhere, Destinations, WithLoader,
         Loads, Present, Durable, ProgressOfStage, PrunesOnlyWhatIsSettled, EvidenceOfStage,
         Unpublished, Committed, Attempting, Maintaining
    <3>3. SourcesOfStage'
      BY <1>12, <2>2 DEF ChooseLoader, Quiet, LoadedElsewhere, Destinations, WithLoader,
         Loads, Present, Durable, SourcesOfStage, Unpublished, Committed, Attempting,
         Maintaining
    <3>4. PackedOfStage'
      BY <1>12, <2>2 DEF ChooseLoader, Quiet, LoadedElsewhere, Destinations, WithLoader,
         Loads, Present, Durable, PackedOfStage, EvidenceOfStage, SourcesOfStage,
         Unpublished, Committed, Attempting, Maintaining
    <3>5. LoaderOfStage'
      BY <1>12, <2>2 DEF ChooseLoader, Quiet, LoadedElsewhere, Destinations, WithLoader,
         Loads, Present, Durable, LoaderOfStage, DeletesOnlyWhatLoads, Durable,
         SourcesOfStage, Unpublished, Committed, Attempting, Maintaining
    <3>6. QED
      BY <3>1, <3>2, <3>3, <3>4, <3>5
  <2>3. CASE FailPlugin
    BY <1>12, <2>3, ConcludeInv, Names DEF ChooseLoader, FailPlugin, Quiet, LoadedElsewhere,
       Destinations, WithLoader, Loads, Present, Durable, EvidenceOfStage, Unpublished,
       Committed, Attempting, Maintaining
  <2>4. QED
    BY <1>12, <2>1, <2>2, <2>3 DEF ChooseLoader
<1>13. CASE CreatePlugin
  <2>1. CASE PublishDummy /\ WithLoader /\ UNCHANGED <<attempt, attempts, account>>
    <3>1. EvidenceOfStage'
      BY <1>13, <2>1 DEF CreatePlugin, PublishDummy, NoDummy, WithLoader, EvidenceOfStage,
         ProgressOfStage, Unpublished, Committed, Attempting, Maintaining
    <3>2. ProgressOfStage'
      BY <1>13, <2>1 DEF CreatePlugin, PublishDummy, NoDummy, WithLoader, ProgressOfStage,
         PrunesOnlyWhatIsSettled, EvidenceOfStage, Unpublished, Committed, Attempting,
         Maintaining
    <3>3. SourcesOfStage'
      BY <1>13, <2>1 DEF CreatePlugin, PublishDummy, NoDummy, WithLoader, SourcesOfStage,
         Unpublished, Committed, Attempting, Maintaining
    <3>4. PackedOfStage'
      BY <1>13, <2>1 DEF CreatePlugin, PublishDummy, NoDummy, WithLoader, PackedOfStage,
         EvidenceOfStage, SourcesOfStage, Unpublished, Committed, Attempting, Maintaining
    <3>5. LoaderOfStage'
      BY <1>13, <2>1 DEF CreatePlugin, PublishDummy, NoDummy, WithLoader, LoaderOfStage,
         DeletesOnlyWhatLoads, Durable, SourcesOfStage, Unpublished, Committed, Attempting,
         Maintaining
    <3>6. QED
      BY <3>1, <3>2, <3>3, <3>4, <3>5
  <2>2. CASE PublishDummy /\ FailPlugin
    BY <1>13, <2>2, ConcludeInv, Names DEF CreatePlugin, FailPlugin, PublishDummy, NoDummy,
       WithLoader, EvidenceOfStage, Unpublished, Committed, Attempting, Maintaining
  <2>3. CASE NoDummy /\ FailPlugin
    BY <1>13, <2>3, ConcludeInv, Names DEF CreatePlugin, FailPlugin, PublishDummy, NoDummy,
       WithLoader, EvidenceOfStage, Unpublished, Committed, Attempting, Maintaining
  <2>4. QED
    BY <1>13, <2>1, <2>2, <2>3 DEF CreatePlugin
<1>14. CASE PinPlugin
  <2>1. CASE Durable(loader) /\ Goto("clean") /\ UNCHANGED <<attempt, attempts, account>>
    <3>1. EvidenceOfStage'
      BY <1>14, <2>1 DEF PinPlugin, Quiet, Durable, EvidenceOfStage, ProgressOfStage,
         Unpublished, Committed, Attempting, Maintaining
    <3>2. ProgressOfStage'
      BY <1>14, <2>1 DEF PinPlugin, Quiet, Durable, ProgressOfStage,
         PrunesOnlyWhatIsSettled, EvidenceOfStage, Unpublished, Committed, Attempting,
         Maintaining
    <3>3. SourcesOfStage'
      BY <1>14, <2>1 DEF PinPlugin, Quiet, Durable, SourcesOfStage, Unpublished, Committed,
         Attempting, Maintaining
    <3>4. PackedOfStage'
      BY <1>14, <2>1 DEF PinPlugin, Quiet, Durable, PackedOfStage, EvidenceOfStage,
         SourcesOfStage, Unpublished, Committed, Attempting, Maintaining
    <3>5. LoaderOfStage'
      BY <1>14, <2>1 DEF PinPlugin, Quiet, Durable, LoaderOfStage, DeletesOnlyWhatLoads,
         Durable, SourcesOfStage, Unpublished, Committed, Attempting, Maintaining
    <3>6. QED
      BY <3>1, <3>2, <3>3, <3>4, <3>5
  <2>2. CASE FailPlugin
    BY <1>14, <2>2, ConcludeInv, Names DEF PinPlugin, FailPlugin, Quiet, Durable,
       EvidenceOfStage, Unpublished, Committed, Attempting, Maintaining
  <2>3. QED
    BY <1>14, <2>1, <2>2 DEF PinPlugin
<1>15. CASE ReleaseSource
  <2>1. CASE /\ \E f \in left : removing' = f /\ held' = held \ {f}
             /\ Goto("remove")
             /\ UNCHANGED <<out, pins, left, loader, mutation, attempts, account>>
    <3>1. EvidenceOfStage'
      BY <1>15, <2>1 DEF ReleaseSource, Quiet, EvidenceOfStage, ProgressOfStage,
         Unpublished, Committed, Attempting, Maintaining
    <3>2. ProgressOfStage'
      BY <1>15, <2>1 DEF ReleaseSource, Quiet, ProgressOfStage, PrunesOnlyWhatIsSettled,
         EvidenceOfStage, Unpublished, Committed, Attempting, Maintaining
    <3>3. SourcesOfStage'
      BY <1>15, <2>1 DEF ReleaseSource, Quiet, SourcesOfStage, Unpublished, Committed,
         Attempting, Maintaining
    <3>4. PackedOfStage'
      BY <1>15, <2>1 DEF ReleaseSource, Quiet, PackedOfStage, EvidenceOfStage,
         SourcesOfStage, Unpublished, Committed, Attempting, Maintaining
    <3>5. LoaderOfStage'
      BY <1>15, <2>1 DEF ReleaseSource, Quiet, LoaderOfStage, DeletesOnlyWhatLoads, Durable,
         SourcesOfStage, Unpublished, Committed, Attempting, Maintaining
    <3>6. QED
      BY <3>1, <3>2, <3>3, <3>4, <3>5
  <2>2. CASE Conclude("none", "Committed", TRUE)
    BY <1>15, <2>2, ConcludeInv, Names DEF ReleaseSource, Quiet, EvidenceOfStage,
       Unpublished, Committed, Attempting, Maintaining
  <2>3. QED
    BY <1>15, <2>1, <2>2 DEF ReleaseSource
<1>16. CASE RemoveSource
  <2>1. EvidenceOfStage'
    BY <1>16 DEF RemoveSource, Unchanged, EvidenceOfStage, ProgressOfStage, Unpublished,
       Committed, Attempting, Maintaining
  <2>2. ProgressOfStage'
    BY <1>16 DEF RemoveSource, Unchanged, ProgressOfStage, PrunesOnlyWhatIsSettled,
       EvidenceOfStage, Unpublished, Committed, Attempting, Maintaining
  <2>3. SourcesOfStage'
    <3>1. CASE /\ loose' = [loose EXCEPT ![removing] = 0] /\ left' = left \ {removing}
             /\ Goto("clean") /\ UNCHANGED <<held, loader>>
      BY <1>16, <3>1 DEF RemoveSource, Unchanged, SourcesOfStage, Unpublished, Committed,
         Attempting, Maintaining
    <3>2. CASE /\ Goto("verify") /\ held' = {} /\ UNCHANGED <<loose, left>>
      BY <1>16, <3>2 DEF RemoveSource, Unchanged, SourcesOfStage, Unpublished, Committed,
         Attempting, Maintaining
    <3>3. QED
      BY <1>16, <3>1, <3>2 DEF RemoveSource
  <2>4. PackedOfStage'
    BY <1>16 DEF RemoveSource, Unchanged, PackedOfStage, EvidenceOfStage, SourcesOfStage,
       Unpublished, Committed, Attempting, Maintaining
  <2>5. LoaderOfStage'
    BY <1>16 DEF RemoveSource, Unchanged, LoaderOfStage, DeletesOnlyWhatLoads, Durable,
       SourcesOfStage, Unpublished, Committed, Attempting, Maintaining
  <2>6. QED
    BY <2>1, <2>2, <2>3, <2>4, <2>5
<1>17. CASE JudgeCleanup
  <2>1. PICK safe \in BOOLEAN : Conclude("SourceCleanupFailed", "Committed", safe)
    BY <1>17 DEF JudgeCleanup
  <2>2. QED
    BY <1>17, <2>1, ConcludeInv, Names DEF JudgeCleanup, Quiet, EvidenceOfStage,
       Unpublished, Committed, Attempting, Maintaining
<1>18. CASE PanicInAttempt
  BY <1>18, ConcludeInv, Names DEF PanicInAttempt, Quiet, EvidenceOfStage, Unpublished,
     Committed, Attempting, Maintaining
<1>19. CASE MaintainRoot
  <2>1. EvidenceOfStage'
    BY <1>19 DEF MaintainRoot, Cancel, Finish, FailMaintenance, Quiet, EvidenceOfStage,
       ProgressOfStage, Unpublished, Committed, Attempting, Maintaining
  <2>2. ProgressOfStage'
    BY <1>19 DEF MaintainRoot, Cancel, Finish, FailMaintenance, Quiet, ProgressOfStage,
       PrunesOnlyWhatIsSettled, EvidenceOfStage, Unpublished, Committed, Attempting,
       Maintaining
  <2>3. SourcesOfStage'
    BY <1>19 DEF MaintainRoot, Cancel, Finish, FailMaintenance, Quiet, SourcesOfStage,
       Unpublished, Committed, Attempting, Maintaining
  <2>4. PackedOfStage'
    BY <1>19 DEF MaintainRoot, Cancel, Finish, FailMaintenance, Quiet, PackedOfStage,
       EvidenceOfStage, SourcesOfStage, Unpublished, Committed, Attempting, Maintaining
  <2>5. LoaderOfStage'
    BY <1>19 DEF MaintainRoot, Cancel, Finish, FailMaintenance, Quiet, LoaderOfStage,
       DeletesOnlyWhatLoads, Durable, SourcesOfStage, Unpublished, Committed, Attempting,
       Maintaining
  <2>6. QED
    BY <2>1, <2>2, <2>3, <2>4, <2>5
<1>20. CASE MaintainArchive
  <2>1. EvidenceOfStage'
    BY <1>20 DEF MaintainArchive, Cancel, Finish, FailMaintenance, Quiet, Present, Durable,
       EvidenceOfStage, ProgressOfStage, Unpublished, Committed, Attempting, Maintaining
  <2>2. ProgressOfStage'
    BY <1>20 DEF MaintainArchive, Cancel, Finish, FailMaintenance, Quiet, Present, Durable,
       ProgressOfStage, PrunesOnlyWhatIsSettled, EvidenceOfStage, Unpublished, Committed,
       Attempting, Maintaining
  <2>3. SourcesOfStage'
    BY <1>20 DEF MaintainArchive, Cancel, Finish, FailMaintenance, Quiet, Present, Durable,
       SourcesOfStage, Unpublished, Committed, Attempting, Maintaining
  <2>4. PackedOfStage'
    BY <1>20 DEF MaintainArchive, Cancel, Finish, FailMaintenance, Quiet, Present, Durable,
       PackedOfStage, EvidenceOfStage, SourcesOfStage, Unpublished, Committed, Attempting,
       Maintaining
  <2>5. LoaderOfStage'
    BY <1>20 DEF MaintainArchive, Cancel, Finish, FailMaintenance, Quiet, Present, Durable,
       LoaderOfStage, DeletesOnlyWhatLoads, Durable, SourcesOfStage, Unpublished, Committed,
       Attempting, Maintaining
  <2>6. QED
    BY <2>1, <2>2, <2>3, <2>4, <2>5
<1>21. CASE FillIn
  <2>1. EvidenceOfStage'
    BY <1>21 DEF FillIn, PublishDummy, NoDummy, Finish, FailMaintenance, EvidenceOfStage,
       ProgressOfStage, Unpublished, Committed, Attempting, Maintaining
  <2>2. ProgressOfStage'
    BY <1>21 DEF FillIn, PublishDummy, NoDummy, Finish, FailMaintenance, ProgressOfStage,
       PrunesOnlyWhatIsSettled, EvidenceOfStage, Unpublished, Committed, Attempting,
       Maintaining
  <2>3. SourcesOfStage'
    BY <1>21 DEF FillIn, PublishDummy, NoDummy, Finish, FailMaintenance, SourcesOfStage,
       Unpublished, Committed, Attempting, Maintaining
  <2>4. PackedOfStage'
    BY <1>21 DEF FillIn, PublishDummy, NoDummy, Finish, FailMaintenance, PackedOfStage,
       EvidenceOfStage, SourcesOfStage, Unpublished, Committed, Attempting, Maintaining
  <2>5. LoaderOfStage'
    BY <1>21 DEF FillIn, PublishDummy, NoDummy, Finish, FailMaintenance, LoaderOfStage,
       DeletesOnlyWhatLoads, Durable, SourcesOfStage, Unpublished, Committed, Attempting,
       Maintaining
  <2>6. QED
    BY <2>1, <2>2, <2>3, <2>4, <2>5
<1>22. CASE RemoveDummy
  <2>1. EvidenceOfStage'
    BY <1>22 DEF RemoveDummy, Cancel, Finish, FailMaintenance, EvidenceOfStage,
       ProgressOfStage, Unpublished, Committed, Attempting, Maintaining
  <2>2. ProgressOfStage'
    BY <1>22 DEF RemoveDummy, Cancel, Finish, FailMaintenance, ProgressOfStage,
       PrunesOnlyWhatIsSettled, EvidenceOfStage, Unpublished, Committed, Attempting,
       Maintaining
  <2>3. SourcesOfStage'
    BY <1>22 DEF RemoveDummy, Cancel, Finish, FailMaintenance, SourcesOfStage, Unpublished,
       Committed, Attempting, Maintaining
  <2>4. PackedOfStage'
    BY <1>22 DEF RemoveDummy, Cancel, Finish, FailMaintenance, PackedOfStage,
       EvidenceOfStage, SourcesOfStage, Unpublished, Committed, Attempting, Maintaining
  <2>5. LoaderOfStage'
    BY <1>22 DEF RemoveDummy, Cancel, Finish, FailMaintenance, LoaderOfStage,
       DeletesOnlyWhatLoads, Durable, SourcesOfStage, Unpublished, Committed, Attempting,
       Maintaining
  <2>6. QED
    BY <2>1, <2>2, <2>3, <2>4, <2>5
<1>23. CASE Escape
  <2>1. EvidenceOfStage'
    BY <1>23 DEF Escape, Finish, Quiet, EvidenceOfStage, ProgressOfStage, Unpublished,
       Committed, Attempting, Maintaining
  <2>2. ProgressOfStage'
    BY <1>23 DEF Escape, Finish, Quiet, ProgressOfStage, PrunesOnlyWhatIsSettled,
       EvidenceOfStage, Unpublished, Committed, Attempting, Maintaining
  <2>3. SourcesOfStage'
    BY <1>23 DEF Escape, Finish, Quiet, SourcesOfStage, Unpublished, Committed, Attempting,
       Maintaining
  <2>4. PackedOfStage'
    BY <1>23 DEF Escape, Finish, Quiet, PackedOfStage, EvidenceOfStage, SourcesOfStage,
       Unpublished, Committed, Attempting, Maintaining
  <2>5. LoaderOfStage'
    BY <1>23 DEF Escape, Finish, Quiet, LoaderOfStage, DeletesOnlyWhatLoads, Durable,
       SourcesOfStage, Unpublished, Committed, Attempting, Maintaining
  <2>6. QED
    BY <2>1, <2>2, <2>3, <2>4, <2>5
<1>24. CASE PruneRoot
  <2>1. EvidenceOfStage'
    BY <1>24 DEF PruneRoot, Cancel, Finish, EvidenceOfStage, ProgressOfStage, Unpublished,
       Committed, Attempting, Maintaining
  <2>2. ProgressOfStage'
    BY <1>24 DEF PruneRoot, Cancel, Finish, ProgressOfStage, PrunesOnlyWhatIsSettled,
       EvidenceOfStage, Unpublished, Committed, Attempting, Maintaining
  <2>3. SourcesOfStage'
    BY <1>24 DEF PruneRoot, Cancel, Finish, SourcesOfStage, Unpublished, Committed,
       Attempting, Maintaining
  <2>4. PackedOfStage'
    BY <1>24 DEF PruneRoot, Cancel, Finish, PackedOfStage, EvidenceOfStage, SourcesOfStage,
       Unpublished, Committed, Attempting, Maintaining
  <2>5. LoaderOfStage'
    BY <1>24 DEF PruneRoot, Cancel, Finish, LoaderOfStage, DeletesOnlyWhatLoads, Durable,
       SourcesOfStage, Unpublished, Committed, Attempting, Maintaining
  <2>6. QED
    BY <2>1, <2>2, <2>3, <2>4, <2>5
<1>25. CASE RequestCancel
  <2>1. EvidenceOfStage'
    BY <1>25 DEF RequestCancel, EvidenceOfStage, ProgressOfStage, Unpublished, Committed,
       Attempting, Maintaining
  <2>2. ProgressOfStage'
    BY <1>25 DEF RequestCancel, ProgressOfStage, PrunesOnlyWhatIsSettled, EvidenceOfStage,
       Unpublished, Committed, Attempting, Maintaining
  <2>3. SourcesOfStage'
    BY <1>25 DEF RequestCancel, SourcesOfStage, Unpublished, Committed, Attempting,
       Maintaining
  <2>4. PackedOfStage'
    BY <1>25 DEF RequestCancel, PackedOfStage, EvidenceOfStage, SourcesOfStage, Unpublished,
       Committed, Attempting, Maintaining
  <2>5. LoaderOfStage'
    BY <1>25 DEF RequestCancel, LoaderOfStage, DeletesOnlyWhatLoads, Durable,
       SourcesOfStage, Unpublished, Committed, Attempting, Maintaining
  <2>6. QED
    BY <2>1, <2>2, <2>3, <2>4, <2>5
<1>26. CASE ForeignSource
  <2>1. EvidenceOfStage'
    BY <1>26 DEF ForeignSource, Edit, EvidenceOfStage, ProgressOfStage, Unpublished,
       Committed, Attempting, Maintaining
  <2>2. ProgressOfStage'
    BY <1>26 DEF ForeignSource, Edit, ProgressOfStage, PrunesOnlyWhatIsSettled,
       EvidenceOfStage, Unpublished, Committed, Attempting, Maintaining
  <2>3. SourcesOfStage'
    BY <1>26 DEF ForeignSource, Edit, SourcesOfStage, Unpublished, Committed, Attempting,
       Maintaining
  <2>4. PackedOfStage'
    BY <1>26 DEF ForeignSource, Edit, PackedOfStage, EvidenceOfStage, SourcesOfStage,
       Unpublished, Committed, Attempting, Maintaining
  <2>5. LoaderOfStage'
    BY <1>26 DEF ForeignSource, Edit, LoaderOfStage, DeletesOnlyWhatLoads, Durable,
       SourcesOfStage, Unpublished, Committed, Attempting, Maintaining
  <2>6. QED
    BY <2>1, <2>2, <2>3, <2>4, <2>5
<1>27. CASE ForeignArchive
  <2>1. EvidenceOfStage'
    BY <1>27 DEF ForeignArchive, Edit, EvidenceOfStage, ProgressOfStage, Unpublished,
       Committed, Attempting, Maintaining
  <2>2. ProgressOfStage'
    BY <1>27 DEF ForeignArchive, Edit, ProgressOfStage, PrunesOnlyWhatIsSettled,
       EvidenceOfStage, Unpublished, Committed, Attempting, Maintaining
  <2>3. SourcesOfStage'
    BY <1>27 DEF ForeignArchive, Edit, SourcesOfStage, Unpublished, Committed, Attempting,
       Maintaining
  <2>4. PackedOfStage'
    BY <1>27 DEF ForeignArchive, Edit, PackedOfStage, EvidenceOfStage, SourcesOfStage,
       Unpublished, Committed, Attempting, Maintaining
  <2>5. LoaderOfStage'
    BY <1>27 DEF ForeignArchive, Edit, LoaderOfStage, DeletesOnlyWhatLoads, Durable,
       SourcesOfStage, Unpublished, Committed, Attempting, Maintaining
  <2>6. QED
    BY <2>1, <2>2, <2>3, <2>4, <2>5
<1>28. CASE ForeignPlugin
  <2>1. EvidenceOfStage'
    BY <1>28 DEF ForeignPlugin, Edit, PluginPinned, EvidenceOfStage, ProgressOfStage,
       Unpublished, Committed, Attempting, Maintaining
  <2>2. ProgressOfStage'
    BY <1>28 DEF ForeignPlugin, Edit, PluginPinned, ProgressOfStage,
       PrunesOnlyWhatIsSettled, EvidenceOfStage, Unpublished, Committed, Attempting,
       Maintaining
  <2>3. SourcesOfStage'
    BY <1>28 DEF ForeignPlugin, Edit, PluginPinned, SourcesOfStage, Unpublished, Committed,
       Attempting, Maintaining
  <2>4. PackedOfStage'
    BY <1>28 DEF ForeignPlugin, Edit, PluginPinned, PackedOfStage, EvidenceOfStage,
       SourcesOfStage, Unpublished, Committed, Attempting, Maintaining
  <2>5. LoaderOfStage'
    BY <1>28 DEF ForeignPlugin, Edit, PluginPinned, LoaderOfStage, DeletesOnlyWhatLoads,
       Durable, SourcesOfStage, Unpublished, Committed, Attempting, Maintaining
  <2>6. QED
    BY <2>1, <2>2, <2>3, <2>4, <2>5
<1>29. CASE UNCHANGED vars
  BY <1>29 DEF vars, EvidenceOfStage, ProgressOfStage, SourcesOfStage, PackedOfStage,
     LoaderOfStage, PrunesOnlyWhatIsSettled, DeletesOnlyWhatLoads, Durable
<1>30. QED
  BY <1>1, <1>2, <1>3, <1>4, <1>5, <1>6, <1>7, <1>8, <1>9, <1>10, <1>11, <1>12, <1>13,
     <1>14, <1>15, <1>16, <1>17, <1>18, <1>19, <1>20, <1>21, <1>22, <1>23, <1>24, <1>25,
     <1>26, <1>27, <1>28, <1>29 DEF Next, Finalize

(* The invariant holds in every reachable state.                           *)
THEOREM FinalizationInvariant == Spec => []FinalizationInv
<1>1. Spec => [](TypeOK /\ OutputOfStage)
  BY InitType, TypeStep, PTL DEF Spec
<1>2. QED
  BY <1>1, InitInv, InvStep, PTL DEF Spec

(***************************************************************************)
(* The properties.                                                         *)
(***************************************************************************)

(* Deleted bytes are in an Archive the phase published, whatever another   *)
(* program and the user do.                                                *)
THEOREM NothingIsLost == Spec => []NothingPackedIsLost
<1>1. FinalizationInv => NothingPackedIsLost
  BY DEF FinalizationInv, PackedOfStage, NothingPackedIsLost
<1>2. QED
  BY <1>1, FinalizationInvariant, PTL

(* A source is deleted only while an ordinary plugin loads its Archive.    *)
THEOREM LoadsBeforeDeleting == Spec => []DeletesOnlyWhatLoads
<1>1. FinalizationInv => DeletesOnlyWhatLoads
  BY DEF FinalizationInv, LoaderOfStage
<1>2. QED
  BY <1>1, FinalizationInvariant, PTL

(* Directories are pruned only after every output was settled.             *)
THEOREM PrunesLast == Spec => []PrunesOnlyWhatIsSettled
<1>1. FinalizationInv => PrunesOnlyWhatIsSettled
  BY DEF FinalizationInv, ProgressOfStage
<1>2. QED
  BY <1>1, FinalizationInvariant, PTL

(* Run Evidence reports every Archive and plugin that was published.       *)
THEOREM ReportsMutations == Spec => []MutationsAreReported
<1>1. Spec => [](TypeOK /\ OutputOfStage)
  BY InitType, TypeStep, PTL DEF Spec
<1>2. TypeOK /\ FinalizationInv => MutationsAreReported
  <2>1. Nothing \notin Archives
    BY ConstantsAssumption
  <2>2. QED
    BY <2>1 DEF TypeOK, FinalizationInv, EvidenceOfStage, MutationsAreReported
<1>3. QED
  BY <1>1, <1>2, FinalizationInvariant, PTL

=============================================================================
