------------------------- MODULE RunExecutorProofs -------------------------
(***************************************************************************)
(* Proofs about RunExecutor, for any number of Mod Roots, Archives and     *)
(* Assets.  ExecutorInv ties each stage to what Run Evidence holds there;  *)
(* the safety properties are projections of it.                            *)
(***************************************************************************)
EXTENDS RunExecutor, TLAPS

Ending == {"publish", "cleanup", "sweepArtifacts", "sweepService", "sample", "seal",
           "done"}

(* Where the stage leaves the run: the phase of its latest record.         *)
PhaseOfStage ==
    /\ At("begin") => current = NoPhase
    /\ stage \in {"load", "resolve", "resolved", "roots", "decide", "branch", "discover"} =>
         current = Preparing
    /\ stage \in {"walk", "preflight", "openExtraction"} => current = Discovering
    /\ stage \in {"planExtraction", "extractions", "extraction", "tree"} =>
         current = Extracting
    /\ stage \in {"treeWalk", "openProcessing"} => current = Building
    /\ stage \in {"assets", "asset", "finalize", "openFinalization"} =>
         current = Processing
    /\ stage \in {"planOutputs", "finalization"} => current = Finalization
    /\ stage \in {"skip", "publish", "cleanup"} => current \in Preparing..Finalization
    /\ stage \in {"sweepArtifacts", "sweepService", "sample", "seal", "done"} =>
         current = SafetyCleanup

(* The facts that may still, or must already, be recorded there.           *)
FactsOfStage ==
    /\ stage \in {"begin", "load", "resolve", "resolved", "roots", "decide"} =>
         "preparation" \notin facts
    /\ stage \in {"begin", "load", "resolve", "resolved", "roots", "decide", "branch",
                  "discover", "walk"} => "counts" \notin facts
    /\ stage \in {"begin", "load", "resolve", "resolved", "roots", "decide", "branch",
                  "discover", "walk", "preflight"} => "collisions" \notin facts
    /\ stage \in {"preflight", "openExtraction", "planExtraction", "extractions",
                  "extraction", "tree", "treeWalk", "openProcessing"} =>
         "counts" \in facts
    /\ stage \in Working \ {"openProcessing", "assets", "asset", "finalize",
                            "openFinalization", "planOutputs", "finalization"} =>
         "nested" \notin facts
    /\ At("openProcessing") => "nested" \in facts
    /\ stage \in Working \ {"assets", "asset", "finalize", "openFinalization",
                            "planOutputs", "finalization"} => "routing" \notin facts
    /\ stage \in Working \cup {"begin"} => "basis" \notin facts /\ "finalization" \notin facts
    /\ At("begin") => facts = {}
    /\ At("planOutputs") => status[Finalization] = "planned"
    /\ At("finalization") => status[Finalization] = "executed"

(* No phase after the current one has been entered.                        *)
PhasesInOrder ==
    \A p \in RunPhases :
        /\ p > current => status[p] = "none" /\ attempts[p] = 0 /\ total[p] = 0
        /\ attempts[p] <= total[p]

(* The work goes on only while nothing went wrong.                         *)
ClearSoFar == stage \in Working \cup {"begin"} => failures = 0 /\ ~unsafeWork

(* What a phase has done once the work leaves it for the next one.         *)
PhaseDone(p) ==
    /\ status[p] # "none"
    /\ requested => attempts[p] = total[p] /\ status[p] # "skipped"
    /\ p \in Plannable /\ requested => (status[p] = "planned") = (mode = "DryRun")

DoneSoFar ==
    /\ stage \in Working => \A p \in Discovering..Finalization : p < current => PhaseDone(p)
    /\ At("skip") => ~requested /\ (current >= Discovering => PhaseDone(current))
    /\ stage \in {"walk", "preflight", "openExtraction", "tree", "treeWalk",
                  "openProcessing", "finalize", "openFinalization", "planExtraction",
                  "planOutputs", "finalization"} => PhaseDone(current)
    /\ stage \in {"extractions", "extraction", "assets", "asset"} =>
         /\ status[current] = "executed"
         /\ current = Extracting => mode = "Apply"
    /\ stage \in {"extraction", "asset"} => attempts[current] < total[current]
    /\ stage \in Working \ {"load", "resolve", "resolved", "roots", "decide", "branch",
                            "skip"} => requested

(* A stop before the end of the work has left its reason.                  *)
Excused == failures > 0 \/ unsafeWork \/ observed
StopsAreExcused ==
    /\ stage \in {"publish", "cleanup", "sweepArtifacts", "sweepService", "sample"} =>
         Excused \/ cancelled \/ backend \/ Complete
    /\ stage \in {"seal", "done"} => Excused \/ Complete
    /\ outcome # "none" => At("done") /\ outcome = Classified

AttemptsInFlight ==
    /\ late <= 1
    /\ late > 0 => cancelled
    /\ stage \in {"extraction", "asset"} => late = 0

DiagnosticsOut ==
    stage \in Ending \ {"publish"} => published = retained

LeftoversKnown ==
    /\ stage \in {"sweepService", "sample", "seal", "done"} /\ staged =>
         cleanupFailures \cap {"artifact", "service"} # {}

ExecutorInv ==
    /\ PhaseOfStage /\ FactsOfStage /\ PhasesInOrder /\ ClearSoFar /\ DoneSoFar
    /\ StopsAreExcused /\ AttemptsInFlight /\ DiagnosticsOut /\ LeftoversKnown
    /\ ~violation

-----------------------------------------------------------------------------
(* Type correctness.                                                        *)

USE BoundAssumption
USE DEF Preparing, Discovering, Extracting, Building, Processing, Finalization,
        SafetyCleanup, RunPhases, NoPhase
USE DEF evidence, progress, verdicts, diagnostics, run, others, quiet, At, Goto

(* The facts and codes the executor names are those of the store.          *)
LEMMA Names ==
    /\ {"preparation", "counts", "collisions", "nested", "routing", "basis",
        "finalization"} \subseteq Facts
    /\ {"attempt", "artifact", "service"} \subseteq CleanupCodes
  BY DEF Facts, CleanupCodes

(* Well-typedness in three parts: the record of the phases, the rest of Run *)
(* Evidence, and the executor's own state.                                  *)
Statuses == {"none", "executed", "skipped", "planned"}
ProgressOK ==
    /\ current \in RunPhases \cup {NoPhase}
    /\ status \in [RunPhases -> Statuses]
    /\ total \in [RunPhases -> Nat]
    /\ attempts \in [RunPhases -> Nat]
RecordOK ==
    /\ facts \in SUBSET Facts
    /\ failures \in Nat
    /\ unsafeWork \in BOOLEAN /\ contained \in BOOLEAN
    /\ retained \in Nat /\ published \in Nat
    /\ observed \in BOOLEAN
    /\ cleanupFailures \in SUBSET CleanupCodes
ControlOK ==
    /\ mode \in {"Apply", "DryRun"} /\ requested \in BOOLEAN
    /\ cancelled \in BOOLEAN
    /\ stage \in Stages
    /\ roots \in 0..MaxRoots
    /\ staged \in BOOLEAN /\ backend \in BOOLEAN /\ violation \in BOOLEAN
    /\ outcome \in Outcomes \cup {"none"}
    /\ late \in Nat

LEMMA TypeParts == TypeOK <=> ProgressOK /\ RecordOK /\ ControlOK
  BY Zenon DEF TypeOK, EvidenceTypeOK, ProgressOK, RecordOK, ControlOK, Statuses

LEMMA TypePartsNext == TypeOK' <=> ProgressOK' /\ RecordOK' /\ ControlOK'
  BY Zenon DEF TypeOK, EvidenceTypeOK, ProgressOK, RecordOK, ControlOK, Statuses

LEMMA StageNames ==
    /\ {"begin", "load", "resolve", "resolved", "roots", "decide"} \subseteq Stages
    /\ {"branch", "skip", "discover", "walk", "preflight"} \subseteq Stages
    /\ {"openExtraction", "planExtraction", "extractions"} \subseteq Stages
    /\ {"extraction", "tree", "treeWalk", "openProcessing", "assets"} \subseteq Stages
    /\ {"asset", "finalize", "openFinalization", "planOutputs"} \subseteq Stages
    /\ {"finalization", "publish", "cleanup", "sweepArtifacts"} \subseteq Stages
    /\ {"sweepService", "sample", "seal", "done"} \subseteq Stages
  BY DEF Stages

(* What opening a phase, and an attempt, do to the record of the phases.    *)
LEMMA EnterTypes ==
  ASSUME ProgressOK, NEW p \in RunPhases, NEW s \in {"executed", "skipped", "planned"},
         NEW n \in Nat, EnterPhase(p, s, n)
  PROVE  ProgressOK'
<1>1. current' \in RunPhases \cup {NoPhase}
  BY DEF EnterPhase
<1>2. status' \in [RunPhases -> Statuses]
  BY DEF EnterPhase, ProgressOK, Statuses
<1>3. total' \in [RunPhases -> Nat]
  BY DEF EnterPhase, ProgressOK
<1>4. attempts' \in [RunPhases -> Nat]
  BY DEF EnterPhase, ProgressOK
<1> QED
  BY <1>1, <1>2, <1>3, <1>4, Zenon DEF ProgressOK

LEMMA ProgressStays ==
  ASSUME ProgressOK, UNCHANGED progress
  PROVE  ProgressOK'
BY DEF ProgressOK

LEMMA AttemptProgress ==
  ASSUME ProgressOK, NEW p \in RunPhases, NEW o, RecordAttempt(p, o)
  PROVE  ProgressOK'
<1>1. attempts' \in [RunPhases -> Nat]
  BY DEF RecordAttempt, ProgressOK
<1>2. UNCHANGED <<current, status, total>>
  BY DEF RecordAttempt
<1> QED
  BY <1>1, <1>2 DEF ProgressOK

LEMMA AttemptTypes ==
  ASSUME TypeOK, NEW p \in RunPhases, NEW o, NEW next \in Stages, Attempt(p, o, next)
  PROVE  /\ ProgressOK'
         /\ facts' = facts /\ failures' = failures /\ observed' = observed
         /\ unsafeWork' \in BOOLEAN /\ contained' \in BOOLEAN
         /\ violation' \in BOOLEAN /\ stage' \in Stages /\ late' \in Nat
         /\ UNCHANGED <<roots, run, cancelled, backend, outcome>>
<1> USE TypeParts
<1>1. late' \in Nat
  BY DEF Attempt, ControlOK
<1>2. UNCHANGED <<facts, observed, roots, run, cancelled, backend, outcome>>
  BY DEF Attempt
<1>3. CASE MayRecordAttempt(p)
  <2>1. RecordAttempt(p, o) /\ UNCHANGED violation
    BY <1>3 DEF Attempt
  <2>2. stage' \in Stages
    BY <1>3, StageNames DEF Attempt
  <2>3. unsafeWork' \in BOOLEAN /\ contained' \in BOOLEAN /\ failures' = failures
    BY <2>1 DEF RecordAttempt
  <2> QED
    BY <1>1, <1>2, <2>1, <2>2, <2>3, AttemptProgress DEF ControlOK
<1>4. CASE ~MayRecordAttempt(p)
  <2>1. /\ violation' = TRUE /\ stage' = "publish"
        /\ UNCHANGED <<progress, verdicts>>
    BY <1>4 DEF Attempt, StopWork
  <2> QED
    BY <1>1, <1>2, <2>1, ProgressStays, StageNames DEF RecordOK
<1> QED
  BY <1>3, <1>4

(* Every reachable state is well typed.                                     *)
THEOREM TypeCorrect == Spec => []TypeOK
<1>1. Init => TypeOK
  <2> SUFFICES ASSUME Init PROVE TypeOK
    OBVIOUS
  <2>1. ProgressOK
    BY DEF Init, NewEvidence, ProgressOK, Statuses
  <2>2. RecordOK
    BY DEF Init, NewEvidence, RecordOK
  <2>3. stage \in Stages /\ roots \in 0..MaxRoots
    BY StageNames DEF Init
  <2>4. ControlOK
    BY <2>3 DEF Init, ControlOK
  <2> QED
    BY <2>1, <2>2, <2>4, TypeParts
<1>2. TypeOK /\ [Next]_vars => TypeOK'
  <2> SUFFICES ASSUME TypeOK, [Next]_vars PROVE TypeOK'
    OBVIOUS
  <2>t. ProgressOK /\ RecordOK /\ ControlOK
    BY TypeParts
  <2> USE DEF StopWork, Proceed, Record, NotePhase, Enter, Open, RecordOnce, FailRun,
          RecordFact, RecordFailure, Retain, PublishDiagnostics, RecordDiagnostic, Walk, Sweep
  <2>Begin. CASE Begin
    <3>1. ProgressOK'
      BY <2>Begin, <2>t, ProgressStays, EnterTypes DEF Begin
    <3>2. RecordOK'
      BY <2>Begin, <2>t, Names DEF Begin, RecordOK
    <3>3. ControlOK'
      BY <2>Begin, <2>t, StageNames DEF Begin, ControlOK
    <3> QED
      BY <3>1, <3>2, <3>3, TypePartsNext
  <2>AbandonPreparing. CASE AbandonPreparing
    <3>1. ProgressOK'
      BY <2>AbandonPreparing, <2>t, ProgressStays DEF AbandonPreparing
    <3>2. RecordOK'
      BY <2>AbandonPreparing, <2>t, Names DEF AbandonPreparing, RecordOK
    <3>3. ControlOK'
      BY <2>AbandonPreparing, <2>t, StageNames DEF AbandonPreparing, ControlOK
    <3> QED
      BY <3>1, <3>2, <3>3, TypePartsNext
  <2>LoadProfile. CASE LoadProfile
    <3>1. ProgressOK'
      BY <2>LoadProfile, <2>t, ProgressStays DEF LoadProfile
    <3>2. RecordOK'
      BY <2>LoadProfile, <2>t, Names DEF LoadProfile, RecordOK
    <3>3. ControlOK'
      BY <2>LoadProfile, <2>t, StageNames DEF LoadProfile, ControlOK
    <3> QED
      BY <3>1, <3>2, <3>3, TypePartsNext
  <2>Resolve. CASE Resolve
    <3>1. ProgressOK'
      BY <2>Resolve, <2>t, ProgressStays DEF Resolve
    <3>2. RecordOK'
      BY <2>Resolve, <2>t, Names DEF Resolve, RecordOK
    <3>3. ControlOK'
      BY <2>Resolve, <2>t, StageNames DEF Resolve, ControlOK
    <3> QED
      BY <3>1, <3>2, <3>3, TypePartsNext
  <2>FinishPreparation. CASE FinishPreparation
    <3>1. ProgressOK'
      BY <2>FinishPreparation, <2>t, ProgressStays DEF FinishPreparation
    <3>2. RecordOK'
      BY <2>FinishPreparation, <2>t, Names DEF FinishPreparation, RecordOK
    <3>3. ControlOK'
      BY <2>FinishPreparation, <2>t, StageNames DEF FinishPreparation, ControlOK
    <3> QED
      BY <3>1, <3>2, <3>3, TypePartsNext
  <2>PrepareRoot. CASE PrepareRoot
    <3>1. ProgressOK'
      BY <2>PrepareRoot, <2>t, ProgressStays DEF PrepareRoot
    <3>2. RecordOK'
      BY <2>PrepareRoot, <2>t, Names DEF PrepareRoot, RecordOK
    <3>3. ControlOK'
      BY <2>PrepareRoot, <2>t, StageNames DEF PrepareRoot, ControlOK
    <3> QED
      BY <3>1, <3>2, <3>3, TypePartsNext
  <2>RecordPreparation. CASE RecordPreparation
    <3>1. ProgressOK'
      BY <2>RecordPreparation, <2>t, ProgressStays DEF RecordPreparation
    <3>2. RecordOK'
      BY <2>RecordPreparation, <2>t, Names DEF RecordPreparation, RecordOK
    <3>3. ControlOK'
      BY <2>RecordPreparation, <2>t, StageNames DEF RecordPreparation, ControlOK
    <3> QED
      BY <3>1, <3>2, <3>3, TypePartsNext
  <2>Branch. CASE Branch
    <3>1. ProgressOK'
      BY <2>Branch, <2>t, ProgressStays DEF Branch
    <3>2. RecordOK'
      BY <2>Branch, <2>t, Names DEF Branch, RecordOK
    <3>3. ControlOK'
      BY <2>Branch, <2>t, StageNames DEF Branch, ControlOK
    <3> QED
      BY <3>1, <3>2, <3>3, TypePartsNext
  <2>SkipPhase. CASE SkipPhase
    <3>1. ProgressOK'
      BY <2>SkipPhase, <2>t, ProgressStays, EnterTypes DEF SkipPhase, ProgressOK
    <3>2. RecordOK'
      BY <2>SkipPhase, <2>t, Names DEF SkipPhase, RecordOK
    <3>3. ControlOK'
      BY <2>SkipPhase, <2>t, StageNames DEF SkipPhase, ControlOK
    <3> QED
      BY <3>1, <3>2, <3>3, TypePartsNext
  <2>Halt. CASE Halt
    <3>1. ProgressOK'
      BY <2>Halt, <2>t, ProgressStays DEF Halt
    <3>2. RecordOK'
      BY <2>Halt, <2>t, Names DEF Halt, RecordOK
    <3>3. ControlOK'
      BY <2>Halt, <2>t, StageNames DEF Halt, ControlOK
    <3> QED
      BY <3>1, <3>2, <3>3, TypePartsNext
  <2>Discover. CASE Discover
    <3>1. ProgressOK'
      BY <2>Discover, <2>t, ProgressStays, EnterTypes DEF Discover
    <3>2. RecordOK'
      BY <2>Discover, <2>t, Names DEF Discover, RecordOK
    <3>3. ControlOK'
      BY <2>Discover, <2>t, StageNames DEF Discover, ControlOK
    <3> QED
      BY <3>1, <3>2, <3>3, TypePartsNext
  <2>WalkArchives. CASE WalkArchives
    <3>1. ProgressOK'
      BY <2>WalkArchives, <2>t, ProgressStays DEF WalkArchives
    <3>2. RecordOK'
      BY <2>WalkArchives, <2>t, Names DEF WalkArchives, RecordOK
    <3>3. ControlOK'
      BY <2>WalkArchives, <2>t, StageNames DEF WalkArchives, ControlOK
    <3> QED
      BY <3>1, <3>2, <3>3, TypePartsNext
  <2>PreflightArchives. CASE PreflightArchives
    <3>1. ProgressOK'
      BY <2>PreflightArchives, <2>t, ProgressStays DEF PreflightArchives
    <3>2. RecordOK'
      BY <2>PreflightArchives, <2>t, Names DEF PreflightArchives, RecordOK
    <3>3. ControlOK'
      BY <2>PreflightArchives, <2>t, StageNames DEF PreflightArchives, ControlOK
    <3> QED
      BY <3>1, <3>2, <3>3, TypePartsNext
  <2>OpenExtraction. CASE OpenExtraction
    <3>1. ProgressOK'
      BY <2>OpenExtraction, <2>t, ProgressStays, EnterTypes DEF OpenExtraction
    <3>2. RecordOK'
      BY <2>OpenExtraction, <2>t, Names DEF OpenExtraction, RecordOK
    <3>3. ControlOK'
      BY <2>OpenExtraction, <2>t, StageNames DEF OpenExtraction, ControlOK
    <3> QED
      BY <3>1, <3>2, <3>3, TypePartsNext
  <2>PlanExtraction. CASE PlanExtraction
    <3>1. ProgressOK'
      BY <2>PlanExtraction, <2>t, ProgressStays DEF PlanExtraction
    <3>2. RecordOK'
      BY <2>PlanExtraction, <2>t, Names DEF PlanExtraction, RecordOK
    <3>3. ControlOK'
      BY <2>PlanExtraction, <2>t, StageNames DEF PlanExtraction, ControlOK
    <3> QED
      BY <3>1, <3>2, <3>3, TypePartsNext
  <2>NextExtraction. CASE NextExtraction
    <3>1. ProgressOK'
      BY <2>NextExtraction, <2>t, ProgressStays DEF NextExtraction
    <3>2. RecordOK'
      BY <2>NextExtraction, <2>t, Names DEF NextExtraction, RecordOK
    <3>3. ControlOK'
      BY <2>NextExtraction, <2>t, StageNames DEF NextExtraction, ControlOK
    <3> QED
      BY <3>1, <3>2, <3>3, TypePartsNext
  <2>AttemptExtraction. CASE AttemptExtraction
    <3>1. PICK o \in AttemptOutcomes : Attempt(Extracting, o, "extractions")
      BY <2>AttemptExtraction DEF AttemptExtraction
    <3>2. "extractions" \in Stages
      BY StageNames
    <3>3. /\ ProgressOK'
          /\ facts' = facts /\ failures' = failures /\ observed' = observed
          /\ unsafeWork' \in BOOLEAN /\ contained' \in BOOLEAN
          /\ violation' \in BOOLEAN /\ stage' \in Stages /\ late' \in Nat
          /\ UNCHANGED <<roots, run, cancelled, backend, outcome>>
      BY <3>1, <3>2, AttemptTypes
    <3>4. RecordOK'
      BY <2>AttemptExtraction, <2>t, <3>3, Names DEF AttemptExtraction, RecordOK
    <3>5. ControlOK'
      BY <2>AttemptExtraction, <2>t, <3>3 DEF AttemptExtraction, ControlOK
    <3> QED
      BY <3>3, <3>4, <3>5, TypePartsNext
  <2>Build. CASE Build
    <3>1. ProgressOK'
      BY <2>Build, <2>t, ProgressStays, EnterTypes DEF Build
    <3>2. RecordOK'
      BY <2>Build, <2>t, Names DEF Build, RecordOK
    <3>3. ControlOK'
      BY <2>Build, <2>t, StageNames DEF Build, ControlOK
    <3> QED
      BY <3>1, <3>2, <3>3, TypePartsNext
  <2>WalkTree. CASE WalkTree
    <3>1. ProgressOK'
      BY <2>WalkTree, <2>t, ProgressStays DEF WalkTree
    <3>2. RecordOK'
      BY <2>WalkTree, <2>t, Names DEF WalkTree, RecordOK
    <3>3. ControlOK'
      BY <2>WalkTree, <2>t, StageNames DEF WalkTree, ControlOK
    <3> QED
      BY <3>1, <3>2, <3>3, TypePartsNext
  <2>OpenProcessing. CASE OpenProcessing
    <3>1. ProgressOK'
      BY <2>OpenProcessing, <2>t, ProgressStays, EnterTypes DEF OpenProcessing
    <3>2. RecordOK'
      BY <2>OpenProcessing, <2>t, Names DEF OpenProcessing, RecordOK
    <3>3. ControlOK'
      BY <2>OpenProcessing, <2>t, StageNames DEF OpenProcessing, ControlOK
    <3> QED
      BY <3>1, <3>2, <3>3, TypePartsNext
  <2>NextAsset. CASE NextAsset
    <3>1. ProgressOK'
      BY <2>NextAsset, <2>t, ProgressStays DEF NextAsset
    <3>2. RecordOK'
      BY <2>NextAsset, <2>t, Names DEF NextAsset, RecordOK
    <3>3. ControlOK'
      BY <2>NextAsset, <2>t, StageNames DEF NextAsset, ControlOK
    <3> QED
      BY <3>1, <3>2, <3>3, TypePartsNext
  <2>AttemptAsset. CASE AttemptAsset
    <3>1. PICK o \in AttemptOutcomes : Attempt(Processing, o, "assets")
      BY <2>AttemptAsset DEF AttemptAsset
    <3>2. "assets" \in Stages
      BY StageNames
    <3>3. /\ ProgressOK'
          /\ facts' = facts /\ failures' = failures /\ observed' = observed
          /\ unsafeWork' \in BOOLEAN /\ contained' \in BOOLEAN
          /\ violation' \in BOOLEAN /\ stage' \in Stages /\ late' \in Nat
          /\ UNCHANGED <<roots, run, cancelled, backend, outcome>>
      BY <3>1, <3>2, AttemptTypes
    <3>4. RecordOK'
      BY <2>AttemptAsset, <2>t, <3>3, Names DEF AttemptAsset, RecordOK
    <3>5. ControlOK'
      BY <2>AttemptAsset, <2>t, <3>3 DEF AttemptAsset, ControlOK
    <3> QED
      BY <3>3, <3>4, <3>5, TypePartsNext
  <2>CancelByBackend. CASE CancelByBackend
    <3>1. ProgressOK'
      BY <2>CancelByBackend, <2>t, ProgressStays DEF CancelByBackend
    <3>2. RecordOK'
      BY <2>CancelByBackend, <2>t, Names DEF CancelByBackend, RecordOK
    <3>3. ControlOK'
      BY <2>CancelByBackend, <2>t, StageNames DEF CancelByBackend, ControlOK
    <3> QED
      BY <3>1, <3>2, <3>3, TypePartsNext
  <2>PublishBeforeFinalization. CASE PublishBeforeFinalization
    <3>1. ProgressOK'
      BY <2>PublishBeforeFinalization, <2>t, ProgressStays DEF PublishBeforeFinalization
    <3>2. RecordOK'
      BY <2>PublishBeforeFinalization, <2>t, Names DEF PublishBeforeFinalization, RecordOK
    <3>3. ControlOK'
      BY <2>PublishBeforeFinalization, <2>t, StageNames DEF PublishBeforeFinalization,
         ControlOK
    <3> QED
      BY <3>1, <3>2, <3>3, TypePartsNext
  <2>OpenFinalization. CASE OpenFinalization
    <3>1. ProgressOK'
      BY <2>OpenFinalization, <2>t, ProgressStays, EnterTypes DEF OpenFinalization
    <3>2. RecordOK'
      BY <2>OpenFinalization, <2>t, Names DEF OpenFinalization, RecordOK
    <3>3. ControlOK'
      BY <2>OpenFinalization, <2>t, StageNames DEF OpenFinalization, ControlOK
    <3> QED
      BY <3>1, <3>2, <3>3, TypePartsNext
  <2>PlanOutputs. CASE PlanOutputs
    <3>1. ProgressOK'
      BY <2>PlanOutputs, <2>t, ProgressStays DEF PlanOutputs
    <3>2. RecordOK'
      BY <2>PlanOutputs, <2>t, Names DEF PlanOutputs, RecordOK
    <3>3. ControlOK'
      BY <2>PlanOutputs, <2>t, StageNames DEF PlanOutputs, ControlOK
    <3> QED
      BY <3>1, <3>2, <3>3, TypePartsNext
  <2>Finalize. CASE Finalize
    <3>1. ProgressOK'
      BY <2>Finalize, <2>t, ProgressStays DEF Finalize
    <3>2. RecordOK'
      BY <2>Finalize, <2>t, Names DEF Finalize, RecordOK
    <3>3. ControlOK'
      BY <2>Finalize, <2>t, StageNames DEF Finalize, ControlOK
    <3> QED
      BY <3>1, <3>2, <3>3, TypePartsNext
  <2>EscapeWork. CASE EscapeWork
    <3>1. ProgressOK'
      BY <2>EscapeWork, <2>t, ProgressStays DEF EscapeWork
    <3>2. RecordOK'
      BY <2>EscapeWork, <2>t, Names DEF EscapeWork, RecordOK
    <3>3. ControlOK'
      BY <2>EscapeWork, <2>t, StageNames DEF EscapeWork, ControlOK
    <3> QED
      BY <3>1, <3>2, <3>3, TypePartsNext
  <2>PublishRetained. CASE PublishRetained
    <3>1. ProgressOK'
      BY <2>PublishRetained, <2>t, ProgressStays DEF PublishRetained
    <3>2. RecordOK'
      BY <2>PublishRetained, <2>t, Names DEF PublishRetained, RecordOK
    <3>3. ControlOK'
      BY <2>PublishRetained, <2>t, StageNames DEF PublishRetained, ControlOK
    <3> QED
      BY <3>1, <3>2, <3>3, TypePartsNext
  <2>RecordSafetyCleanup. CASE RecordSafetyCleanup
    <3>1. ProgressOK'
      BY <2>RecordSafetyCleanup, <2>t, ProgressStays, EnterTypes DEF RecordSafetyCleanup
    <3>2. RecordOK'
      BY <2>RecordSafetyCleanup, <2>t, Names DEF RecordSafetyCleanup, RecordOK
    <3>3. ControlOK'
      BY <2>RecordSafetyCleanup, <2>t, StageNames DEF RecordSafetyCleanup, ControlOK
    <3> QED
      BY <3>1, <3>2, <3>3, TypePartsNext
  <2>SweepArtifacts. CASE SweepArtifacts
    <3>1. ProgressOK'
      BY <2>SweepArtifacts, <2>t, ProgressStays DEF SweepArtifacts
    <3>2. RecordOK'
      BY <2>SweepArtifacts, <2>t, Names DEF SweepArtifacts, RecordOK
    <3>3. ControlOK'
      BY <2>SweepArtifacts, <2>t, StageNames DEF SweepArtifacts, ControlOK
    <3> QED
      BY <3>1, <3>2, <3>3, TypePartsNext
  <2>SweepService. CASE SweepService
    <3>1. ProgressOK'
      BY <2>SweepService, <2>t, ProgressStays DEF SweepService
    <3>2. RecordOK'
      BY <2>SweepService, <2>t, Names DEF SweepService, RecordOK
    <3>3. ControlOK'
      BY <2>SweepService, <2>t, StageNames DEF SweepService, ControlOK
    <3> QED
      BY <3>1, <3>2, <3>3, TypePartsNext
  <2>SampleCancellation. CASE SampleCancellation
    <3>1. ProgressOK'
      BY <2>SampleCancellation, <2>t, ProgressStays DEF SampleCancellation
    <3>2. RecordOK'
      BY <2>SampleCancellation, <2>t, Names DEF SampleCancellation, RecordOK
    <3>3. ControlOK'
      BY <2>SampleCancellation, <2>t, StageNames DEF SampleCancellation, ControlOK
    <3> QED
      BY <3>1, <3>2, <3>3, TypePartsNext
  <2>Seal. CASE Seal
    <3>1. ProgressOK'
      BY <2>Seal, <2>t, ProgressStays DEF Seal
    <3>2. RecordOK'
      BY <2>Seal, <2>t, Names DEF Seal, RecordOK
    <3>3. ControlOK'
      BY <2>Seal, <2>t, StageNames DEF Seal, ControlOK, Classified, Outcomes
    <3> QED
      BY <3>1, <3>2, <3>3, TypePartsNext
  <2>c. CASE RequestCancellation
    BY <2>c, <2>t, TypePartsNext DEF RequestCancellation, ProgressOK, RecordOK, ControlOK
  <2>v. CASE UNCHANGED vars
    BY <2>v, <2>t, TypePartsNext DEF vars, ProgressOK, RecordOK, ControlOK
  <2> QED
    BY <2>Begin, <2>AbandonPreparing, <2>LoadProfile, <2>Resolve, <2>FinishPreparation,
       <2>PrepareRoot, <2>RecordPreparation, <2>Branch, <2>SkipPhase, <2>Halt,
       <2>Discover, <2>WalkArchives, <2>PreflightArchives, <2>OpenExtraction,
       <2>PlanExtraction, <2>NextExtraction, <2>AttemptExtraction, <2>Build, <2>WalkTree,
       <2>OpenProcessing, <2>NextAsset, <2>AttemptAsset, <2>CancelByBackend,
       <2>PublishBeforeFinalization, <2>OpenFinalization, <2>PlanOutputs, <2>Finalize,
       <2>EscapeWork, <2>PublishRetained, <2>RecordSafetyCleanup, <2>SweepArtifacts,
       <2>SweepService, <2>SampleCancellation, <2>Seal, <2>c, <2>v DEF Next, ExecutorStep
<1> QED
  BY <1>1, <1>2, PTL DEF Spec

(* Run Evidence accepts what each stage records.                            *)
LEMMA Accepted ==
  ASSUME TypeOK, ExecutorInv
  PROVE  /\ At("begin") => MayRecordPhase(Preparing, "executed")
         /\ At("decide") => MayRecordFact("preparation")
         /\ At("skip") /\ current < Finalization => MayRecordPhase(current + 1, "skipped")
         /\ At("discover") => MayRecordPhase(Discovering, "executed")
         /\ At("walk") => MayRecordFact("counts")
         /\ At("preflight") => MayRecordFact("collisions")
         /\ At("openExtraction") => /\ MayRecordPhase(Extracting, "planned")
                                    /\ MayOpen(Extracting)
         /\ At("extraction") => MayRecordAttempt(Extracting)
         /\ At("tree") => MayRecordPhase(Building, "executed")
         /\ At("treeWalk") => MayRecordFact("nested")
         /\ At("openProcessing") => MayOpenProcessing
         /\ At("asset") => MayRecordAttempt(Processing)
         /\ At("openFinalization") => /\ MayRecordPhase(Finalization, "planned")
                                      /\ MayOpen(Finalization)
         /\ At("planOutputs") => MayRecordFact("basis")
         /\ At("finalization") => MayRecordFact("finalization")
         /\ At("cleanup") => MayRecordPhase(SafetyCleanup, "executed")
         /\ stage \in {"sweepArtifacts", "sweepService"} => MayRecordCleanupFailure
<1> USE DEF TypeOK, EvidenceTypeOK, ExecutorInv, MayEnter, MayOpen, MayRecordPhase
<1>1. At("openProcessing") => MayOpenProcessing
  BY DEF MayOpenProcessing, PhaseOfStage, FactsOfStage, PhasesInOrder, ClearSoFar, Working,
         Stages
<1>2. /\ At("extraction") => MayRecordAttempt(Extracting)
      /\ At("asset") => MayRecordAttempt(Processing)
  BY DEF MayRecordAttempt, PhaseOfStage, DoneSoFar
<1>3. /\ At("decide") => MayRecordFact("preparation")
      /\ At("walk") => MayRecordFact("counts")
      /\ At("preflight") => MayRecordFact("collisions")
      /\ At("treeWalk") => MayRecordFact("nested")
      /\ At("planOutputs") => MayRecordFact("basis")
      /\ At("finalization") => MayRecordFact("finalization")
  BY DEF MayRecordFact, FactPhase, PhaseOfStage, FactsOfStage, Working, Stages
<1>4. /\ At("begin") => MayRecordPhase(Preparing, "executed")
      /\ At("skip") /\ current < Finalization => MayRecordPhase(current + 1, "skipped")
      /\ At("discover") => MayRecordPhase(Discovering, "executed")
      /\ At("tree") => MayRecordPhase(Building, "executed")
      /\ At("cleanup") => MayRecordPhase(SafetyCleanup, "executed")
  BY DEF PhaseOfStage, AttemptBearing, Plannable
<1>5. /\ At("openExtraction") => MayRecordPhase(Extracting, "planned") /\ MayOpen(Extracting)
      /\ At("openFinalization") => /\ MayRecordPhase(Finalization, "planned")
                                   /\ MayOpen(Finalization)
  BY DEF PhaseOfStage, PhasesInOrder, AttemptBearing, Plannable
<1>6. stage \in {"sweepArtifacts", "sweepService"} => MayRecordCleanupFailure
  BY DEF MayRecordCleanupFailure, PhaseOfStage
<1> HIDE DEF TypeOK, ExecutorInv, MayOpen, MayRecordPhase, At
<1> QED
  BY <1>1, <1>2, <1>3, <1>4, <1>5, <1>6

(* ExecutorInv is inductive.                                                *)
THEOREM ExecutorInvariant == Spec => []ExecutorInv
<1>1. Init => ExecutorInv
  BY DEF Init, NewEvidence, ExecutorInv, PhaseOfStage, FactsOfStage, PhasesInOrder,
     ClearSoFar,
         DoneSoFar, StopsAreExcused, AttemptsInFlight, DiagnosticsOut, LeftoversKnown, Working,
         Ending, Stages
<1>2. TypeOK /\ TypeOK' /\ ExecutorInv /\ [Next]_vars => ExecutorInv'
  <2> SUFFICES ASSUME TypeOK, TypeOK', ExecutorInv, [Next]_vars PROVE ExecutorInv'
    OBVIOUS
  <2> USE Accepted DEF TypeOK, EvidenceTypeOK, ExecutorInv, PhaseOfStage, FactsOfStage,
          PhasesInOrder, ClearSoFar, DoneSoFar, StopsAreExcused, AttemptsInFlight,
          DiagnosticsOut, LeftoversKnown, Working, Ending, PhaseDone, Complete, Excused
  <2> USE DEF Stages, Outcomes, StopWork, Proceed, Record, NotePhase, Enter, Open,
          RecordOnce, FailRun, EnterPhase, RecordFact, RecordFailure, Retain,
          PublishDiagnostics, RecordDiagnostic, Walk, Sweep, AttemptBearing, Plannable
  <2>Begin. CASE Begin
    BY <2>Begin DEF Begin
  <2>AbandonPreparing. CASE AbandonPreparing
    BY <2>AbandonPreparing DEF AbandonPreparing
  <2>LoadProfile. CASE LoadProfile
    BY <2>LoadProfile DEF LoadProfile
  <2>Resolve. CASE Resolve
    BY <2>Resolve DEF Resolve
  <2>FinishPreparation. CASE FinishPreparation
    BY <2>FinishPreparation DEF FinishPreparation
  <2>PrepareRoot. CASE PrepareRoot
    BY <2>PrepareRoot DEF PrepareRoot
  <2>RecordPreparation. CASE RecordPreparation
    BY <2>RecordPreparation DEF RecordPreparation
  <2>Branch. CASE Branch
    BY <2>Branch DEF Branch
  <2>SkipPhase. CASE SkipPhase
    BY <2>SkipPhase DEF SkipPhase
  <2>Halt. CASE Halt
    BY <2>Halt DEF Halt, Sampled
  <2>Discover. CASE Discover
    BY <2>Discover DEF Discover
  <2>WalkArchives. CASE WalkArchives
    BY <2>WalkArchives DEF WalkArchives
  <2>PreflightArchives. CASE PreflightArchives
    <3>1. CASE FailRun
      BY <2>PreflightArchives, <3>1 DEF PreflightArchives
    <3>2. CASE cancelled /\ Proceed("publish")
      BY <2>PreflightArchives, <3>2 DEF PreflightArchives
    <3>3. CASE /\ At("preflight") /\ RecordOnce("collisions", "openExtraction")
               /\ RecordDiagnostic \/ UNCHANGED diagnostics
               /\ UNCHANGED <<verdicts, observed, cleanupFailures, roots, others>>
      BY <3>3
    <3> HIDE DEF ExecutorInv, FailRun, Proceed, RecordOnce, RecordDiagnostic, others, At
    <3> QED
      BY <2>PreflightArchives, <3>1, <3>2, <3>3 DEF PreflightArchives
  <2>OpenExtraction. CASE OpenExtraction
    BY <2>OpenExtraction DEF OpenExtraction
  <2>PlanExtraction. CASE PlanExtraction
    BY <2>PlanExtraction DEF PlanExtraction
  <2>NextExtraction. CASE NextExtraction
    BY <2>NextExtraction DEF NextExtraction
  <2>AttemptExtraction. CASE AttemptExtraction
    <3>1. PICK o \in AttemptOutcomes : Attempt(Extracting, o, "extractions")
      BY <2>AttemptExtraction DEF AttemptExtraction
    <3> QED
      BY <2>AttemptExtraction, <3>1 DEF AttemptExtraction, Attempt, RecordAttempt
  <2>Build. CASE Build
    BY <2>Build DEF Build
  <2>WalkTree. CASE WalkTree
    <3>1. CASE stage' = "openProcessing"
      BY <2>WalkTree, <3>1 DEF WalkTree
    <3>2. CASE cancelled /\ Walk(TRUE, UNCHANGED <<progress, facts>>, "publish")
      BY <2>WalkTree, <3>2 DEF WalkTree
    <3> QED
      BY <2>WalkTree, <3>1, <3>2 DEF WalkTree
  <2>OpenProcessing. CASE OpenProcessing
    BY <2>OpenProcessing DEF OpenProcessing
  <2>NextAsset. CASE NextAsset
    BY <2>NextAsset DEF NextAsset
  <2>AttemptAsset. CASE AttemptAsset
    <3>1. PICK o \in AttemptOutcomes : Attempt(Processing, o, "assets")
      BY <2>AttemptAsset DEF AttemptAsset
    <3> QED
      BY <2>AttemptAsset, <3>1 DEF AttemptAsset, Attempt, RecordAttempt
  <2>CancelByBackend. CASE CancelByBackend
    BY <2>CancelByBackend DEF CancelByBackend
  <2>PublishBeforeFinalization. CASE PublishBeforeFinalization
    BY <2>PublishBeforeFinalization DEF PublishBeforeFinalization
  <2>OpenFinalization. CASE OpenFinalization
    BY <2>OpenFinalization DEF OpenFinalization
  <2>PlanOutputs. CASE PlanOutputs
    <3>1. CASE Proceed("publish")
      BY <2>PlanOutputs, <3>1 DEF PlanOutputs
    <3>2. CASE FailRun
      BY <2>PlanOutputs, <3>2 DEF PlanOutputs
    <3>3. CASE /\ At("planOutputs") /\ RecordOnce("basis", "publish")
               /\ RecordDiagnostic \/ UNCHANGED diagnostics
               /\ UNCHANGED <<verdicts, observed, cleanupFailures, roots, others>>
      BY <3>3
    <3> HIDE DEF ExecutorInv, FailRun, Proceed, RecordOnce, RecordDiagnostic, others, At
    <3> QED
      BY <2>PlanOutputs, <3>1, <3>2, <3>3 DEF PlanOutputs
  <2>Finalize. CASE Finalize
    <3>1. CASE cancelled /\ Proceed("publish")
      BY <2>Finalize, <3>1 DEF Finalize
    <3>2. CASE /\ At("finalization") /\ RecordOnce("finalization", "publish")
               /\ unsafeWork' \in BOOLEAN /\ observed' \in {observed, observed \/ cancelled}
               /\ UNCHANGED <<failures, diagnostics, cleanupFailures, roots, run,
                              cancelled, backend, outcome, late>>
      BY <3>2
    <3> HIDE DEF ExecutorInv, FailRun, Proceed, RecordOnce, RecordDiagnostic, others, At
    <3> QED
      BY <2>Finalize, <3>1, <3>2 DEF Finalize
  <2>EscapeWork. CASE EscapeWork
    BY <2>EscapeWork DEF EscapeWork
  <2>PublishRetained. CASE PublishRetained
    BY <2>PublishRetained DEF PublishRetained
  <2>RecordSafetyCleanup. CASE RecordSafetyCleanup
    BY <2>RecordSafetyCleanup DEF RecordSafetyCleanup
  <2>SweepArtifacts. CASE SweepArtifacts
    BY <2>SweepArtifacts DEF SweepArtifacts
  <2>SweepService. CASE SweepService
    BY <2>SweepService DEF SweepService
  <2>SampleCancellation. CASE SampleCancellation
    BY <2>SampleCancellation DEF SampleCancellation
  <2>Seal. CASE Seal
    BY <2>Seal DEF Seal, Classified
  <2>c. CASE RequestCancellation
    BY <2>c DEF RequestCancellation
  <2>v. CASE UNCHANGED vars
    BY <2>v DEF vars, Classified
  <2> QED
    BY <2>Begin, <2>AbandonPreparing, <2>LoadProfile, <2>Resolve, <2>FinishPreparation,
       <2>PrepareRoot, <2>RecordPreparation, <2>Branch, <2>SkipPhase, <2>Halt, <2>Discover,
       <2>WalkArchives, <2>PreflightArchives, <2>OpenExtraction, <2>PlanExtraction,
       <2>NextExtraction, <2>AttemptExtraction, <2>Build, <2>WalkTree, <2>OpenProcessing,
       <2>NextAsset, <2>AttemptAsset, <2>CancelByBackend, <2>PublishBeforeFinalization,
       <2>OpenFinalization, <2>PlanOutputs, <2>Finalize, <2>EscapeWork, <2>PublishRetained,
       <2>RecordSafetyCleanup, <2>SweepArtifacts, <2>SweepService, <2>SampleCancellation,
       <2>Seal, <2>c, <2>v DEF Next, ExecutorStep
<1> QED
  BY <1>1, <1>2, TypeCorrect, PTL DEF Spec

-----------------------------------------------------------------------------
(* The properties.                                                          *)

(* However the run is cancelled, fails or panics, Run Evidence refuses      *)
(* nothing of it.                                                           *)
THEOREM NothingIsRefused == Spec => []EvidenceAccepts
<1>1. ExecutorInv => EvidenceAccepts
  BY DEF ExecutorInv, EvidenceAccepts
<1> QED
  BY <1>1, ExecutorInvariant, PTL

(* A completed outcome is earned: no early return is taken for the end.     *)
THEOREM CompletionIsEarned == Spec => []CompletionIsReal
<1>1. ExecutorInv => CompletionIsReal
  BY DEF ExecutorInv, StopsAreExcused, Excused, Classified, CompletionIsReal
<1> QED
  BY <1>1, ExecutorInvariant, PTL

(* Cancellation costs at most the attempt in flight.                        *)
THEOREM CancelsPromptly == Spec => []CancellationIsPrompt
<1>1. ExecutorInv => CancellationIsPrompt
  BY DEF ExecutorInv, AttemptsInFlight, CancellationIsPrompt
<1> QED
  BY <1>1, ExecutorInvariant, PTL

(* Every way to Safety Cleanup publishes the retained diagnostics first.    *)
THEOREM DiagnosticsComeFirst == Spec => []DiagnosticsPrecedeCleanup
<1>1. TypeOK /\ ExecutorInv => DiagnosticsPrecedeCleanup
  <2> SUFFICES ASSUME TypeOK, ExecutorInv, current = SafetyCleanup
               PROVE  published = retained
    BY DEF DiagnosticsPrecedeCleanup
  <2>1. stage \in Ending \ {"publish"}
    BY DEF TypeOK, Stages, ExecutorInv, PhaseOfStage, Ending
  <2> QED
    BY <2>1 DEF ExecutorInv, DiagnosticsOut
<1> QED
  BY <1>1, TypeCorrect, ExecutorInvariant, PTL

(* What Safety Cleanup left behind is in the result.                        *)
THEOREM LeftoversAreReported == Spec => []CleanupIsReported
<1>1. ExecutorInv => CleanupIsReported
  BY DEF ExecutorInv, StopsAreExcused, LeftoversKnown, Classified, CleanupIsReported
<1> QED
  BY <1>1, ExecutorInvariant, PTL

(* Nothing is attempted, planned or finalized after unsafe work.            *)
THEOREM UnsafeWorkStops == Spec => NothingAfterUnsafe
<1> DEFINE Frozen == unsafeWork \/ failures > 0 =>
                       \A p \in Preparing..Finalization :
                           attempts'[p] = attempts[p] /\ status'[p] = status[p]
<1>1. TypeOK /\ ExecutorInv /\ [Next]_vars => [Frozen]_vars
  <2> SUFFICES ASSUME TypeOK, ExecutorInv, Next, unsafeWork \/ failures > 0,
                      NEW p \in Preparing..Finalization
               PROVE  attempts'[p] = attempts[p] /\ status'[p] = status[p]
    OBVIOUS
  <2>1. stage \in Ending
    BY DEF TypeOK, EvidenceTypeOK, ExecutorInv, ClearSoFar, Working, Ending, Stages
  <2>2. ASSUME EnterPhase(SafetyCleanup, "executed", 0)
        PROVE  attempts'[p] = attempts[p] /\ status'[p] = status[p]
    BY <2>2 DEF EnterPhase, TypeOK, EvidenceTypeOK
  <2>3. CASE RecordSafetyCleanup
    BY <2>2, <2>3 DEF RecordSafetyCleanup, NotePhase, Record
  <2>4. CASE PublishRetained \/ SweepArtifacts \/ SweepService \/ SampleCancellation \/ Seal
             \/ RequestCancellation
    BY <2>4 DEF PublishRetained, SweepArtifacts, SweepService, Sweep, SampleCancellation,
       Seal,
       RequestCancellation
  <2> QED
    BY <2>1, <2>3, <2>4 DEF Next, ExecutorStep, Ending, Sampled, Working, Stages,
       Begin, AbandonPreparing, LoadProfile, Resolve, FinishPreparation,
       PrepareRoot, RecordPreparation, Branch, SkipPhase, Halt,
       Discover, WalkArchives, PreflightArchives, OpenExtraction, PlanExtraction,
       NextExtraction, AttemptExtraction, Build, WalkTree, OpenProcessing,
       NextAsset, AttemptAsset, CancelByBackend, PublishBeforeFinalization, OpenFinalization,
       PlanOutputs, Finalize, EscapeWork
<1> QED
  BY <1>1, TypeCorrect, ExecutorInvariant, PTL DEF Spec, NothingAfterUnsafe

=============================================================================
