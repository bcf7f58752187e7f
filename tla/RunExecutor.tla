---------------------------- MODULE RunExecutor ----------------------------
(***************************************************************************)
(* The Run Executor and its work phases (executor.rs,                      *)
(* executor/work_phases.rs): one run, driven through the Run Phases and    *)
(* recording every fact in Run Evidence, while other threads, and the      *)
(* observers it calls, may cancel it between any two steps and any         *)
(* component it calls may fail or panic.                                   *)
(*                                                                         *)
(* A step runs from one sample of the CancellationToken, or one call of    *)
(* a component, to the next.  `stage` names the step to come.              *)
(*                                                                         *)
(* Abstractions.  What an attempt does is one step with the outcomes its   *)
(* module allows; Archive Finalization is one step as well (see            *)
(* ArchiveFinalization).  Provider, router and walks yield how much work   *)
(* there is.  Plans, totals and diagnostics are counted up to bounds.      *)
(***************************************************************************)
EXTENDS RunEvidence

CONSTANTS
    MaxRoots,       \* bound: Mod Roots of the run
    MaxWork         \* bound: Archives planned, and Assets routed

ASSUME BoundAssumption == MaxRoots \in Nat /\ MaxWork \in Nat

VARIABLES
    mode,           \* "Apply" or "DryRun"
    requested,      \* the request has work
    cancelled,      \* the CancellationToken
    stage,          \* the step the executor takes next
    roots,          \* Mod Roots still to be prepared
    staged,         \* the registry owns temporary artifacts
    backend,        \* a backend reported cancellation (Stop::BackendCancelled)
    violation,      \* DeferredInvariant
    outcome,        \* the terminal result's outcome, "none" until sealed
    (* History *)
    late            \* attempts recorded since the token was cancelled

run == <<mode, requested>>
vars == <<evidence, run, cancelled, stage, roots, staged, backend, violation,
          outcome, late>>

Stages == {"begin", "load", "resolve", "resolved", "roots", "decide", "branch",
           "skip", "discover", "walk", "preflight", "openExtraction",
           "planExtraction", "extractions", "extraction", "tree", "treeWalk",
           "openProcessing", "assets", "asset", "finalize", "openFinalization",
           "planOutputs", "finalization", "publish", "cleanup", "sweepArtifacts",
           "sweepService", "sample", "seal", "done"}
Outcomes == {"Succeeded", "CompletedWithFailures", "Cancelled", "Failed"}

TypeOK ==
    /\ EvidenceTypeOK
    /\ mode \in {"Apply", "DryRun"}
    /\ requested \in BOOLEAN
    /\ cancelled \in BOOLEAN
    /\ stage \in Stages
    /\ roots \in 0..MaxRoots
    /\ staged \in BOOLEAN
    /\ backend \in BOOLEAN
    /\ violation \in BOOLEAN
    /\ outcome \in Outcomes \cup {"none"}
    /\ late \in Nat

Init ==
    /\ NewEvidence
    /\ mode \in {"Apply", "DryRun"} /\ requested \in BOOLEAN
    /\ cancelled \in BOOLEAN
    /\ stage = "begin" /\ roots = 0 /\ staged = FALSE
    /\ backend = FALSE /\ violation = FALSE
    /\ outcome = "none" /\ late = 0

-----------------------------------------------------------------------------
At(s) == stage = s
Goto(s) == stage' = s

(* A stop: the work returns, and the executor goes on to its last steps.   *)
StopWork == Goto("publish")

(* What most steps leave alone.                                            *)
others == <<run, cancelled, staged, backend, outcome, late>>
quiet == <<verdicts, diagnostics, observed, cleanupFailures, roots, others>>

(* Only the next step is decided.                                          *)
Proceed(s) == Goto(s) /\ UNCHANGED <<progress, facts, violation, quiet>>

(* Run Evidence takes the fact, or the violation is noted.                 *)
Record(allowed, effect, refused) ==
    IF allowed THEN effect /\ UNCHANGED violation
    ELSE violation' = TRUE /\ Goto(refused) /\ UNCHANGED <<progress, facts>>

(* The traversal notes a violation and goes on; the work phases return it. *)
NotePhase(p, s, next) ==
    Record(MayRecordPhase(p, s),
           EnterPhase(p, s, 0) /\ Goto(next) /\ UNCHANGED facts, next)

Enter(p, s, next) ==
    Record(MayRecordPhase(p, s),
           EnterPhase(p, s, 0) /\ Goto(next) /\ UNCHANGED facts, "publish")

Open(p, n, next) ==
    Record(MayOpen(p),
           EnterPhase(p, "executed", n) /\ Goto(next) /\ UNCHANGED facts, "publish")

RecordOnce(f, next) ==
    Record(MayRecordFact(f),
           RecordFact(f) /\ Goto(next) /\ UNCHANGED progress, "publish")

(* A Run Failure ends the work.                                            *)
FailRun ==
    /\ RecordFailure /\ StopWork
    /\ UNCHANGED <<unsafeWork, contained, progress, facts, violation, diagnostics,
                   observed, cleanupFailures, roots, others>>

RequestCancellation ==
    /\ ~cancelled /\ ~At("done")
    /\ cancelled' = TRUE
    /\ UNCHANGED <<evidence, run, stage, roots, staged, backend, violation, outcome,
                   late>>

(* The work phases sample the token at these steps and stop.               *)
Sampled == {"openExtraction", "planExtraction", "extractions", "assets",
            "openFinalization"}

Halt == stage \in Sampled /\ cancelled /\ Proceed("publish")

-----------------------------------------------------------------------------
(* Preparing.                                                              *)

Begin ==
    /\ At("begin")
    /\ NotePhase(Preparing, "executed", "load")
    /\ UNCHANGED quiet

(* Cancelled while preparing: there is no preparation.                     *)
AbandonPreparing ==
    /\ stage \in {"load", "resolve", "resolved", "roots"} /\ cancelled
    /\ Proceed("decide")

LoadProfile ==
    /\ At("load") /\ ~cancelled
    /\ FailRun \/ Proceed("resolve")

(* compile_policy and resolve_mod_roots, which publishes Mod Exclusions.   *)
Resolve ==
    /\ At("resolve") /\ ~cancelled
    /\ \/ FailRun
       \/ /\ Goto("resolved")
          /\ roots' \in 0..MaxRoots
          /\ RecordDiagnostic \/ UNCHANGED diagnostics
          /\ UNCHANGED <<progress, facts, violation, verdicts, observed,
                         cleanupFailures, others>>

FinishPreparation ==
    /\ At("resolved") /\ ~cancelled
    /\ Proceed(IF mode = "Apply" THEN "roots" ELSE "decide")

(* Apply recovers each Mod Root's staging before any work.                 *)
PrepareRoot ==
    /\ At("roots") /\ ~cancelled
    /\ \/ roots = 0 /\ Proceed("decide")
       \/ roots > 0 /\ FailRun
       \/ /\ roots > 0 /\ roots' = roots - 1
          /\ UNCHANGED <<evidence, stage, violation, others>>

RecordPreparation ==
    /\ At("decide")
    /\ IF cancelled
         THEN Goto("branch") /\ UNCHANGED <<progress, facts, violation>>
         ELSE Record(MayRecordFact("preparation"),
                     /\ RecordFact("preparation") /\ Goto("branch")
                     /\ UNCHANGED progress, "branch")
    /\ UNCHANGED quiet

Branch ==
    /\ At("branch")
    /\ Proceed(IF cancelled THEN "publish"
               ELSE IF requested THEN "discover" ELSE "skip")

(* Nothing was requested: every work phase is skipped, in order.           *)
SkipPhase ==
    /\ At("skip")
    /\ IF cancelled \/ current >= Finalization
         THEN StopWork /\ UNCHANGED <<progress, facts, violation>>
         ELSE NotePhase(current + 1, "skipped", "skip")
    /\ UNCHANGED quiet

-----------------------------------------------------------------------------
(* Discovering Archives.                                                   *)

Discover ==
    /\ At("discover")
    /\ Enter(Discovering, "executed", "walk")
    /\ UNCHANGED quiet

(* A walk polls the token for every entry, so it is partial only once the  *)
(* token is cancelled; a linked entry it excludes is retained.             *)
Walk(allowed, effect, next) ==
    /\ Record(allowed, effect /\ Goto(next), "publish")
    /\ \E n \in 0..1 : Retain(n)
    /\ UNCHANGED <<published, verdicts, observed, cleanupFailures, roots, others>>

(* The counts a partial pass reached are recorded as well.                 *)
WalkArchives ==
    /\ At("walk")
    /\ \E next \in {"preflight"} \cup IF cancelled THEN {"publish"} ELSE {} :
         Walk(MayRecordFact("counts"), RecordFact("counts") /\ UNCHANGED progress, next)

(* The preflight fails, observes the token, or plans; a Dry Run's shortage *)
(* is a warning.                                                           *)
PreflightArchives ==
    /\ At("preflight")
    /\ \/ FailRun
       \/ cancelled /\ Proceed("publish")
       \/ /\ RecordOnce("collisions", "openExtraction")
          /\ \/ mode = "DryRun" /\ RecordDiagnostic
             \/ UNCHANGED diagnostics
          /\ UNCHANGED <<verdicts, observed, cleanupFailures, roots, others>>

-----------------------------------------------------------------------------
(* Extracting Archives.                                                    *)

OpenExtraction ==
    /\ At("openExtraction") /\ ~cancelled
    /\ IF mode = "DryRun"
         THEN Enter(Extracting, "planned", "planExtraction")
         ELSE \E n \in 0..MaxWork : Open(Extracting, n, "extractions")
    /\ UNCHANGED quiet

PlanExtraction == At("planExtraction") /\ ~cancelled /\ Proceed("tree")

NextExtraction ==
    /\ At("extractions") /\ ~cancelled
    /\ Proceed(IF attempts[Extracting] < total[Extracting] THEN "extraction" ELSE "tree")

(* Mutant: a failed attempt never stops the work.                          *)
NeverStops(p, o, next) ==
    /\ IF MayRecordAttempt(p)
         THEN RecordAttempt(p, o) /\ Goto(next) /\ UNCHANGED violation
         ELSE violation' = TRUE /\ StopWork /\ UNCHANGED <<progress, verdicts>>
    /\ late' = late + IF cancelled THEN 1 ELSE 0
    /\ UNCHANGED <<facts, observed, roots, run, cancelled, backend, outcome>>

(* An attempt that was started finishes and is recorded; an unsafe one     *)
(* stops the work.                                                         *)
Attempt(p, o, next) ==
    /\ IF MayRecordAttempt(p)
         THEN /\ RecordAttempt(p, o)
              /\ Goto(IF o = "unsafe" THEN "publish" ELSE next)
              /\ UNCHANGED violation
         ELSE violation' = TRUE /\ StopWork /\ UNCHANGED <<progress, verdicts>>
    /\ late' = late + IF cancelled THEN 1 ELSE 0
    /\ UNCHANGED <<facts, observed, roots, run, cancelled, backend, outcome>>

AttemptExtraction ==
    /\ At("extraction")
    /\ \E o \in AttemptOutcomes : Attempt(Extracting, o, "extractions")
    /\ staged' \in {staged, TRUE}
    /\ UNCHANGED <<diagnostics, cleanupFailures>>

-----------------------------------------------------------------------------
(* Building Effective Asset Tree, Processing Assets.                       *)

Build ==
    /\ At("tree")
    /\ Enter(Building, "executed", "treeWalk")
    /\ UNCHANGED quiet

(* Mutant: a partial tree is routed as well.                               *)
RoutesPartialTree ==
    /\ At("treeWalk")
    /\ \/ Walk(MayRecordFact("nested"), RecordFact("nested") /\ UNCHANGED progress,
               "openProcessing")
       \/ cancelled /\ Walk(TRUE, UNCHANGED <<progress, facts>>, "openProcessing")

(* A partial tree never becomes work, and records no count.                *)
WalkTree ==
    /\ At("treeWalk")
    /\ \/ Walk(MayRecordFact("nested"), RecordFact("nested") /\ UNCHANGED progress,
               "openProcessing")
       \/ cancelled /\ Walk(TRUE, UNCHANGED <<progress, facts>>, "publish")

OpenProcessing ==
    /\ At("openProcessing")
    /\ \E n \in 0..MaxWork :
         Record(MayOpenProcessing,
                /\ EnterPhase(Processing, "executed", n) /\ RecordFact("routing")
                /\ Goto("assets"), "publish")
    /\ UNCHANGED quiet

NextAsset ==
    /\ At("assets") /\ ~cancelled
    /\ Proceed(IF attempts[Processing] < total[Processing] THEN "asset" ELSE "finalize")

(* A panicking attempt is an unsafe one.  Dry Run attempts stage nothing.  *)
AttemptAsset ==
    /\ At("asset")
    /\ \E o \in AttemptOutcomes : Attempt(Processing, o, "assets")
    /\ staged' \in IF mode = "Apply" THEN {staged, TRUE} ELSE {staged}
    /\ \E n \in 0..1 : Retain(n)
    /\ cleanupFailures' \in {cleanupFailures, cleanupFailures \cup {"attempt"}}
    /\ UNCHANGED published

(* AssetInitializationCancelled: the token need not show it.               *)
CancelByBackend ==
    /\ At("asset") /\ StopWork
    /\ backend' = TRUE
    /\ UNCHANGED <<evidence, run, cancelled, roots, staged, violation, outcome, late>>

-----------------------------------------------------------------------------
(* Archive Finalization.                                                   *)

PublishBeforeFinalization ==
    /\ At("finalize") /\ Goto("openFinalization")
    /\ PublishDiagnostics
    /\ UNCHANGED <<progress, facts, violation, verdicts, retained, observed,
                   cleanupFailures, roots, others>>

OpenFinalization ==
    /\ At("openFinalization") /\ ~cancelled
    /\ IF mode = "DryRun"
         THEN Enter(Finalization, "planned", "planOutputs")
         ELSE Open(Finalization, 0, "finalization")
    /\ UNCHANGED quiet

(* Planning is not requested, plans, observes the token, or fails.         *)
PlanOutputs ==
    /\ At("planOutputs")
    /\ \/ Proceed("publish")
       \/ FailRun
       \/ /\ RecordOnce("basis", "publish")
          /\ RecordDiagnostic \/ UNCHANGED diagnostics
          /\ UNCHANGED <<verdicts, observed, cleanupFailures, roots, others>>

(* The token is sampled before it starts; then its account says whether it *)
(* observed the token, failed, and was safe.                               *)
Finalize ==
    /\ At("finalization")
    /\ \/ cancelled /\ Proceed("publish")
       \/ /\ RecordOnce("finalization", "publish")
          /\ \E o \in AttemptOutcomes :
               /\ unsafeWork' = (unsafeWork \/ o = "unsafe")
               /\ contained' = (contained \/ o # "succeeded")
          /\ observed' \in {observed, observed \/ cancelled}
          /\ staged' \in {staged, TRUE}
          /\ UNCHANGED <<failures, diagnostics, cleanupFailures, roots, run,
                         cancelled, backend, outcome, late>>

-----------------------------------------------------------------------------
(* Escapes and the end.                                                    *)

Working == Stages \ {"begin", "publish", "cleanup", "sweepArtifacts",
                     "sweepService", "sample", "seal", "done"}

(* A panic or an error outside every seam's own boundary; the traversal is *)
(* abandoned, and what it recorded stays.                                  *)
EscapeWork == stage \in Working /\ FailRun

PublishRetained ==
    /\ At("publish") /\ Goto("cleanup")
    /\ PublishDiagnostics
    /\ UNCHANGED <<progress, facts, violation, verdicts, retained, observed,
                   cleanupFailures, roots, others>>

RecordSafetyCleanup ==
    /\ At("cleanup")
    /\ NotePhase(SafetyCleanup, "executed", "sweepArtifacts")
    /\ UNCHANGED quiet

(* Each cleanup may fail, or its service may fail or panic; its failures   *)
(* are recorded either way.                                                *)
Sweep(failed, next) ==
    /\ IF failed = {} \/ MayRecordCleanupFailure
         THEN cleanupFailures' = cleanupFailures \cup failed /\ UNCHANGED violation
         ELSE violation' = TRUE /\ UNCHANGED cleanupFailures
    /\ Goto(next)
    /\ UNCHANGED <<progress, facts, verdicts, diagnostics, observed, roots, run,
                   cancelled, backend, outcome, late>>

SweepArtifacts ==
    /\ At("sweepArtifacts")
    /\ \/ Sweep({}, "sweepService") /\ staged' = FALSE
       \/ \E code \in {"artifact", "service"} :
            Sweep({code}, "sweepService") /\ UNCHANGED staged

SweepService ==
    /\ At("sweepService")
    /\ \E failed \in {{}, {"artifact"}, {"service"}} : Sweep(failed, "sample")
    /\ UNCHANGED staged

(* Mutant: only the token is asked.                                        *)
SamplesTokenOnly ==
    /\ At("sample") /\ Goto("seal")
    /\ observed' = (observed \/ cancelled)
    /\ failures' = failures + IF violation THEN 1 ELSE 0
    /\ UNCHANGED <<progress, facts, violation, unsafeWork, contained, diagnostics,
                   cleanupFailures, roots, others>>

(* The one sample of the token after cleanup.                              *)
SampleCancellation ==
    /\ At("sample") /\ Goto("seal")
    /\ observed' = (observed \/ cancelled \/ backend)
    /\ failures' = failures + IF violation THEN 1 ELSE 0
    /\ UNCHANGED <<progress, facts, violation, unsafeWork, contained, diagnostics,
                   cleanupFailures, roots, others>>

Seal ==
    /\ At("seal") /\ Goto("done")
    /\ outcome' = Classified
    /\ UNCHANGED <<evidence, run, cancelled, roots, staged, backend, violation, late>>

-----------------------------------------------------------------------------
ExecutorStep ==
    \/ Begin \/ AbandonPreparing \/ LoadProfile \/ Resolve \/ FinishPreparation
    \/ PrepareRoot \/ RecordPreparation \/ Branch \/ SkipPhase \/ Halt
    \/ Discover \/ WalkArchives \/ PreflightArchives
    \/ OpenExtraction \/ PlanExtraction \/ NextExtraction \/ AttemptExtraction
    \/ Build \/ WalkTree \/ OpenProcessing \/ NextAsset \/ AttemptAsset
    \/ CancelByBackend \/ PublishBeforeFinalization \/ OpenFinalization
    \/ PlanOutputs \/ Finalize \/ EscapeWork
    \/ PublishRetained \/ RecordSafetyCleanup \/ SweepArtifacts \/ SweepService
    \/ SampleCancellation \/ Seal

Next == ExecutorStep \/ RequestCancellation

Spec == Init /\ [][Next]_vars

-----------------------------------------------------------------------------
(* Properties                                                              *)

(* Run Evidence never has to refuse a fact of the executor or of the work  *)
(* phases, however they are cancelled, fail or panic: a refusal is a bug   *)
(* that costs the run its result ("the executor panics").                  *)
EvidenceAccepts == ~violation

(* A run reported as completed went through every phase and attempted      *)
(* everything it planned: every early return of the work phases leaves     *)
(* behind a failure, an unsafe attempt or an observed cancellation.        *)
Complete ==
    \A p \in Discovering..Finalization :
        /\ status[p] # "none"
        /\ requested => attempts[p] = total[p] /\ status[p] # "skipped"
        /\ p \in Plannable /\ requested => (status[p] = "planned") = (mode = "DryRun")
CompletionIsReal ==
    outcome \in {"Succeeded", "CompletedWithFailures"} => Complete

(* After an attempt or failure that left unknown mutation behind, nothing  *)
(* more is attempted, planned or finalized.                                *)
NothingAfterUnsafe ==
    [][unsafeWork \/ failures > 0 =>
         \A p \in Preparing..Finalization :
             attempts'[p] = attempts[p] /\ status'[p] = status[p]]_vars

(* "An attempt in flight always finishes", and it is the only one: a       *)
(* cancelled run records at most one more attempt.                         *)
CancellationIsPrompt == late <= 1

(* Diagnostics retained for later are published on every way to Safety     *)
(* Cleanup, whose event follows them.                                      *)
DiagnosticsPrecedeCleanup == current = SafetyCleanup => published = retained

(* No terminal path, a panic included, leaves the run's temporary          *)
(* artifacts behind unreported, and none reports what it cleaned up.       *)
CleanupIsReported ==
    outcome # "none" /\ staged =>
        /\ cleanupFailures \cap {"artifact", "service"} # {}
        /\ outcome # "Succeeded"

=============================================================================
