---------------------------- MODULE RunEvidence ----------------------------
(***************************************************************************)
(* Run Evidence (evidence.rs, evidence/attempt_phase.rs): the facts of one *)
(* Optimization Run, and what the store refuses.  A producer may record a  *)
(* fact only when the operator May... of that fact holds; anything else is *)
(* an invariant violation, a bug of the producer.                          *)
(*                                                                         *)
(* Abstractions.  Facts whose content nothing decides on (collisions,      *)
(* counts, planned work, the ledger) are kept as recorded or not; a phase  *)
(* has a planned total and the attempts recorded so far.  An observer that *)
(* panics is contained by report_safely and leaves one diagnostic that is  *)
(* never published; it changes nothing else and is left out.               *)
(***************************************************************************)
EXTENDS Naturals, FiniteSets

Preparing == 1
Discovering == 2
Extracting == 3
Building == 4
Processing == 5
Finalization == 6
SafetyCleanup == 7
RunPhases == Preparing..SafetyCleanup
NoPhase == 0

AttemptBearing == {Extracting, Processing, Finalization}
Plannable == {Extracting, Finalization}

VARIABLES
    current,        \* the latest phase record's phase
    status,         \* "none", "executed", "skipped" or "planned", per phase
    total,          \* determinate totals of the phases that have one
    attempts,       \* attempts recorded in each phase
    facts,          \* the facts that may be recorded once
    failures,       \* Run Failures retained
    unsafeWork,     \* an attempt or the finalization was not safe to continue
    contained,      \* an attempt or the finalization failed safely
    retained,       \* diagnostics awaiting publication or published
    published,      \* how many of them were published
    observed,       \* cancellation observed
    cleanupFailures \* who failed to clean up: an attempt, or Safety Cleanup's
                    \* artifact registry or service

progress == <<current, status, total, attempts>>
verdicts == <<failures, unsafeWork, contained>>
diagnostics == <<retained, published>>
evidence == <<progress, facts, verdicts, diagnostics, observed, cleanupFailures>>

Facts == {"preparation", "counts", "collisions", "nested", "routing", "basis",
          "finalization"}
CleanupCodes == {"attempt", "artifact", "service"}

EvidenceTypeOK ==
    /\ current \in RunPhases \cup {NoPhase}
    /\ status \in [RunPhases -> {"none", "executed", "skipped", "planned"}]
    /\ total \in [RunPhases -> Nat]
    /\ attempts \in [RunPhases -> Nat]
    /\ facts \in SUBSET Facts
    /\ failures \in Nat
    /\ unsafeWork \in BOOLEAN
    /\ contained \in BOOLEAN
    /\ retained \in Nat
    /\ published \in Nat
    /\ observed \in BOOLEAN
    /\ cleanupFailures \in SUBSET CleanupCodes

NewEvidence ==
    /\ current = NoPhase
    /\ status = [p \in RunPhases |-> "none"]
    /\ total = [p \in RunPhases |-> 0]
    /\ attempts = [p \in RunPhases |-> 0]
    /\ facts = {} /\ cleanupFailures = {}
    /\ failures = 0 /\ retained = 0 /\ published = 0
    /\ unsafeWork = FALSE /\ contained = FALSE /\ observed = FALSE

-----------------------------------------------------------------------------
(* Phases.                                                                 *)

(* A new phase is strictly later than the current one; the first record is *)
(* Preparing or, for a run that was never scheduled, Safety Cleanup.       *)
MayEnter(p) ==
    IF current = NoPhase THEN p \in {Preparing, SafetyCleanup} ELSE p > current

(* A repeated record keeps its status.                                     *)
MayRecordPhase(p, s) ==
    /\ s = "executed" => p \notin AttemptBearing
    /\ s = "planned" => p \in Plannable
    /\ \/ p = current /\ status[p] = s
       \/ MayEnter(p)

MayOpen(p) == status[p] = "none" /\ MayEnter(p)

MayOpenProcessing ==
    /\ current = Building /\ {"counts", "nested"} \subseteq facts /\ failures = 0
    /\ "routing" \notin facts
    /\ MayOpen(Processing)

EnterPhase(p, s, n) ==
    /\ current' = p
    /\ status' = [status EXCEPT ![p] = s]
    /\ total' = [total EXCEPT ![p] = n]
    /\ UNCHANGED attempts

-----------------------------------------------------------------------------
(* Attempts.                                                               *)

MayRecordAttempt(p) ==
    current = p /\ status[p] = "executed" /\ attempts[p] < total[p]

AttemptOutcomes == {"succeeded", "failed", "unsafe"}

RecordAttempt(p, o) ==
    /\ attempts' = [attempts EXCEPT ![p] = @ + 1]
    /\ unsafeWork' = (unsafeWork \/ o = "unsafe")
    /\ contained' = (contained \/ o # "succeeded")
    /\ UNCHANGED <<current, status, total, failures>>

-----------------------------------------------------------------------------
(* Facts, failures, diagnostics.                                           *)

(* The phase in which each fact may be recorded, once.                     *)
FactPhase(f) ==
    IF f = "preparation" THEN {Preparing}
    ELSE IF f = "collisions" THEN {Discovering}
    ELSE IF f \in {"counts", "nested"} THEN Discovering..Building
    ELSE {Finalization}

MayRecordFact(f) ==
    /\ f \notin facts /\ current \in FactPhase(f)
    /\ f = "basis" => status[Finalization] = "planned"
    /\ f = "finalization" => status[Finalization] = "executed"

RecordFact(f) == facts' = facts \cup {f}

RecordFailure == failures' = failures + 1

Retain(n) == retained' = retained + n
PublishDiagnostics == published' = retained

(* record_diagnostic retains one and publishes everything retained.        *)
RecordDiagnostic ==
    /\ retained' = retained + 1
    /\ published' = retained + 1

MayRecordCleanupFailure == current = SafetyCleanup

(* classify_terminal_outcome, over the sealed evidence.                    *)
Classified ==
    IF failures > 0 \/ unsafeWork THEN "Failed"
    ELSE IF observed THEN "Cancelled"
    ELSE IF "service" \in cleanupFailures THEN "Failed"
    ELSE IF contained \/ cleanupFailures # {} THEN "CompletedWithFailures"
    ELSE "Succeeded"

=============================================================================
